--------------------------- MODULE MipsmonProofs ----------------------------
(***************************************************************************)
(* mipsmon for every window, history and scrollback size, session, stream  *)
(* of bytes and sequence of keys: the line that was being edited is never  *)
(* lost by browsing the history, and wrapping a tail of the scrollback     *)
(* draws what wrapping all of it would.                                    *)
(***************************************************************************)
EXTENDS Mipsmon, SequenceTheorems, WellFoundedInduction, TLAPS

Chars    == UNION {s.keys : s \in Sessions}
Sendable == Chars \cup {"^C", "^]", "cr", "del"}

\* the shape of ui
IsUi(u) ==
  /\ DOMAIN u = {"input", "hist", "hist_idx", "saved", "scroll", "raw", "running", "sent"}
  /\ u.hist \in Seq(Seq(Chars)) /\ u.hist_idx \in 0..Len(u.hist)
  /\ u.input \in Seq(Chars) /\ u.saved \in Seq(Chars) /\ u.sent \in Seq(Sendable)
  /\ Len(u.hist) <= MAX_HISTORY /\ u.scroll \in Nat
  /\ u.raw \in BOOLEAN /\ u.running \in BOOLEAN

\* v comes from u by one key: browsing begins with the line that was edited, goes on
\* without touching what is kept, and ends with what was kept, unless the line was sent,
\* interrupted, or the client has quit
Browses(u, v) ==
  /\ IsUi(v) /\ (u.sent # <<>> => v.sent # <<>>)
  /\ u.hist_idx # 0 /\ v.hist_idx # 0 => v.saved = u.saved
  /\ u.hist_idx = 0 /\ v.hist_idx # 0 => v.saved = u.input
  /\ u.hist_idx # 0 /\ v.hist_idx = 0 => v.input = u.saved \/ v.sent # <<>> \/ ~v.running

LEMMA PressDown ==
  ASSUME NEW u, IsUi(u)
  PROVE  Browses(u, press_down(u))
<1>1. CASE u.hist_idx = 0
  BY <1>1 DEF press_down, Browses
<1>2. CASE u.hist_idx # 0 /\ u.hist_idx + 1 > Len(u.hist)
  BY <1>2 DEF press_down, Browses, IsUi
<1>3. CASE u.hist_idx # 0 /\ ~(u.hist_idx + 1 > Len(u.hist))
  <2>1. u.hist[u.hist_idx + 1] \in Seq(Chars)
    BY <1>3 DEF IsUi
  <2> QED BY <2>1, <1>3 DEF press_down, Browses, IsUi
<1> QED BY <1>1, <1>2, <1>3

LEMMA PressUp ==
  ASSUME NEW u, IsUi(u)
  PROVE  Browses(u, press_up(u))
<1>1. CASE u.hist = <<>>
  BY <1>1 DEF press_up, Browses
<1>2. CASE u.hist # <<>>
  <2> DEFINE i == IF u.hist_idx = 0 THEN Len(u.hist) + 1 ELSE u.hist_idx
  <2>1. i \in Nat /\ i # 0
    BY DEF IsUi
  <2>2. CASE i > 1
    <3>1. u.hist[i - 1] \in Seq(Chars)
      BY <2>1, <2>2 DEF IsUi
    <3> QED BY <1>2, <2>1, <2>2, <3>1 DEF press_up, Browses, IsUi
  <2>3. CASE ~(i > 1)
    BY <1>2, <2>1, <2>3 DEF press_up, Browses, IsUi
  <2> QED BY <2>2, <2>3
<1> QED BY <1>1, <1>2

LEMMA Appended ==
  ASSUME NEW S, NEW q \in Seq(S), NEW c \in S
  PROVE  Append(q, c) \in Seq(S) /\ Append(q, c) # <<>>
<1>1. Append(q, c) \in Seq(S) /\ Len(Append(q, c)) = Len(q) + 1 /\ Len(q) \in Nat
  OBVIOUS
<1> QED BY <1>1

LEMMA LastNIsSeq ==
  ASSUME NEW S, NEW q \in Seq(S), NEW n \in Nat
  PROVE  LastN(q, n) \in Seq(S) /\ Len(LastN(q, n)) <= n
BY DEF LastN

LEMMA PressEnter ==
  ASSUME NEW u, IsUi(u)
  PROVE  Browses(u, press_enter(u))
<1> DEFINE l == u.input
           h == IF l = <<>> \/ (u.hist # <<>> /\ Last(u.hist) = l) THEN u.hist ELSE Append(u.hist, l)
<1>1. MAX_HISTORY \in Nat
  BY MipsmonAssumption
<1>2. h \in Seq(Seq(Chars))
  BY DEF IsUi
<1>3. LastN(h, MAX_HISTORY) \in Seq(Seq(Chars)) /\ Len(LastN(h, MAX_HISTORY)) <= MAX_HISTORY
  BY <1>1, <1>2, LastNIsSeq
<1>4. CASE l = <<"q">>
  BY <1>4 DEF press_enter, Browses, IsUi
<1>5. CASE l # <<"q">>
  <2> DEFINE s == u.sent \o l \o <<"cr">>
  <2>1. l \in Seq(Sendable) /\ u.sent \in Seq(Sendable) /\ <<"cr">> \in Seq(Sendable)
    BY DEF IsUi, Sendable
  <2>2. s \in Seq(Sendable) /\ s # <<>>
    BY <2>1
  <2>3. press_enter(u) = [[u EXCEPT !.input = <<>>, !.hist_idx = 0] EXCEPT
                             !.sent = s, !.hist = LastN(h, MAX_HISTORY)]
    BY <1>5 DEF press_enter, IsUi
  <2> HIDE DEF s, h
  <2> QED BY <1>3, <2>2, <2>3 DEF Browses, IsUi
<1> QED BY <1>4, <1>5

\* any other key of LINE mode edits the line and leaves the history alone
LEMMA PressLine ==
  ASSUME NEW u, IsUi(u), NEW k \in Chars
  PROVE  Browses(u, press_line(u, k))
<1>1. CASE k \in {"enter", "up", "down"}
  BY <1>1, PressEnter, PressUp, PressDown DEF press_line
<1>2. CASE k \in {"bs", "^U"}
  <2>1. u.input # <<>> => Front(u.input) \in Seq(Chars)
    BY DEF Front, IsUi
  <2> QED BY <1>2, <2>1 DEF press_line, Browses, IsUi
<1>3. CASE k \notin {"enter", "up", "down", "bs", "^U"}
  <2>1. press_line(u, k) = [u EXCEPT !.input = Append(@, k)]
    BY <1>3 DEF press_line
  <2> QED BY <2>1 DEF Browses, IsUi
<1> QED BY <1>1, <1>2, <1>3

LEMMA PressRaw ==
  ASSUME NEW u, IsUi(u), NEW k \in Chars
  PROVE  Browses(u, press_raw(u, k))
<1>1. \A c \in Sendable : Append(u.sent, c) \in Seq(Sendable) /\ Append(u.sent, c) # <<>>
  BY Appended DEF IsUi
<1>2. \/ press_raw(u, k) = u
      \/ \E c \in Sendable : press_raw(u, k) = [u EXCEPT !.sent = Append(@, c)]
  BY DEF press_raw, Sendable
<1> QED BY <1>1, <1>2 DEF Browses, IsUi

LEMMA Interrupt ==
  ASSUME NEW u, IsUi(u)
  PROVE  Browses(u, interrupt(u)) /\ interrupt(u).sent # <<>> /\ interrupt(u).hist_idx = 0
<1>1. "^C" \in Sendable
  BY DEF Sendable
<1>2. Append(u.sent, "^C") \in Seq(Sendable) /\ Append(u.sent, "^C") # <<>>
  BY <1>1, Appended DEF IsUi
<1> QED BY <1>2 DEF interrupt, Browses, IsUi

\* one key, whatever it is
LEMMA Press ==
  ASSUME NEW u, IsUi(u), NEW k \in Chars \cup {"none"}
  PROVE  Browses(u, press(u, k))
<1> DEFINE live == [u EXCEPT !.scroll = 0]
<1>1. IsUi(live) /\ \A v : Browses(live, v) => Browses(u, v)
  BY DEF IsUi, Browses
<1> HIDE DEF live
<1>2. CASE k \in {"none", "pgup", "pgdn"}
  <2>1. Page \in Nat
    BY MipsmonAssumption DEF Page
  <2>2. u.scroll + Page \in Nat /\ (IF u.scroll > Page THEN u.scroll - Page ELSE 0) \in Nat
    BY <2>1 DEF IsUi
  <2>3. \A n \in Nat : Browses(u, [u EXCEPT !.scroll = n])
    BY DEF Browses, IsUi
  <2> QED BY <1>2, <2>2, <2>3 DEF press, Browses, IsUi
<1>3. CASE k \in {"^\\", "^R", "^L"}
  <2>1. Browses(live, [live EXCEPT !.running = FALSE])
    BY <1>1 DEF Browses, IsUi
  <2>2. Browses(live, [live EXCEPT !.raw = ~@]) /\ Browses(live, live)
    BY <1>1 DEF Browses, IsUi
  <2> QED BY <1>1, <1>3, <2>1, <2>2 DEF press, live
<1>4. CASE k = "^]"
  <2>1. "^]" \in Sendable
    BY DEF Sendable
  <2>2. Append(live.sent, "^]") \in Seq(Sendable) /\ Append(live.sent, "^]") # <<>>
    BY <1>1, <2>1, Appended DEF IsUi
  <2>3. Browses(live, [live EXCEPT !.sent = Append(@, "^]")])
    BY <1>1, <2>2 DEF Browses, IsUi
  <2> QED BY <1>1, <1>4, <2>3 DEF press, live
<1>5. CASE k = "^C"
  BY <1>1, <1>5, Interrupt DEF press, live
<1>6. CASE k \notin {"none", "pgup", "pgdn", "^\\", "^R", "^L", "^]", "^C"}
  <2>1. press(u, k) = IF u.raw THEN press_raw(live, k) ELSE press_line(live, k)
    BY <1>6 DEF press, live
  <2> QED BY <1>1, <1>6, <2>1, PressRaw, PressLine
<1> QED BY <1>2, <1>3, <1>4, <1>5, <1>6

-----------------------------------------------------------------------------
(* Induction over the naturals in first-order form: the set of numbers with a property takes *)
(* the place of the property.                                                                *)

LEMMA LeastNat ==
  ASSUME NEW T, T \subseteq Nat, T # {}
  PROVE  \E x \in T : \A y \in T : x <= y
<1> DEFINE R == {p \in Nat \X Nat : p[1] < p[2]}
<1>1. IsWellFoundedOn(R, Nat)
  BY NatLessThanWellFounded DEF OpToRel
<1>2. \A x, y \in Nat : y < x => <<y, x>> \in R
  <2> SUFFICES ASSUME NEW x \in Nat, NEW y \in Nat, y < x
               PROVE  <<y, x>> \in R
    BY Zenon
  <2> DEFINE q == <<y, x>>
  <2>1. q \in Nat \X Nat /\ q[1] = y /\ q[2] = x
    OBVIOUS
  <2>2. q[1] < q[2]
    BY <2>1
  <2> HIDE DEF q
  <2> QED BY <2>1, <2>2, Zenon DEF q
<1>3. \E x \in T : \A y \in T : ~(<<y, x>> \in R)
  BY <1>1, WFMin, Zenon
<1> HIDE DEF R
<1>4. PICK x \in T : \A y \in T : ~(y < x)
  BY <1>2, <1>3, Zenon
<1> QED BY <1>4

LEMMA NatSetInduction ==
  ASSUME NEW S, 0 \in S, \A n \in Nat : n \in S => n + 1 \in S
  PROVE  \A n \in Nat : n \in S
<1> DEFINE T == Nat \ S
<1> SUFFICES ASSUME T # {}
             PROVE  FALSE
  OBVIOUS
<1>1. PICK x \in T : \A y \in T : x <= y
  BY LeastNat
<1>2. x \in Nat /\ x # 0 /\ x - 1 \in Nat /\ x - 1 \in S
  BY <1>1
<1> QED BY <1>1, <1>2
-----------------------------------------------------------------------------
(* The scrollback: a fold over the bytes that arrive. *)

\* the characters of a line of output, and the shape of out
Glyphs == (UNION {s.bytes : s \in Sessions}) \cup {"blank", "banner", "disconnected"}

IsOut(o) ==
  /\ DOMAIN o = {"lines", "partial"}
  /\ o.lines \in Seq(Seq(Glyphs)) /\ o.partial \in Seq(Glyphs)
  /\ Len(o.lines) <= MAX_SCROLLBACK

LEMMA PushLine ==
  ASSUME NEW o, IsOut(o), NEW l \in Seq(Glyphs)
  PROVE  IsOut(push_line(o, l))
<1> DEFINE a == Append(o.lines, l)
           q == LastN(a, MAX_SCROLLBACK)
<1>1. MAX_SCROLLBACK \in Nat
  BY MipsmonAssumption
<1>2. a \in Seq(Seq(Glyphs))
  BY AppendProperties DEF IsOut
<1>3. q \in Seq(Seq(Glyphs)) /\ Len(q) <= MAX_SCROLLBACK
  BY <1>1, <1>2, LastNIsSeq
<1>4. push_line(o, l) = [o EXCEPT !.lines = q]
  BY DEF push_line
<1> HIDE DEF q
<1> QED BY <1>3, <1>4 DEF IsOut

LEMMA FeedByte ==
  ASSUME NEW o, IsOut(o), NEW c \in Glyphs
  PROVE  IsOut(feed_byte(o, c))
<1>0. \A p \in Seq(Glyphs) : IsOut([o EXCEPT !.partial = p])
  BY DEF IsOut
<1>1. CASE c \in {"cr", "ctl"}
  BY <1>1 DEF feed_byte
<1>2. CASE c = "lf"
  <2> DEFINE v == push_line(o, o.partial)
  <2>1. IsOut(v)
    BY PushLine DEF IsOut
  <2>2. feed_byte(o, c) = [v EXCEPT !.partial = <<>>]
    BY <1>2 DEF feed_byte
  <2> HIDE DEF v
  <2> QED BY <2>1, <2>2 DEF IsOut
<1>3. CASE c = "tab"
  <2> DEFINE n == Tab - (Len(o.partial) % Tab)
             b == Blanks(n)
  <2>1. Len(o.partial) \in Nat /\ Tab \in Nat /\ Tab > 0
    BY MipsmonAssumption, LenProperties DEF IsOut
  <2>2. n \in Nat
    <3>1. \A k, m \in Nat : m > 0 => m - (k % m) \in Nat
      OBVIOUS
    <3> QED BY <2>1, <3>1
  <2> HIDE DEF n
  <2>3. b \in Seq(Glyphs)
    <3>1. "blank" \in Glyphs
      BY DEF Glyphs
    <3>2. [i \in 1 .. n |-> "blank"] \in Seq(Glyphs)
      BY <2>2, <3>1
    <3> QED BY <3>2 DEF Blanks
  <2>4. o.partial \o b \in Seq(Glyphs)
    BY <2>3, ConcatProperties DEF IsOut
  <2>5. feed_byte(o, c) = [o EXCEPT !.partial = @ \o b]
    BY <1>3 DEF feed_byte, n
  <2> HIDE DEF b
  <2> QED BY <1>0, <2>4, <2>5 DEF IsOut
<1>4. CASE c = "bs"
  <2>1. (IF o.partial = <<>> THEN o.partial ELSE Front(o.partial)) \in Seq(Glyphs)
    BY DEF Front, IsOut
  <2> QED BY <1>0, <1>4, <2>1 DEF feed_byte, IsOut
<1>5. CASE c \notin {"cr", "ctl", "lf", "tab", "bs"}
  <2>1. Append(o.partial, c) \in Seq(Glyphs)
    BY AppendProperties DEF IsOut
  <2> QED BY <1>0, <1>5, <2>1 DEF feed_byte, IsOut
<1> QED BY <1>1, <1>2, <1>3, <1>4, <1>5

\* u is the recursive function of feed_output: what a set of positions of bytes makes of o
Feeds(o, bytes, n, u) ==
  u = [s \in SUBSET (1 .. n) |->
         IF s = {} THEN o ELSE feed_byte(u[s \ {Max(s)}], bytes[Max(s)])]

\* the last position of a set of positions
LEMMA MaxFacts ==
  ASSUME NEW n \in Nat, NEW s \in SUBSET (1 .. n), s # {}
  PROVE  /\ Max(s) \in s /\ \A y \in s : Max(s) >= y
<1> DEFINE T == {m \in Nat : \A r \in SUBSET (1 .. m) : r # {} => \E x \in r : \A y \in r : x >= y}
<1>1. 0 \in T
  <2>1. \A r \in SUBSET (1 .. 0) : r = {}
    OBVIOUS
  <2> QED BY <2>1
<1>2. \A m \in Nat : m \in T => m + 1 \in T
  <2> SUFFICES ASSUME NEW m \in Nat, m \in T, NEW r \in SUBSET (1 .. m + 1), r # {}
               PROVE  \E x \in r : \A y \in r : x >= y
    OBVIOUS
  <2>1. CASE m + 1 \in r
    <3>1. \A y \in r : m + 1 >= y
      OBVIOUS
    <3> QED BY <2>1, <3>1
  <2>2. CASE m + 1 \notin r
    <3>1. r \in SUBSET (1 .. m)
      BY <2>2
    <3> QED BY <3>1
  <2> QED BY <2>1, <2>2
<1> HIDE DEF T
<1>3. n \in T
  BY <1>1, <1>2, NatSetInduction
<1>4. \E x \in s : \A y \in s : x >= y
  BY <1>3 DEF T
<1> QED BY <1>4 DEF Max

LEMMA FeedsExist ==
  ASSUME NEW o, NEW bytes, NEW n \in Nat
  PROVE  \E u : Feeds(o, bytes, n, u)
<1> DEFINE S == {m \in Nat : \E u : Feeds(o, bytes, m, u)}
<1>1. 0 \in S
  <2> DEFINE u == [s \in SUBSET (1 .. 0) |-> o]
  <2>1. \A s \in SUBSET (1 .. 0) : s = {}
    OBVIOUS
  <2>2. Feeds(o, bytes, 0, u)
    BY <2>1 DEF Feeds
  <2> QED BY <2>2
<1>2. \A m \in Nat : m \in S => m + 1 \in S
  <2> SUFFICES ASSUME NEW m \in Nat, NEW u, Feeds(o, bytes, m, u)
               PROVE  \E w : Feeds(o, bytes, m + 1, w)
    OBVIOUS
  <2> DEFINE w == [s \in SUBSET (1 .. m + 1) |->
                     IF m + 1 \in s THEN feed_byte(u[s \ {m + 1}], bytes[m + 1]) ELSE u[s]]
  <2>1. \A s \in SUBSET (1 .. m) :
          u[s] = IF s = {} THEN o ELSE feed_byte(u[s \ {Max(s)}], bytes[Max(s)])
    BY DEF Feeds
  <2>2. ASSUME NEW s \in SUBSET (1 .. m + 1)
        PROVE  w[s] = IF s = {} THEN o ELSE feed_byte(w[s \ {Max(s)}], bytes[Max(s)])
    <3>1. CASE m + 1 \in s
      <4>1. Max(s) \in s /\ Max(s) >= m + 1
        BY <3>1, MaxFacts
      <4>2. Max(s) = m + 1
        <5>1. \A x \in s : x \in Int /\ x <= m + 1
          OBVIOUS
        <5>2. PICK k : k = Max(s)
          OBVIOUS
        <5>3. k \in s /\ k >= m + 1
          BY <4>1, <5>2, Zenon
        <5> QED BY <5>1, <5>2, <5>3
      <4>3. s \ {m + 1} \in SUBSET (1 .. m + 1) /\ m + 1 \notin s \ {m + 1}
        OBVIOUS
      <4>4. w[s \ {m + 1}] = u[s \ {m + 1}]
        BY <4>3
      <4> QED BY <3>1, <4>2, <4>4
    <3>2. CASE m + 1 \notin s
      <4>0. ASSUME NEW x \in s
            PROVE  x \in 1 .. m
        <5>1. x \in 1 .. m + 1 /\ x # m + 1
          BY <3>2
        <5> QED BY <5>1
      <4>1. s \in SUBSET (1 .. m) /\ s \ {Max(s)} \in SUBSET (1 .. m + 1) /\ m + 1 \notin s \ {Max(s)}
        BY <3>2, <4>0
      <4>2. w[s] = u[s] /\ w[s \ {Max(s)}] = u[s \ {Max(s)}]
        BY <3>2, <4>1
      <4> HIDE DEF w
      <4> QED BY <2>1, <4>1, <4>2
    <3> QED BY <3>1, <3>2
  <2>3. w = [s \in SUBSET (1 .. m + 1) |-> w[s]]
    OBVIOUS
  <2> HIDE DEF w
  <2>4. Feeds(o, bytes, m + 1, w)
    BY <2>2, <2>3 DEF Feeds
  <2> QED BY <2>4
<1> HIDE DEF S
<1>3. \A m \in Nat : m \in S
  BY <1>1, <1>2, NatSetInduction
<1> QED BY <1>3 DEF S

\* Whatever arrives, the scrollback keeps its shape and its limit.
LEMMA FeedOutput ==
  ASSUME NEW o, IsOut(o), NEW bytes \in Seq(Glyphs)
  PROVE  IsOut(feed_output(o, bytes))
<1> DEFINE n == Len(bytes)
           u == CHOOSE u : Feeds(o, bytes, n, u)
           S == {m \in Nat : m <= n => IsOut(u[1 .. m])}
<1>1. n \in Nat /\ DOMAIN bytes = 1 .. n
  BY LenProperties
<1>2. Feeds(o, bytes, n, u)
  BY <1>1, FeedsExist
<1>3. feed_output(o, bytes) = u[1 .. n]
  <2>1. feed_output(o, bytes) = (CHOOSE v : v = [s \in SUBSET (DOMAIN bytes) |->
           IF s = {} THEN o ELSE feed_byte(v[s \ {Max(s)}], bytes[Max(s)])])[DOMAIN bytes]
    BY Zenon DEF feed_output, FoldLeft, MapThenFoldSet
  <2> QED BY <1>1, <2>1 DEF Feeds
<1>4. ASSUME NEW s \in SUBSET (1 .. n)
      PROVE  u[s] = IF s = {} THEN o ELSE feed_byte(u[s \ {Max(s)}], bytes[Max(s)])
  <2> HIDE DEF u
  <2> QED BY <1>2 DEF Feeds
<1> HIDE DEF u, n
<1>5. 0 \in S
  <2>1. 1 .. 0 = {} /\ {} \in SUBSET (1 .. n)
    OBVIOUS
  <2>2. u[{}] = o
    BY <1>4, <2>1
  <2> QED BY <2>1, <2>2
<1>6. \A m \in Nat : m \in S => m + 1 \in S
  <2> SUFFICES ASSUME NEW m \in Nat, m \in S, m + 1 <= n
               PROVE  IsOut(u[1 .. (m + 1)])
    <3>1. \A m \in Nat : m + 1 \in Nat
      OBVIOUS
    <3> QED BY <3>1, Zenon
  <2> DEFINE s == 1 .. (m + 1)
  <2>1. s \in SUBSET (1 .. n) /\ s # {} /\ m + 1 \in s
    <3>1. \A x \in s : x \in 1 .. n
      BY <1>1
    <3>2. m + 1 \in s
      OBVIOUS
    <3> QED BY <3>1, <3>2
  <2>2. Max(s) = m + 1
    <3>1. Max(s) \in s /\ Max(s) >= m + 1
      BY <1>1, <2>1, MaxFacts
    <3> QED BY <3>1
  <2>3. s \ {m + 1} = 1 .. m
    OBVIOUS
  <2>4. u[s] = feed_byte(u[1 .. m], bytes[m + 1])
    <3> HIDE DEF s
    <3> QED BY <1>4, <2>1, <2>2, <2>3
  <2>5. bytes[m + 1] \in Glyphs
    BY <1>1, ElementOfSeq DEF n
  <2>6. IsOut(u[1 .. m])
    BY <1>1
  <2> QED BY <2>4, <2>5, <2>6, FeedByte
<1> HIDE DEF S
<1>7. n \in S
  BY <1>1, <1>5, <1>6, NatSetInduction
<1> QED BY <1>1, <1>3, <1>7 DEF S
-----------------------------------------------------------------------------
(* The screen: wrapping a tail of the lines gives a tail of the rows. *)

\* u is the recursive function of FlattenSeq
Flat(q, n, u) == u = [i \in 1 .. n |-> IF i = 1 THEN q[i] ELSE u[i - 1] \o q[i]]

LEMMA FlatExist ==
  ASSUME NEW q, NEW n \in Nat
  PROVE  \E u : Flat(q, n, u)
<1> DEFINE S == {m \in Nat : \E u : Flat(q, m, u)}
<1>1. 0 \in S
  <2>1. Flat(q, 0, [i \in 1 .. 0 |-> <<>>])
    BY DEF Flat
  <2> QED BY <2>1
<1>2. \A m \in Nat : m \in S => m + 1 \in S
  <2> SUFFICES ASSUME NEW m \in Nat, NEW u, Flat(q, m, u)
               PROVE  \E w : Flat(q, m + 1, w)
    OBVIOUS
  <2> DEFINE w == [i \in 1 .. m + 1 |->
                     IF i = m + 1 THEN (IF i = 1 THEN q[i] ELSE u[i - 1] \o q[i]) ELSE u[i]]
  <2>1. \A i \in 1 .. m : u[i] = IF i = 1 THEN q[i] ELSE u[i - 1] \o q[i]
    BY DEF Flat
  <2>2. ASSUME NEW i \in 1 .. m + 1
        PROVE  w[i] = IF i = 1 THEN q[i] ELSE w[i - 1] \o q[i]
    <3>1. i # 1 => w[i - 1] = u[i - 1]
      OBVIOUS
    <3>2. i # m + 1 => i \in 1 .. m
      OBVIOUS
    <3>3. w[i] = IF i = m + 1 THEN (IF i = 1 THEN q[i] ELSE u[i - 1] \o q[i]) ELSE u[i]
      OBVIOUS
    <3> HIDE DEF w
    <3> QED BY <2>1, <3>1, <3>2, <3>3
  <2>3. w = [i \in 1 .. m + 1 |-> w[i]]
    OBVIOUS
  <2> HIDE DEF w
  <2>4. Flat(q, m + 1, w)
    BY <2>2, <2>3 DEF Flat
  <2> QED BY <2>4
<1> HIDE DEF S
<1>3. \A m \in Nat : m \in S
  BY <1>1, <1>2, NatSetInduction
<1> QED BY <1>3 DEF S

LEMMA FlatStep ==
  ASSUME NEW q, NEW n \in Nat, NEW u, Flat(q, n, u), NEW m \in Nat, m + 1 <= n
  PROVE  u[m + 1] = IF m = 0 THEN q[m + 1] ELSE u[m] \o q[m + 1]
<1>1. \A i \in 1 .. n : u[i] = IF i = 1 THEN q[i] ELSE u[i - 1] \o q[i]
  <2> DEFINE e(i) == IF i = 1 THEN q[i] ELSE u[i - 1] \o q[i]
  <2>1. u = [i \in 1 .. n |-> e(i)]
    BY Zenon DEF Flat
  <2> HIDE DEF e
  <2>2. \A i \in 1 .. n : u[i] = e(i)
    BY <2>1
  <2> QED BY <2>2, Zenon DEF e
<1>2. PICK k : k = m + 1
  OBVIOUS
<1>3. k \in 1 .. n /\ k - 1 = m /\ (k = 1 <=> m = 0)
  BY <1>2
<1>4. u[k] = IF k = 1 THEN q[k] ELSE u[k - 1] \o q[k]
  BY <1>1, <1>3, Zenon
<1> QED BY <1>2, <1>3, <1>4, Zenon

\* two sequences that agree up to m are flattened alike up to m
SameTo(q, r, l) == \A i \in 1 .. l : q[i] = r[i]

LEMMA FlatAgree ==
  ASSUME NEW q, NEW r, NEW j \in Nat, NEW k \in Nat, NEW u, NEW v, Flat(q, j, u), Flat(r, k, v),
         NEW l \in Nat, l >= 1, l <= j, l <= k, SameTo(q, r, l)
  PROVE  u[l] = v[l]
<1> DEFINE A(m) == m >= 1 /\ m <= j /\ m <= k /\ (\A i \in 1 .. m : q[i] = r[i]) => u[m] = v[m]
           S == {m \in Nat : A(m)}
<1>1. 0 \in S
  OBVIOUS
<1>2. \A m \in Nat : m \in S => m + 1 \in S
  <2> SUFFICES ASSUME NEW m \in Nat, A(m), m + 1 <= j, m + 1 <= k, \A i \in 1 .. m + 1 : q[i] = r[i]
               PROVE  u[m + 1] = v[m + 1]
    OBVIOUS
  <2>1. u[m + 1] = IF m = 0 THEN q[m + 1] ELSE u[m] \o q[m + 1]
    BY FlatStep
  <2>2. v[m + 1] = IF m = 0 THEN r[m + 1] ELSE v[m] \o r[m + 1]
    BY FlatStep
  <2>3. m # 0 => u[m] = v[m]
    OBVIOUS
  <2>4. q[m + 1] = r[m + 1]
    OBVIOUS
  <2> QED BY <2>1, <2>2, <2>3, <2>4
<1> HIDE DEF S
<1>3. \A m \in Nat : m \in S
  BY <1>1, <1>2, NatSetInduction
<1> QED BY <1>3 DEF S, SameTo

LEMMA FlattenIs ==
  ASSUME NEW T, NEW q \in Seq(T), q # <<>>
  PROVE  \E u : Flat(q, Len(q), u) /\ FlattenSeq(q) = u[Len(q)]
<1> DEFINE n == Len(q)
           u == CHOOSE u : Flat(q, n, u)
<1>1. n \in Nat /\ n # 0
  BY LenProperties, EmptySeq
<1>2. Flat(q, n, u)
  BY <1>1, FlatExist
<1>3. FlattenSeq(q) = u[n]
  BY <1>1, Zenon DEF FlattenSeq, Flat
<1> QED BY <1>2, <1>3

\* Flattening one element more puts that element at the end.
LEMMA FlattenAppend ==
  ASSUME NEW T, NEW q \in Seq(Seq(T)), NEW x \in Seq(T), FlattenSeq(q) \in Seq(T)
  PROVE  FlattenSeq(Append(q, x)) = FlattenSeq(q) \o x
<1> DEFINE a == Append(q, x)
           n == Len(q)
<1>1. /\ a \in Seq(Seq(T)) /\ Len(a) = n + 1 /\ n \in Nat /\ a # <<>> /\ a[n + 1] = x
      /\ \A i \in 1 .. n : a[i] = q[i]
  BY AppendProperties, LenProperties
<1>2. PICK v : Flat(a, n + 1, v) /\ FlattenSeq(a) = v[n + 1]
  BY <1>1, FlattenIs
<1>3. v[n + 1] = IF n = 0 THEN x ELSE v[n] \o x
  <2> HIDE DEF n, a
  <2>1. v[n + 1] = IF n = 0 THEN a[n + 1] ELSE v[n] \o a[n + 1]
    <3>1. n \in Nat /\ n + 1 \in Nat /\ n + 1 <= n + 1
      BY <1>1
    <3> QED BY <1>2, <3>1, FlatStep, Zenon
  <2> QED BY <1>1, <2>1, Zenon
<1>4. CASE n = 0
  <2>1. q = <<>>
    BY <1>4, EmptySeq
  <2>2. FlattenSeq(q) = <<>>
    BY <2>1 DEF FlattenSeq
  <2>3. <<>> \o x = x
    BY ConcatEmptySeq
  <2> QED BY <1>2, <1>3, <1>4, <2>2, <2>3
<1>5. CASE n # 0
  <2>1. q # <<>>
    BY <1>5
  <2>2. PICK u : Flat(q, n, u) /\ FlattenSeq(q) = u[n]
    BY <2>1, FlattenIs
  <2>3. u[n] = v[n]
    <3> HIDE DEF n, a
    <3>1. n >= 1 /\ n <= n + 1 /\ n + 1 \in Nat /\ n <= n
      BY <1>1, <1>5
    <3>2. SameTo(q, a, n)
      BY <1>1 DEF SameTo
    <3>3. Flat(q, n, u) /\ Flat(a, n + 1, v)
      BY <1>2, <2>2, Zenon
    <3> QED BY <1>1, <3>1, <3>2, <3>3, FlatAgree
  <2> QED BY <1>2, <1>3, <1>5, <2>2, <2>3
<1> QED BY <1>4, <1>5

\* A sequence that is not empty is its front with its last element appended.
LEMMA FrontLast ==
  ASSUME NEW T, NEW q \in Seq(T), NEW n \in Nat, Len(q) = n + 1
  PROVE  \E f \in Seq(T), x \in T : q = Append(f, x) /\ Len(f) = n
<1> DEFINE f == SubSeq(q, 1, n)
<1>1. \A i \in 1 .. n : q[i] \in T
  BY ElementOfSeq
<1>2. f \in Seq(T) /\ Len(f) = n /\ \A i \in 1 .. n : f[i] = q[i]
  BY <1>1, SubSeqProperties
<1>3. q[n + 1] \in T
  BY ElementOfSeq
<1> HIDE DEF f
<1>4. /\ Append(f, q[n + 1]) \in Seq(T) /\ Len(Append(f, q[n + 1])) = n + 1
      /\ \A i \in 1 .. n : Append(f, q[n + 1])[i] = f[i]
      /\ Append(f, q[n + 1])[n + 1] = q[n + 1]
  BY <1>2, <1>3, AppendProperties
<1>5. q = Append(f, q[n + 1])
  <2> DEFINE a == Append(f, q[n + 1])
  <2>1. \A i \in 1 .. Len(q) : q[i] = a[i]
    BY <1>2, <1>4
  <2> QED BY <1>4, <2>1, SeqEqual
<1> QED BY <1>2, <1>3, <1>5

LEMMA FlattenType ==
  ASSUME NEW T
  PROVE  \A q \in Seq(Seq(T)) : FlattenSeq(q) \in Seq(T)
<1> DEFINE A(m) == \A q \in Seq(Seq(T)) : Len(q) = m => FlattenSeq(q) \in Seq(T)
           S == {m \in Nat : A(m)}
<1>1. 0 \in S
  <2>1. FlattenSeq(<<>>) = <<>>
    BY DEF FlattenSeq
  <2>2. \A q \in Seq(Seq(T)) : Len(q) = 0 => q = <<>>
    BY EmptySeq
  <2> QED BY <2>1, <2>2
<1>2. \A m \in Nat : m \in S => m + 1 \in S
  <2> SUFFICES ASSUME NEW m \in Nat, A(m), NEW q \in Seq(Seq(T)), Len(q) = m + 1
               PROVE  FlattenSeq(q) \in Seq(T)
    <3>1. \A m \in Nat : m + 1 \in Nat
      OBVIOUS
    <3> QED BY <3>1, Zenon
  <2>1. PICK f \in Seq(Seq(T)), x \in Seq(T) : q = Append(f, x) /\ Len(f) = m
    BY FrontLast
  <2>2. FlattenSeq(f) \in Seq(T)
    BY <2>1
  <2>3. FlattenSeq(q) = FlattenSeq(f) \o x
    BY <2>1, <2>2, FlattenAppend
  <2> QED BY <2>2, <2>3, ConcatProperties
<1> HIDE DEF S
<1>3. \A m \in Nat : m \in S
  BY <1>1, <1>2, NatSetInduction
<1>4. \A q \in Seq(Seq(T)) : Len(q) \in Nat
  BY LenProperties
<1> QED BY <1>3, <1>4 DEF S

\* Flattening distributes over concatenation.
LEMMA FlattenConcat ==
  ASSUME NEW T, NEW p \in Seq(Seq(T))
  PROVE  \A q \in Seq(Seq(T)) : FlattenSeq(p \o q) = FlattenSeq(p) \o FlattenSeq(q)
<1> DEFINE A(m) == \A q \in Seq(Seq(T)) : Len(q) = m => FlattenSeq(p \o q) = FlattenSeq(p) \o FlattenSeq(q)
           S == {m \in Nat : A(m)}
<1>0. FlattenSeq(p) \in Seq(T)
  BY FlattenType
<1>1. 0 \in S
  <2>1. FlattenSeq(<<>>) = <<>>
    BY DEF FlattenSeq
  <2>2. \A q \in Seq(Seq(T)) : Len(q) = 0 => q = <<>>
    BY EmptySeq
  <2>3. p \o <<>> = p /\ FlattenSeq(p) \o <<>> = FlattenSeq(p)
    BY <1>0, ConcatEmptySeq
  <2>4. A(0)
    BY <2>1, <2>2, <2>3
  <2> QED BY <2>4
<1>2. \A m \in Nat : m \in S => m + 1 \in S
  <2> SUFFICES ASSUME NEW m \in Nat, A(m), NEW q \in Seq(Seq(T)), Len(q) = m + 1
               PROVE  FlattenSeq(p \o q) = FlattenSeq(p) \o FlattenSeq(q)
    <3>1. \A m \in Nat : m + 1 \in Nat
      OBVIOUS
    <3> QED BY <3>1, Zenon
  <2>1. PICK f \in Seq(Seq(T)), x \in Seq(T) : q = Append(f, x) /\ Len(f) = m
    BY FrontLast
  <2>2. FlattenSeq(f) \in Seq(T) /\ p \o f \in Seq(Seq(T)) /\ FlattenSeq(p \o f) \in Seq(T)
    BY <2>1, FlattenType, ConcatProperties
  <2>3. FlattenSeq(q) = FlattenSeq(f) \o x
    BY <2>1, <2>2, FlattenAppend
  <2>4. p \o q = Append(p \o f, x)
    BY <2>1
  <2>5. FlattenSeq(p \o q) = FlattenSeq(p \o f) \o x
    BY <2>2, <2>4, FlattenAppend
  <2>6. FlattenSeq(p \o f) = FlattenSeq(p) \o FlattenSeq(f)
    BY <2>1
  <2>7. (FlattenSeq(p) \o FlattenSeq(f)) \o x = FlattenSeq(p) \o (FlattenSeq(f) \o x)
    <3>1. PICK a, b : a = FlattenSeq(p) /\ b = FlattenSeq(f)
      OBVIOUS
    <3>2. a \in Seq(T) /\ b \in Seq(T)
      BY <1>0, <2>2, <3>1
    <3>3. (a \o b) \o x = a \o (b \o x)
      BY <3>2
    <3> QED BY <3>1, <3>3
  <2> QED BY <2>3, <2>5, <2>6, <2>7
<1> HIDE DEF S
<1>3. \A m \in Nat : m \in S
  BY <1>1, <1>2, NatSetInduction
<1>4. \A q \in Seq(Seq(T)) : Len(q) \in Nat
  BY LenProperties
<1> QED BY <1>3, <1>4 DEF S

\* Flattening sequences that are not empty does not shorten.
LEMMA FlattenLen ==
  ASSUME NEW T
  PROVE  \A q \in Seq(Seq(T)) :
           (\A i \in 1 .. Len(q) : Len(q[i]) >= 1) => Len(FlattenSeq(q)) >= Len(q)
<1> DEFINE A(m) == \A q \in Seq(Seq(T)) :
                     Len(q) = m /\ (\A i \in 1 .. m : Len(q[i]) >= 1) => Len(FlattenSeq(q)) >= m
           S == {m \in Nat : A(m)}
<1>1. 0 \in S
  <2>1. \A q \in Seq(Seq(T)) : Len(FlattenSeq(q)) \in Nat
    BY FlattenType, LenProperties
  <2> QED BY <2>1
<1>2. \A m \in Nat : m \in S => m + 1 \in S
  <2> SUFFICES ASSUME NEW m \in Nat, A(m), NEW q \in Seq(Seq(T)), Len(q) = m + 1,
                      \A i \in 1 .. m + 1 : Len(q[i]) >= 1
               PROVE  Len(FlattenSeq(q)) >= m + 1
    <3>1. \A m \in Nat : m + 1 \in Nat
      OBVIOUS
    <3> QED BY <3>1, Zenon
  <2>1. PICK f \in Seq(Seq(T)), x \in Seq(T) : q = Append(f, x) /\ Len(f) = m
    BY FrontLast
  <2>2. FlattenSeq(f) \in Seq(T) /\ FlattenSeq(q) = FlattenSeq(f) \o x
    BY <2>1, FlattenType, FlattenAppend
  <2>3. q[m + 1] = x /\ \A i \in 1 .. m : q[i] = f[i]
    BY <2>1, AppendProperties
  <2>4. Len(x) >= 1 /\ \A i \in 1 .. m : Len(f[i]) >= 1
    BY <2>3
  <2>5. Len(FlattenSeq(f)) >= m
    BY <2>1, <2>4
  <2>6. Len(FlattenSeq(q)) = Len(FlattenSeq(f)) + Len(x) /\ Len(FlattenSeq(f)) \in Nat /\ Len(x) \in Nat
    BY <2>2, ConcatProperties, LenProperties
  <2> QED BY <2>4, <2>5, <2>6
<1> HIDE DEF S
<1>3. \A m \in Nat : m \in S
  BY <1>1, <1>2, NatSetInduction
<1>4. \A q \in Seq(Seq(T)) : Len(q) \in Nat
  BY LenProperties
<1> QED BY <1>3, <1>4 DEF S

LEMMA DivPositive ==
  ASSUME NEW k \in Nat, NEW c \in Nat, c > 0, k > 0
  PROVE  (k + c - 1) \div c \in Nat /\ (k + c - 1) \div c >= 1
<1> DEFINE a == k + c - 1
           d == a \div c
<1>1. a \in Nat /\ a >= c
  OBVIOUS
<1>2. d \in Int /\ c * d <= a /\ a < c * d + c
  BY <1>1
<1> HIDE DEF a, d
<1>3. d > 0
  <2> SUFFICES ASSUME d <= 0
               PROVE  FALSE
    BY <1>2
  <2>1. c * d <= 0
    BY <1>2
  <2> QED BY <1>1, <1>2, <2>1
<1> QED BY <1>2, <1>3 DEF a, d

LEMMA WrapRows ==
  ASSUME NEW l \in Seq(Glyphs)
  PROVE  wrap(l) \in Seq(Seq(Glyphs)) /\ Len(wrap(l)) >= 1
<1>1. CASE l = <<>>
  <2>1. <<>> \in Seq(Glyphs)
    OBVIOUS
  <2>2. <<<<>>>> \in Seq(Seq(Glyphs)) /\ Len(<<<<>>>>) = 1
    BY <2>1
  <2>3. wrap(l) = <<<<>>>>
    BY <1>1 DEF wrap
  <2> QED BY <2>2, <2>3
<1>2. CASE l # <<>>
  <2> DEFINE k == Len(l)
             d == (k + Cols - 1) \div Cols
             e(i) == SubSeq(l, (i - 1) * Cols + 1, IF i * Cols < Len(l) THEN i * Cols ELSE Len(l))
  <2>1. k \in Nat /\ k > 0 /\ Cols \in Nat /\ Cols > 0
    BY <1>2, LenProperties, EmptySeq, MipsmonAssumption
  <2>2. d \in Nat /\ d >= 1
    <3> HIDE DEF k
    <3> QED BY <2>1, DivPositive
  <2>3. ASSUME NEW i \in 1 .. d
        PROVE  e(i) \in Seq(Glyphs)
    <3> DEFINE x == (i - 1) * Cols + 1
               y == IF i * Cols < Len(l) THEN i * Cols ELSE Len(l)
    <3>1. x \in Int /\ x >= 1 /\ i * Cols \in Int
      <4> HIDE DEF d
      <4>1. i \in Nat /\ i - 1 \in Nat
        BY <2>2
      <4>2. \A a, b \in Nat : a * b \in Nat
        OBVIOUS
      <4>3. (i - 1) * Cols \in Nat /\ i * Cols \in Nat
        BY <2>1, <4>1, <4>2
      <4> QED BY <4>3
    <3>2. y \in Int /\ y <= Len(l)
      BY <2>1, <3>1
    <3>3. e(i) = SubSeq(l, x, y)
      OBVIOUS
    <3> HIDE DEF x, y, e
    <3>4. \A j \in x .. y : l[j] \in Glyphs
      BY <2>1, <3>1, <3>2, ElementOfSeq
    <3>5. SubSeq(l, x, y) \in Seq(Glyphs)
      BY <3>1, <3>2, <3>4, SubSeqProperties
    <3> QED BY <3>3, <3>5
  <2>4. wrap(l) = [i \in 1 .. d |-> e(i)]
    BY <1>2, Zenon DEF wrap
  <2> HIDE DEF d, e
  <2> QED BY <2>2, <2>3, <2>4
<1> QED BY <1>1, <1>2

\* the lines, wrapped but not yet flattened
WrapAll(ls) == [i \in 1 .. Len(ls) |-> wrap(ls[i])]

LEMMA WrapAllFacts ==
  ASSUME NEW ls \in Seq(Seq(Glyphs))
  PROVE  /\ WrapAll(ls) \in Seq(Seq(Seq(Glyphs))) /\ Len(WrapAll(ls)) = Len(ls)
         /\ \A i \in 1 .. Len(ls) : WrapAll(ls)[i] = wrap(ls[i]) /\ Len(WrapAll(ls)[i]) >= 1
<1>1. Len(ls) \in Nat
  BY LenProperties
<1>2. \A i \in 1 .. Len(ls) : wrap(ls[i]) \in Seq(Seq(Glyphs)) /\ Len(wrap(ls[i])) >= 1
  BY ElementOfSeq, WrapRows
<1> DEFINE n == Len(ls)
           e(i) == wrap(ls[i])
           w == [i \in 1 .. n |-> e(i)]
<1>3. WrapAll(ls) = w
  BY DEF WrapAll
<1>4. \A i \in 1 .. n : e(i) \in Seq(Seq(Glyphs))
  BY <1>2
<1>5. w \in Seq(Seq(Seq(Glyphs))) /\ Len(w) = n
  <2> HIDE DEF n, e
  <2> QED BY <1>1, <1>4 DEF n
<1>6. \A i \in 1 .. n : w[i] = e(i)
  OBVIOUS
<1> QED BY <1>2, <1>3, <1>5, <1>6

\* The rows of the screen; there are at least as many as there are lines.
LEMMA WrappedFacts ==
  ASSUME NEW ls \in Seq(Seq(Glyphs))
  PROVE  Wrapped(ls) \in Seq(Seq(Glyphs)) /\ Len(Wrapped(ls)) >= Len(ls) /\ Len(Wrapped(ls)) \in Nat
<1> DEFINE w == WrapAll(ls)
<1>1. w \in Seq(Seq(Seq(Glyphs))) /\ Len(w) = Len(ls) /\ \A i \in 1 .. Len(w) : Len(w[i]) >= 1
  BY WrapAllFacts
<1>2. Wrapped(ls) = FlattenSeq(w)
  BY DEF Wrapped, WrapAll
<1> HIDE DEF w
<1>3. FlattenSeq(w) \in Seq(Seq(Glyphs)) /\ Len(FlattenSeq(w)) >= Len(w)
  BY <1>1, FlattenType, FlattenLen
<1> QED BY <1>1, <1>2, <1>3, LenProperties

\* Wrapping distributes over concatenation.
LEMMA WrappedConcat ==
  ASSUME NEW p \in Seq(Seq(Glyphs)), NEW q \in Seq(Seq(Glyphs))
  PROVE  Wrapped(p \o q) = Wrapped(p) \o Wrapped(q)
<1> DEFINE c == p \o q
           u == WrapAll(p)
           v == WrapAll(q)
           w == WrapAll(c)
           m == Len(p)
           n == Len(q)
<1>1. /\ c \in Seq(Seq(Glyphs)) /\ Len(c) = m + n /\ m \in Nat /\ n \in Nat
      /\ \A i \in 1 .. m + n : c[i] = IF i <= m THEN p[i] ELSE q[i - m]
  BY ConcatProperties, LenProperties
<1>2. u \in Seq(Seq(Seq(Glyphs))) /\ Len(u) = m /\ \A i \in 1 .. m : u[i] = wrap(p[i])
  BY WrapAllFacts
<1>3. v \in Seq(Seq(Seq(Glyphs))) /\ Len(v) = n /\ \A i \in 1 .. n : v[i] = wrap(q[i])
  BY WrapAllFacts
<1>4. w \in Seq(Seq(Seq(Glyphs))) /\ Len(w) = m + n /\ \A i \in 1 .. m + n : w[i] = wrap(c[i])
  <2> HIDE DEF c
  <2> QED BY <1>1, WrapAllFacts
<1>5. /\ u \o v \in Seq(Seq(Seq(Glyphs))) /\ Len(u \o v) = m + n
      /\ \A i \in 1 .. m + n : (u \o v)[i] = IF i <= m THEN u[i] ELSE v[i - m]
  <2> HIDE DEF u, v, m, n
  <2> QED BY <1>2, <1>3, ConcatProperties
<1> HIDE DEF c, u, v, w, m, n
<1>6. ASSUME NEW i \in 1 .. m + n
      PROVE  w[i] = (u \o v)[i]
  <2>1. CASE i <= m
    <3>1. i \in 1 .. m
      BY <1>1, <2>1
    <3>2. w[i] = wrap(p[i])
      BY <1>1, <1>4, <2>1
    <3> QED BY <1>2, <1>5, <2>1, <3>1, <3>2
  <2>2. CASE ~(i <= m)
    <3>1. i - m \in 1 .. n
      BY <1>1, <2>2
    <3>2. w[i] = wrap(q[i - m])
      BY <1>1, <1>4, <2>2
    <3>3. (u \o v)[i] = v[i - m]
      BY <1>5, <2>2
    <3> QED BY <1>3, <3>1, <3>2, <3>3
  <2> QED BY <2>1, <2>2
<1>7. w = u \o v
  <2> DEFINE x == u \o v
  <2>1. x \in Seq(Seq(Seq(Glyphs))) /\ Len(w) = Len(x) /\ \A i \in 1 .. Len(w) : w[i] = x[i]
    BY <1>4, <1>5, <1>6
  <2> HIDE DEF x
  <2>2. w = x
    BY <1>4, <2>1, SeqEqual
  <2> QED BY <2>2 DEF x
<1>8. FlattenSeq(u \o v) = FlattenSeq(u) \o FlattenSeq(v)
  BY <1>2, <1>3, FlattenConcat
<1>9. Wrapped(p \o q) = FlattenSeq(w) /\ Wrapped(p) = FlattenSeq(u) /\ Wrapped(q) = FlattenSeq(v)
  BY DEF Wrapped, WrapAll, u, v, w, c
<1> QED BY <1>7, <1>8, <1>9

\* The window depends only on the rows it shows and those it is scrolled past.
LEMMA WindowFull ==
  ASSUME NEW screen, Len(screen) \in Nat, NEW s \in Nat, Len(screen) >= Rows + s
  PROVE  Window(screen, s) =
           [scroll |-> s, rows |-> SubSeq(screen, Len(screen) - Rows - s + 1, Len(screen) - s)]
<1> DEFINE total == Len(screen)
           most  == IF total > Rows THEN total - Rows ELSE 0
           sc    == IF s > most THEN most ELSE s
           start == IF total - Rows - sc < 0 THEN 0 ELSE total - Rows - sc
           end   == IF start + Rows < total THEN start + Rows ELSE total
<1>1. total \in Nat /\ Rows \in Nat /\ Rows > 0 /\ total >= Rows + s
  BY MipsmonAssumption
<1>2. Window(screen, s) = [scroll |-> sc, rows |-> SubSeq(screen, start + 1, end)]
  BY Zenon DEF Window
<1> HIDE DEF total
<1>3. sc = s
  BY <1>1
<1> HIDE DEF sc
<1>4. start = total - Rows - s
  BY <1>1, <1>3
<1> HIDE DEF start
<1>5. end = total - s
  BY <1>1, <1>4
<1> HIDE DEF end
<1> QED BY <1>2, <1>3, <1>4, <1>5 DEF total

LEMMA WindowOfTail ==
  ASSUME NEW T, NEW a \in Seq(T), NEW b \in Seq(T), NEW s \in Nat, Len(b) >= Rows + s
  PROVE  Window(a \o b, s) = Window(b, s)
<1> DEFINE m == Len(a)
           n == Len(b)
           c == a \o b
           k == n - Rows - s
           e == n - s
<1>1. m \in Nat /\ n \in Nat /\ Rows \in Nat /\ Rows > 0 /\ n >= Rows + s
  BY LenProperties, MipsmonAssumption
<1>2. c \in Seq(T) /\ Len(c) = m + n /\ \A i \in 1 .. m + n : c[i] = IF i <= m THEN a[i] ELSE b[i - m]
  BY ConcatProperties
<1>3. Window(b, s) = [scroll |-> s, rows |-> SubSeq(b, k + 1, e)]
  BY <1>1, WindowFull
<1>4. Window(c, s) = [scroll |-> s, rows |-> SubSeq(c, m + k + 1, m + e)]
  <2> HIDE DEF m, n, c
  <2>1. Len(c) \in Nat /\ Len(c) >= Rows + s
    BY <1>1, <1>2
  <2>2. Window(c, s) = [scroll |-> s, rows |-> SubSeq(c, Len(c) - Rows - s + 1, Len(c) - s)]
    BY <2>1, WindowFull
  <2>3. Len(c) - Rows - s + 1 = m + k + 1 /\ Len(c) - s = m + e
    BY <1>1, <1>2
  <2> QED BY <2>2, <2>3
<1>5. k \in Nat /\ e \in Nat /\ k <= n /\ e <= n
  <2> HIDE DEF n
  <2> QED BY <1>1
<1> HIDE DEF m, n, c, k, e
<1>6. SubSeq(c, m + k + 1, m + e) = SubSeq(b, k + 1, e)
  <2> DEFINE f == m + k + 1
             g == m + e
             x == SubSeq(c, f, g)
             y == SubSeq(b, k + 1, e)
  <2>1. \A i \in k + 1 .. e : b[i] \in T
    BY <1>1, <1>5, ElementOfSeq DEF n
  <2>2. \A i \in m + k + 1 .. m + e : c[i] \in T
    <3>1. \A i \in m + k + 1 .. m + e : i \in 1 .. Len(c)
      BY <1>1, <1>2, <1>5
    <3> QED BY <1>2, <3>1, ElementOfSeq
  <2>3. /\ y \in Seq(T) /\ Len(y) = IF k + 1 <= e THEN e - (k + 1) + 1 ELSE 0
        /\ \A i \in 1 .. e - (k + 1) + 1 : y[i] = b[k + 1 + i - 1]
    BY <1>5, <2>1, SubSeqProperties
  <2>4. /\ x \in Seq(T) /\ Len(x) = IF f <= g THEN g - f + 1 ELSE 0
        /\ \A i \in 1 .. g - f + 1 : x[i] = c[f + i - 1]
    <3>1. f \in Int /\ g \in Int /\ \A i \in f .. g : c[i] \in T
      BY <1>1, <1>5, <2>2
    <3> HIDE DEF f, g
    <3> QED BY <3>1, SubSeqProperties
  <2> HIDE DEF x, y
  <2>5. Len(x) = Len(y) /\ (Len(y) = 0 \/ Len(y) = e - k)
    BY <1>1, <1>5, <2>3, <2>4
  <2>6. ASSUME NEW i \in 1 .. Len(x)
        PROVE  x[i] = y[i]
    <3>1. i \in Nat /\ i >= 1 /\ i <= e - k
      BY <1>5, <2>5
    <3>2. y[i] = b[k + i]
      BY <1>5, <2>3, <3>1
    <3>3. x[i] = c[m + k + i]
      BY <1>1, <1>5, <2>4, <3>1
    <3>4. m + k + i \in 1 .. m + n /\ ~(m + k + i <= m) /\ m + k + i - m = k + i
      BY <1>1, <1>5, <3>1
    <3>5. c[m + k + i] = b[k + i]
      <4>1. PICK j : j = m + k + i
        OBVIOUS
      <4>2. c[j] = b[j - m]
        BY <1>2, <3>4, <4>1
      <4>3. j - m = k + i
        BY <1>1, <1>5, <3>1, <4>1
      <4> QED BY <4>1, <4>2, <4>3, Zenon
    <3> QED BY <3>2, <3>3, <3>5
  <2>7. x = y
    BY <2>3, <2>4, <2>5, <2>6, SeqEqual
  <2> QED BY <2>7 DEF x, y
<1> QED BY <1>3, <1>4, <1>6 DEF c

\* A long sequence is what LastN drops followed by what it keeps.
LEMMA LastNSplit ==
  ASSUME NEW T, NEW q \in Seq(T), NEW n \in Nat, Len(q) > n
  PROVE  \E a \in Seq(T) : q = a \o LastN(q, n) /\ LastN(q, n) \in Seq(T) /\ Len(LastN(q, n)) = n
<1> DEFINE k == Len(q) - n
           a == SubSeq(q, 1, k)
           b == SubSeq(q, k + 1, Len(q))
<1>1. Len(q) \in Nat /\ k \in Nat /\ k <= Len(q)
  BY LenProperties
<1>2. LastN(q, n) = b
  BY DEF LastN
<1>3. \A i \in 1 .. Len(q) : q[i] \in T
  BY ElementOfSeq
<1>4. a \in Seq(T)
  <2> HIDE DEF k
  <2> QED BY <1>1, <1>3, SubSeqProperties
<1>5. b \in Seq(T) /\ Len(b) = n
  <2>1. \A i \in k + 1 .. Len(q) : q[i] \in T
    BY <1>1, <1>3
  <2>2. b \in Seq(T) /\ Len(b) = IF k + 1 <= Len(q) THEN Len(q) - (k + 1) + 1 ELSE 0
    <3> HIDE DEF k
    <3> QED BY <1>1, <2>1, SubSeqProperties
  <2> QED BY <1>1, <2>2
<1>6. a \o b = SubSeq(q, 1, Len(q))
  <2> HIDE DEF k
  <2>1. 1 \in 1 .. Len(q) + 1 /\ k \in 1 - 1 .. Len(q) /\ Len(q) \in k .. Len(q)
    BY <1>1
  <2> QED BY <2>1, ConcatAdjacentSubSeq
<1>7. SubSeq(q, 1, Len(q)) = q
  BY SubSeqFull
<1> QED BY <1>2, <1>4, <1>5, <1>6, <1>7

\* What draw shows of any scrollback, at any scroll, is what it would show of all the rows.
LEMMA DrawAll ==
  ASSUME NEW o, IsOut(o), NEW s \in Nat
  PROVE  draw(o, s) = Window(Wrapped(Append(o.lines, o.partial)), s) /\ draw(o, s).scroll \in Nat
<1> DEFINE q == Append(o.lines, o.partial)
           n == Rows + s + 4
           l == LastN(q, n)
<1>1. q \in Seq(Seq(Glyphs)) /\ Rows \in Nat /\ Rows > 0 /\ n \in Nat /\ Len(q) \in Nat
  BY AppendProperties, LenProperties, MipsmonAssumption DEF IsOut
<1>2. draw(o, s) = Window(Wrapped(l), s)
  BY DEF draw
<1> HIDE DEF q, n
<1>3. Window(Wrapped(l), s) = Window(Wrapped(q), s)
  <2>1. CASE Len(q) <= n
    <3>1. l = q
      BY <1>1, <2>1 DEF LastN
    <3> QED BY <3>1
  <2>2. CASE Len(q) > n
    <3>1. PICK a \in Seq(Seq(Glyphs)) : q = a \o l /\ l \in Seq(Seq(Glyphs)) /\ Len(l) = n
      BY <1>1, <2>2, LastNSplit
    <3> HIDE DEF l
    <3>2. Wrapped(q) = Wrapped(a) \o Wrapped(l)
      BY <3>1, WrappedConcat
    <3>3. Wrapped(a) \in Seq(Seq(Glyphs))
      BY <3>1, WrappedFacts
    <3>4. Wrapped(l) \in Seq(Seq(Glyphs)) /\ Len(Wrapped(l)) >= n /\ Len(Wrapped(l)) \in Nat
      BY <3>1, WrappedFacts
    <3>5. Len(Wrapped(l)) >= Rows + s
      BY <1>1, <3>4 DEF n
    <3> QED BY <3>2, <3>3, <3>4, <3>5, WindowOfTail
  <2> QED BY <1>1, <2>1, <2>2
<1>4. Window(Wrapped(q), s).scroll \in Nat
  <2>1. Len(Wrapped(q)) \in Nat
    BY <1>1, WrappedFacts
  <2> DEFINE w == Wrapped(q)
  <2> HIDE DEF w
  <2>2. Window(w, s).scroll \in Nat
    BY <1>1, <2>1 DEF Window, w
  <2> QED BY <2>2 DEF w
<1> QED BY <1>2, <1>3, <1>4 DEF q
-----------------------------------------------------------------------------
(* The invariant: the shapes of both halves of the state, and that what is kept is the line *)
(* that was edited when the browsing began.                                                 *)
Kept ==
  /\ IsUi(ui) /\ session \in Sessions /\ (ui.hist_idx # 0 => ui.saved = stash)
  /\ IsOut(out) /\ Len(ui.input) <= MaxInput /\ peer \in {"open", "closed"}

LEMMA KeptInit == Init => Kept
<1> SUFFICES ASSUME Init
             PROVE  Kept
  OBVIOUS
<1>1. /\ IsUi(ui) /\ session \in Sessions /\ ui.hist_idx = 0
      /\ Len(ui.input) <= MaxInput /\ peer \in {"open", "closed"}
  BY MipsmonAssumption DEF Init, IsUi
<1>2. <<Banner>> \in Seq(Seq(Glyphs)) /\ Len(<<Banner>>) = 1 /\ <<>> \in Seq(Glyphs)
  BY DEF Banner, Glyphs
<1>3. IsOut(out)
  BY <1>2, MipsmonAssumption DEF Init, IsOut
<1> QED BY <1>1, <1>3 DEF Kept

\* what has arrived is a sequence of characters the server sends
LEMMA ChunkIsSeq ==
  ASSUME session \in Sessions, NEW bytes \in Chunks
  PROVE  bytes \in Seq(Glyphs)
<1>1. session.chunk \in Nat
  BY MipsmonAssumption
<1>2. PICK n \in 0 .. session.chunk : bytes \in [1 .. n -> session.bytes]
  BY DEF Chunks
<1>3. n \in Nat
  BY <1>1
<1>4. bytes \in Seq(session.bytes)
  BY <1>2, <1>3
<1>5. session.bytes \subseteq Glyphs
  BY DEF Glyphs
<1> QED BY <1>4, <1>5, SeqMonotonic

LEMMA KeptStep ==
  ASSUME Kept, Next
  PROVE  /\ Kept'
         /\ ui.hist_idx # 0 /\ ui'.hist_idx = 0 /\ ui'.sent = <<>> /\ ui'.running => ui'.input = stash
<1>1. CASE ServerClose \/ Ended
  BY <1>1 DEF ServerClose, Ended, vars, Kept
<1>2. ASSUME NEW sig \in BOOLEAN, NEW k \in session.keys \cup {"none"}, NEW bytes \in Chunks,
             Turn(sig, k, bytes)
      PROVE  /\ Kept'
             /\ ui.hist_idx # 0 /\ ui'.hist_idx = 0 /\ ui'.sent = <<>> /\ ui'.running
                  => ui'.input = stash
  <2> DEFINE idle == [ui EXCEPT !.sent = <<>>]
             w == IF sig THEN interrupt(idle) ELSE idle
             u == press(w, k)
             end == bytes = <<>> /\ peer = "closed"
             o == IF end THEN push_line(out, Goodbye) ELSE feed_output(out, bytes)
  <2>1. IsUi(idle) /\ idle.hist_idx = ui.hist_idx /\ idle.saved = ui.saved
    BY DEF Kept, IsUi
  <2>2. /\ IsUi(w)
        /\ sig => w.sent # <<>> /\ w.hist_idx = 0
        /\ ~sig => w.hist_idx = ui.hist_idx /\ w.saved = ui.saved
    BY <2>1, Interrupt DEF Browses
  <2>3. k \in Chars \cup {"none"}
    BY DEF Kept, Chars
  <2>4. Browses(w, u)
    BY <2>2, <2>3, Press
  <2>5. ui' = [u EXCEPT !.scroll = draw(o, u.scroll).scroll, !.running = @ /\ ~end]
    BY <1>2, Zenon DEF Turn
  <2>6. stash' = IF w.hist_idx = 0 /\ u.hist_idx # 0 THEN w.input ELSE stash
    BY <1>2, Zenon DEF Turn
  <2>8. session' = session /\ peer' = peer /\ Len(u.input) <= MaxInput
    BY <1>2, Zenon DEF Turn
  <2>9. out' = o
    BY <1>2, Zenon DEF Turn
  <2>10. IsOut(o)
    <3>1. IsOut(out) /\ bytes \in Seq(Glyphs)
      BY ChunkIsSeq DEF Kept
    <3>2. Goodbye \in Seq(Glyphs)
      BY DEF Goodbye, Glyphs
    <3> QED BY <3>1, <3>2, PushLine, FeedOutput
  <2>11. u.scroll \in Nat
    BY <2>4 DEF Browses, IsUi
  <2>12. draw(o, u.scroll).scroll \in Nat
    <3> HIDE DEF o, u
    <3> QED BY <2>10, <2>11, DrawAll
  <2>13. PICK d \in Nat : d = draw(o, u.scroll).scroll
    BY <2>12
  <2>14. end \in BOOLEAN
    OBVIOUS
  <2> HIDE DEF idle, w, u, end, o
  <2>7. /\ IsUi(ui') /\ ui'.hist_idx = u.hist_idx /\ ui'.saved = u.saved
        /\ ui'.input = u.input /\ ui'.sent = u.sent /\ (ui'.running => u.running)
    <3>1. ui' = [u EXCEPT !.scroll = d, !.running = @ /\ ~end]
      BY <2>5, <2>13
    <3> QED BY <2>4, <2>14, <3>1 DEF Browses, IsUi
  <2>15. Len(ui'.input) <= MaxInput /\ IsOut(out') /\ peer' \in {"open", "closed"}
    BY <2>7, <2>8, <2>9, <2>10 DEF Kept
  <2> QED BY <2>2, <2>4, <2>6, <2>7, <2>8, <2>15 DEF Kept, Browses
<1> QED BY <1>1, <1>2 DEF Next

\* For every history, session and sequence of keys: Down past the newest entry gives back
\* the line that was being edited when the browsing of the history began (press_up,
\* press_down), unless it was sent or dropped on the way.
THEOREM LineKept == Spec => StashReturned
<1>1. Kept /\ [Next]_vars => Kept'
  BY KeptStep DEF Kept, vars
<1>2. Kept /\ [Next]_vars =>
        [ui.hist_idx # 0 /\ ui'.hist_idx = 0 /\ ui'.sent = <<>> /\ ui'.running
           => ui'.input = stash]_vars
  BY KeptStep
<1> QED BY KeptInit, <1>1, <1>2, PTL DEF Spec, StashReturned

\* The type invariant, for every session: the history index always names an entry, and the
\* scrollback and the history keep their limits whatever arrives and is typed.
THEOREM MipsmonTypes == Spec => []TypeOK
<1>1. Kept /\ [Next]_vars => Kept'
  BY KeptStep DEF Kept, vars
<1>2. Kept => TypeOK
  BY DEF Kept, IsUi, IsOut, TypeOK
<1> QED BY KeptInit, <1>1, <1>2, PTL DEF Spec

\* For every window, scrollback, stream of bytes and scroll: wrapping the last
\* Rows + scroll + 4 lines shows the rows, and stops the scrolling where, wrapping all of
\* the scrollback would (draw).
THEOREM DrawsAll == Spec => []DrawFaithful
<1>1. Kept /\ [Next]_vars => Kept'
  BY KeptStep DEF Kept, vars
<1>2. Kept => DrawFaithful
  <2> SUFFICES ASSUME Kept, NEW s \in ui.scroll .. ui.scroll + Page
               PROVE  draw(out, s) = Window(Wrapped(Append(out.lines, out.partial)), s)
    BY DEF DrawFaithful
  <2>1. Page \in Nat /\ ui.scroll \in Nat
    BY MipsmonAssumption DEF Page, Kept, IsUi
  <2>2. s \in Nat /\ IsOut(out)
    BY <2>1 DEF Kept
  <2> QED BY <2>2, DrawAll
<1> QED BY KeptInit, <1>1, <1>2, PTL DEF Spec
=============================================================================
