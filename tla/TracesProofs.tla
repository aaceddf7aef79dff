---------------------------- MODULE TracesProofs ----------------------------
(***************************************************************************)
(* The retire-stage traces for every chunk size, bundle and moment of a    *)
(* kill: what the reader reports of the chunked trace is what was retired, *)
(* and the retire-trace archive of a stop holds the lead-up to it.         *)
(***************************************************************************)
EXTENDS Traces, SequenceTheorems, FiniteSetTheorems, WellFoundedInduction, TLAPS

(* Induction over the naturals in first-order form: the set of numbers with a property takes *)
(* the place of the property.                                                                *)

\* A set of naturals has a least element.
LEMMA LeastNat ==
  ASSUME NEW T, T \subseteq Nat, T # {}
  PROVE  \E x \in T : \A y \in T : x <= y
<1> DEFINE R == {p \in Nat \X Nat : p[1] < p[2]}
<1>1. IsWellFoundedOn(R, Nat)
  BY NatLessThanWellFounded DEF OpToRel
<1>2. \A x, y \in Nat : y < x => <<y, x>> \in R
  <2> SUFFICES ASSUME NEW x \in Nat, NEW y \in Nat, y < x
               PROVE  <<y, x>> \in R
    BY Zenon
  <2> DEFINE q == <<y, x>>
  <2>1. q \in Nat \X Nat /\ q[1] = y /\ q[2] = x
    OBVIOUS
  <2>2. q[1] < q[2]
    BY <2>1
  <2> HIDE DEF q
  <2> QED BY <2>1, <2>2, Zenon DEF q
<1>3. \E x \in T : \A y \in T : ~(<<y, x>> \in R)
  BY <1>1, WFMin, Zenon
<1> HIDE DEF R
<1>4. PICK x \in T : \A y \in T : ~(y < x)
  BY <1>2, <1>3, Zenon
<1> QED BY <1>4

\* A set with zero and closed under successor holds every natural.
LEMMA NatSetInduction ==
  ASSUME NEW S, 0 \in S, \A n \in Nat : n \in S => n + 1 \in S
  PROVE  \A n \in Nat : n \in S
<1> DEFINE T == Nat \ S
<1> SUFFICES ASSUME T # {}
             PROVE  FALSE
  OBVIOUS
<1>1. PICK x \in T : \A y \in T : x <= y
  BY LeastNat
<1>2. x \in Nat /\ x # 0 /\ x - 1 \in Nat /\ x - 1 \in S
  BY <1>1
<1> QED BY <1>1, <1>2

\* the last position of a set of positions
LEMMA MaxFacts ==
  ASSUME NEW n \in Nat, NEW s \in SUBSET (1 .. n), s # {}
  PROVE  /\ Max(s) \in s /\ \A y \in s : Max(s) >= y
<1> DEFINE T == {m \in Nat : \A r \in SUBSET (1 .. m) : r # {} => \E x \in r : \A y \in r : x >= y}
<1>1. 0 \in T
  <2>1. \A r \in SUBSET (1 .. 0) : r = {}
    OBVIOUS
  <2> QED BY <2>1
<1>2. \A m \in Nat : m \in T => m + 1 \in T
  <2> SUFFICES ASSUME NEW m \in Nat, m \in T, NEW r \in SUBSET (1 .. m + 1), r # {}
               PROVE  \E x \in r : \A y \in r : x >= y
    OBVIOUS
  <2>1. CASE m + 1 \in r
    <3>1. \A y \in r : m + 1 >= y
      OBVIOUS
    <3> QED BY <2>1, <3>1
  <2>2. CASE m + 1 \notin r
    <3>1. r \in SUBSET (1 .. m)
      BY <2>2
    <3> QED BY <3>1
  <2> QED BY <2>1, <2>2
<1> HIDE DEF T
<1>3. n \in T
  BY <1>1, <1>2, NatSetInduction
<1>4. \E x \in s : \A y \in s : x >= y
  BY <1>3 DEF T
<1> QED BY <1>4 DEF Max

-----------------------------------------------------------------------------
(* The two folds over what a cycle retires: at most two records. *)

\* u is the recursive function of a fold of add: what a set of positions of rs makes of w0
Adds(w0, rs, n, u) ==
  u = [s \in SUBSET (1 .. n) |->
         IF s = {} THEN w0 ELSE add(u[s \ {Max(s)}], rs[Max(s)])]

\* The function that folds add over the first n records exists.
LEMMA AddsExist ==
  ASSUME NEW w0, NEW rs, NEW n \in Nat
  PROVE  \E u : Adds(w0, rs, n, u)
<1> DEFINE S == {m \in Nat : \E u : Adds(w0, rs, m, u)}
<1>1. 0 \in S
  <2> DEFINE u == [s \in SUBSET (1 .. 0) |-> w0]
  <2>1. \A s \in SUBSET (1 .. 0) : s = {}
    OBVIOUS
  <2>2. Adds(w0, rs, 0, u)
    BY <2>1 DEF Adds
  <2> QED BY <2>2
<1>2. \A m \in Nat : m \in S => m + 1 \in S
  <2> SUFFICES ASSUME NEW m \in Nat, NEW u, Adds(w0, rs, m, u)
               PROVE  \E w : Adds(w0, rs, m + 1, w)
    OBVIOUS
  <2> DEFINE w == [s \in SUBSET (1 .. m + 1) |->
                     IF m + 1 \in s THEN add(u[s \ {m + 1}], rs[m + 1]) ELSE u[s]]
  <2>1. \A s \in SUBSET (1 .. m) :
          u[s] = IF s = {} THEN w0 ELSE add(u[s \ {Max(s)}], rs[Max(s)])
    BY DEF Adds
  <2>2. ASSUME NEW s \in SUBSET (1 .. m + 1)
        PROVE  w[s] = IF s = {} THEN w0 ELSE add(w[s \ {Max(s)}], rs[Max(s)])
    <3>1. CASE m + 1 \in s
      <4>1. Max(s) \in s /\ Max(s) >= m + 1
        BY <3>1, MaxFacts
      <4>2. Max(s) = m + 1
        <5>1. \A x \in s : x \in Int /\ x <= m + 1
          OBVIOUS
        <5>2. PICK k : k = Max(s)
          OBVIOUS
        <5>3. k \in s /\ k >= m + 1
          BY <4>1, <5>2, Zenon
        <5> QED BY <5>1, <5>2, <5>3
      <4>3. s \ {m + 1} \in SUBSET (1 .. m + 1) /\ m + 1 \notin s \ {m + 1}
        OBVIOUS
      <4>4. w[s \ {m + 1}] = u[s \ {m + 1}]
        BY <4>3
      <4> QED BY <3>1, <4>2, <4>4
    <3>2. CASE m + 1 \notin s
      <4>0. ASSUME NEW x \in s
            PROVE  x \in 1 .. m
        <5>1. x \in 1 .. m + 1 /\ x # m + 1
          BY <3>2
        <5> QED BY <5>1
      <4>1. s \in SUBSET (1 .. m) /\ s \ {Max(s)} \in SUBSET (1 .. m + 1) /\ m + 1 \notin s \ {Max(s)}
        BY <3>2, <4>0
      <4>2. w[s] = u[s] /\ w[s \ {Max(s)}] = u[s \ {Max(s)}]
        BY <3>2, <4>1
      <4> HIDE DEF w
      <4> QED BY <2>1, <4>1, <4>2
    <3> QED BY <3>1, <3>2
  <2>3. w = [s \in SUBSET (1 .. m + 1) |-> w[s]]
    OBVIOUS
  <2> HIDE DEF w
  <2>4. Adds(w0, rs, m + 1, w)
    BY <2>2, <2>3 DEF Adds
  <2> QED BY <2>4
<1> HIDE DEF S
<1>3. \A m \in Nat : m \in S
  BY <1>1, <1>2, NatSetInduction
<1> QED BY <1>3 DEF S

\* The fold of add over at most two records, one record after another.
LEMMA AddsFold ==
  ASSUME NEW w0, NEW S, NEW rs \in Seq(S), Len(rs) <= 2
  PROVE  /\ Len(rs) = 0 => FoldLeft(add, w0, rs) = w0
         /\ Len(rs) = 1 => FoldLeft(add, w0, rs) = add(w0, rs[1])
         /\ Len(rs) = 2 => FoldLeft(add, w0, rs) = add(add(w0, rs[1]), rs[2])
<1> DEFINE n == Len(rs)
           u == CHOOSE u : Adds(w0, rs, n, u)
<1>1. n \in Nat /\ DOMAIN rs = 1 .. n
  BY LenProperties
<1>2. Adds(w0, rs, n, u)
  BY <1>1, AddsExist
<1>3. FoldLeft(add, w0, rs) = u[1 .. n]
  <2>1. FoldLeft(add, w0, rs) = (CHOOSE v : v = [s \in SUBSET (DOMAIN rs) |->
           IF s = {} THEN w0 ELSE add(v[s \ {Max(s)}], rs[Max(s)])])[DOMAIN rs]
    BY Zenon DEF FoldLeft, MapThenFoldSet
  <2> QED BY <1>1, <2>1 DEF Adds
<1>4. ASSUME NEW s \in SUBSET (1 .. n)
      PROVE  u[s] = IF s = {} THEN w0 ELSE add(u[s \ {Max(s)}], rs[Max(s)])
  <2> HIDE DEF u
  <2> QED BY <1>2 DEF Adds
<1> HIDE DEF u, n
<1>5. u[1 .. 0] = w0
  <2>1. 1 .. 0 = {} /\ {} \in SUBSET (1 .. n)
    OBVIOUS
  <2> QED BY <1>4, <2>1
<1>6. ASSUME NEW m \in Nat, NEW k \in 1 .. n, k = m + 1
      PROVE  u[1 .. k] = add(u[1 .. m], rs[k])
  <2> DEFINE s == 1 .. k
  <2>0. k = m + 1
    BY <1>6
  <2>1. s \in SUBSET (1 .. n) /\ s # {} /\ k \in s
    <3>1. \A x \in s : x \in 1 .. n
      BY <1>1
    <3>2. k \in s
      OBVIOUS
    <3> QED BY <3>1, <3>2
  <2>2. Max(s) = k
    <3>1. Max(s) \in s /\ Max(s) >= k
      BY <1>1, <2>1, MaxFacts
    <3> QED BY <3>1
  <2>3. s \ {k} = 1 .. m
    BY <2>0
  <2> HIDE DEF s
  <2>4. u[s] = add(u[1 .. m], rs[k])
    BY <1>4, <2>1, <2>2, <2>3
  <2> QED BY <2>4 DEF s
<1>7. n \in {1, 2} => u[1 .. 1] = add(w0, rs[1])
  <2> SUFFICES ASSUME n \in {1, 2}
               PROVE  u[1 .. 1] = add(w0, rs[1])
    OBVIOUS
  <2>1. 1 \in 1 .. n /\ 0 \in Nat /\ 1 = 0 + 1
    OBVIOUS
  <2>2. u[1 .. 1] = add(u[1 .. 0], rs[1])
    BY <1>6, <2>1, Zenon
  <2> QED BY <1>5, <2>2, Zenon
<1>8. n = 2 => u[1 .. 2] = add(add(w0, rs[1]), rs[2])
  <2> SUFFICES ASSUME n = 2
               PROVE  u[1 .. 2] = add(add(w0, rs[1]), rs[2])
    OBVIOUS
  <2>1. 2 \in 1 .. n /\ 1 \in Nat /\ 2 = 1 + 1
    OBVIOUS
  <2>2. u[1 .. 2] = add(u[1 .. 1], rs[2])
    BY <1>6, <2>1, Zenon
  <2> QED BY <1>7, <2>2
<1> QED BY <1>1, <1>3, <1>5, <1>7, <1>8 DEF n

\* u is the recursive function of a fold of rt_emit: as above
Emits(w0, rs, n, u) ==
  u = [s \in SUBSET (1 .. n) |->
         IF s = {} THEN w0 ELSE rt_emit(u[s \ {Max(s)}], rs[Max(s)])]

\* The function that folds rt_emit over the first n records exists.
LEMMA EmitsExist ==
  ASSUME NEW w0, NEW rs, NEW n \in Nat
  PROVE  \E u : Emits(w0, rs, n, u)
<1> DEFINE S == {m \in Nat : \E u : Emits(w0, rs, m, u)}
<1>1. 0 \in S
  <2> DEFINE u == [s \in SUBSET (1 .. 0) |-> w0]
  <2>1. \A s \in SUBSET (1 .. 0) : s = {}
    OBVIOUS
  <2>2. Emits(w0, rs, 0, u)
    BY <2>1 DEF Emits
  <2> QED BY <2>2
<1>2. \A m \in Nat : m \in S => m + 1 \in S
  <2> SUFFICES ASSUME NEW m \in Nat, NEW u, Emits(w0, rs, m, u)
               PROVE  \E w : Emits(w0, rs, m + 1, w)
    OBVIOUS
  <2> DEFINE w == [s \in SUBSET (1 .. m + 1) |->
                     IF m + 1 \in s THEN rt_emit(u[s \ {m + 1}], rs[m + 1]) ELSE u[s]]
  <2>1. \A s \in SUBSET (1 .. m) :
          u[s] = IF s = {} THEN w0 ELSE rt_emit(u[s \ {Max(s)}], rs[Max(s)])
    BY DEF Emits
  <2>2. ASSUME NEW s \in SUBSET (1 .. m + 1)
        PROVE  w[s] = IF s = {} THEN w0 ELSE rt_emit(w[s \ {Max(s)}], rs[Max(s)])
    <3>1. CASE m + 1 \in s
      <4>1. Max(s) \in s /\ Max(s) >= m + 1
        BY <3>1, MaxFacts
      <4>2. Max(s) = m + 1
        <5>1. \A x \in s : x \in Int /\ x <= m + 1
          OBVIOUS
        <5>2. PICK k : k = Max(s)
          OBVIOUS
        <5>3. k \in s /\ k >= m + 1
          BY <4>1, <5>2, Zenon
        <5> QED BY <5>1, <5>2, <5>3
      <4>3. s \ {m + 1} \in SUBSET (1 .. m + 1) /\ m + 1 \notin s \ {m + 1}
        OBVIOUS
      <4>4. w[s \ {m + 1}] = u[s \ {m + 1}]
        BY <4>3
      <4> QED BY <3>1, <4>2, <4>4
    <3>2. CASE m + 1 \notin s
      <4>0. ASSUME NEW x \in s
            PROVE  x \in 1 .. m
        <5>1. x \in 1 .. m + 1 /\ x # m + 1
          BY <3>2
        <5> QED BY <5>1
      <4>1. s \in SUBSET (1 .. m) /\ s \ {Max(s)} \in SUBSET (1 .. m + 1) /\ m + 1 \notin s \ {Max(s)}
        BY <3>2, <4>0
      <4>2. w[s] = u[s] /\ w[s \ {Max(s)}] = u[s \ {Max(s)}]
        BY <3>2, <4>1
      <4> HIDE DEF w
      <4> QED BY <2>1, <4>1, <4>2
    <3> QED BY <3>1, <3>2
  <2>3. w = [s \in SUBSET (1 .. m + 1) |-> w[s]]
    OBVIOUS
  <2> HIDE DEF w
  <2>4. Emits(w0, rs, m + 1, w)
    BY <2>2, <2>3 DEF Emits
  <2> QED BY <2>4
<1> HIDE DEF S
<1>3. \A m \in Nat : m \in S
  BY <1>1, <1>2, NatSetInduction
<1> QED BY <1>3 DEF S

\* The fold of rt_emit over at most two records, one record after another.
LEMMA EmitsFold ==
  ASSUME NEW w0, NEW S, NEW rs \in Seq(S), Len(rs) <= 2
  PROVE  /\ Len(rs) = 0 => FoldLeft(rt_emit, w0, rs) = w0
         /\ Len(rs) = 1 => FoldLeft(rt_emit, w0, rs) = rt_emit(w0, rs[1])
         /\ Len(rs) = 2 => FoldLeft(rt_emit, w0, rs) = rt_emit(rt_emit(w0, rs[1]), rs[2])
<1> DEFINE n == Len(rs)
           u == CHOOSE u : Emits(w0, rs, n, u)
<1>1. n \in Nat /\ DOMAIN rs = 1 .. n
  BY LenProperties
<1>2. Emits(w0, rs, n, u)
  BY <1>1, EmitsExist
<1>3. FoldLeft(rt_emit, w0, rs) = u[1 .. n]
  <2>1. FoldLeft(rt_emit, w0, rs) = (CHOOSE v : v = [s \in SUBSET (DOMAIN rs) |->
           IF s = {} THEN w0 ELSE rt_emit(v[s \ {Max(s)}], rs[Max(s)])])[DOMAIN rs]
    BY Zenon DEF FoldLeft, MapThenFoldSet
  <2> QED BY <1>1, <2>1 DEF Emits
<1>4. ASSUME NEW s \in SUBSET (1 .. n)
      PROVE  u[s] = IF s = {} THEN w0 ELSE rt_emit(u[s \ {Max(s)}], rs[Max(s)])
  <2> HIDE DEF u
  <2> QED BY <1>2 DEF Emits
<1> HIDE DEF u, n
<1>5. u[1 .. 0] = w0
  <2>1. 1 .. 0 = {} /\ {} \in SUBSET (1 .. n)
    OBVIOUS
  <2> QED BY <1>4, <2>1
<1>6. ASSUME NEW m \in Nat, NEW k \in 1 .. n, k = m + 1
      PROVE  u[1 .. k] = rt_emit(u[1 .. m], rs[k])
  <2> DEFINE s == 1 .. k
  <2>0. k = m + 1
    BY <1>6
  <2>1. s \in SUBSET (1 .. n) /\ s # {} /\ k \in s
    <3>1. \A x \in s : x \in 1 .. n
      BY <1>1
    <3>2. k \in s
      OBVIOUS
    <3> QED BY <3>1, <3>2
  <2>2. Max(s) = k
    <3>1. Max(s) \in s /\ Max(s) >= k
      BY <1>1, <2>1, MaxFacts
    <3> QED BY <3>1
  <2>3. s \ {k} = 1 .. m
    BY <2>0
  <2> HIDE DEF s
  <2>4. u[s] = rt_emit(u[1 .. m], rs[k])
    BY <1>4, <2>1, <2>2, <2>3
  <2> QED BY <2>4 DEF s
<1>7. n \in {1, 2} => u[1 .. 1] = rt_emit(w0, rs[1])
  <2> SUFFICES ASSUME n \in {1, 2}
               PROVE  u[1 .. 1] = rt_emit(w0, rs[1])
    OBVIOUS
  <2>1. 1 \in 1 .. n /\ 0 \in Nat /\ 1 = 0 + 1
    OBVIOUS
  <2>2. u[1 .. 1] = rt_emit(u[1 .. 0], rs[1])
    BY <1>6, <2>1, Zenon
  <2> QED BY <1>5, <2>2, Zenon
<1>8. n = 2 => u[1 .. 2] = rt_emit(rt_emit(w0, rs[1]), rs[2])
  <2> SUFFICES ASSUME n = 2
               PROVE  u[1 .. 2] = rt_emit(rt_emit(w0, rs[1]), rs[2])
    OBVIOUS
  <2>1. 2 \in 1 .. n /\ 1 \in Nat /\ 2 = 1 + 1
    OBVIOUS
  <2>2. u[1 .. 2] = rt_emit(u[1 .. 1], rs[2])
    BY <1>6, <2>1, Zenon
  <2> QED BY <1>7, <2>2
<1> QED BY <1>1, <1>3, <1>5, <1>7, <1>8 DEF n

-----------------------------------------------------------------------------
(* The writer: shapes, and the chunks a file consists of. *)

Classes == {"user", "kern", "stop"}
Rec     == [id : Nat, cls : Classes, slot : Nat]
Datum   == Rec \cup Nat
Kinds   == {"magic", "hdr", "col", "body", "trailer"}
Ids     == {"rec", "eidx", "edat", "st"}
Items   == [k : Kinds, n : Nat, nc : Nat, id : Ids \cup {"none"}, data : Seq(Datum)]

IsHist(h) ==
  /\ DOMAIN h = {"recs", "st", "exc"}
  /\ h.recs \in Seq(Rec) /\ h.st \in Seq(Nat) /\ h.exc \in Seq(Nat)

\* what a chunk holds, in the file or still in the writer's columns
HasColumns(w) ==
  /\ w.rec \in Seq(Rec) /\ w.eidx \in Seq(Nat) /\ w.edat \in Seq(Nat) /\ w.st \in Seq(Nat)
  /\ Len(w.eidx) = Len(w.edat)

IsWriter(w) ==
  /\ DOMAIN w = {"rec", "eidx", "edat", "st", "file", "raw", "chunks", "recs"}
  /\ HasColumns(w)
  /\ w.file \in Seq(Items) /\ w.raw \in Seq(Rec) /\ w.chunks \in Nat /\ w.recs \in Nat

NCols(w) == Len(put_cols(w))

\* the items of a chunk
Hdr(w)     == Item("hdr", Len(w.rec), NCols(w), "none", <<>>)
Col(w, i)  == Item("col", 0, 0, put_cols(w)[i], <<>>)
Body(w, i) == Item("body", 0, 0, put_cols(w)[i], w[put_cols(w)[i]])

\* as far as f goes, the chunk with the columns of w stands at p
ChunkAt(f, p, w) ==
  /\ p <= Len(f) => f[p] = Hdr(w)
  /\ \A i \in 1 .. NCols(w) :
       /\ p + i <= Len(f) => f[p + i] = Col(w, i)
       /\ p + NCols(w) + i <= Len(f) => f[p + NCols(w) + i] = Body(w, i)

\* a chunk with its place: at in the file, r, e and a in the records, interrupts and stores
IsChunk(c) == HasColumns(c) /\ c.at \in Nat /\ c.r \in Nat /\ c.e \in Nat /\ c.a \in Nat

\* it holds what happened
Holds(c, h) ==
  /\ c.r + Len(c.rec) <= Len(h.recs) /\ \A i \in 1 .. Len(c.rec) : c.rec[i] = h.recs[c.r + i]
  /\ c.e + Len(c.eidx) <= Len(h.exc) /\ \A i \in 1 .. Len(c.eidx) : c.r + c.eidx[i] = h.exc[c.e + i]
  /\ c.a + Len(c.st) <= Len(h.st) /\ \A i \in 1 .. Len(c.st) : c.st[i] = h.st[c.a + i] /\ c.st[i] >= c.r

After(c, d) ==
  /\ d.at = c.at + 1 + 2 * NCols(c)
  /\ d.r = c.r + Len(c.rec) /\ d.e = c.e + Len(c.eidx) /\ d.a = c.a + Len(c.st)

\* n chunks and the one after them, from the start of the history
Chain(K, n, h) ==
  /\ \A j \in 1 .. n + 1 : IsChunk(K[j]) /\ Holds(K[j], h)
  /\ \A j \in 1 .. n : After(K[j], K[j + 1]) /\ K[j].rec # <<>>
  /\ K[1].at = 2 /\ K[1].r = 0 /\ K[1].e = 0 /\ K[1].a = 0

FileOf(f, K, n) ==
  /\ f # <<>> => f[1] = Magic
  /\ \A j \in 1 .. n : ChunkAt(f, K[j].at, K[j])

\* the chunk after the n written ones is the one in the columns, and it ends the history
Pending(w, h, d) ==
  /\ d.rec = w.rec /\ d.eidx = w.eidx /\ d.edat = w.edat /\ d.st = w.st
  /\ d.r + Len(w.rec) = Len(h.recs) /\ d.e + Len(w.eidx) = Len(h.exc)
  /\ d.a + Len(w.st) = Len(h.st) /\ w.recs = d.r

Laid(w, h, K) ==
  /\ Chain(K, w.chunks, h) /\ Pending(w, h, K[w.chunks + 1])
  /\ FileOf(w.file, K, w.chunks) /\ Len(w.file) = K[w.chunks + 1].at - 1

\* what is pending of the sparse streams was logged by now: every index designates a record of
\* the pending chunk or the one after it
IndexOk(w) ==
  /\ \A i \in 1 .. Len(w.eidx) : w.eidx[i] <= Len(w.rec)
  /\ \A i \in 1 .. Len(w.st) : w.st[i] <= w.recs + Len(w.rec)

\* a chunk that add wrote: its sparse entries were logged before its last record
Full(c) ==
  /\ Len(c.rec) = ChunkRecs
  /\ \A i \in 1 .. Len(c.eidx) : c.eidx[i] < Len(c.rec)
  /\ \A i \in 1 .. Len(c.st) : c.st[i] < c.r + Len(c.rec)

FullChunks(K, n) == \A j \in 1 .. n : Full(K[j])

WriterOk(w, h) ==
  /\ IsWriter(w) /\ IsHist(h) /\ w.raw = h.recs /\ Len(w.rec) < ChunkRecs /\ IndexOk(w)
  /\ \E K : Laid(w, h, K) /\ FullChunks(K, w.chunks)

\* A chunk has at most four columns, and at least one when it holds a record.
LEMMA PutCols ==
  ASSUME NEW w
  PROVE  /\ put_cols(w) \in Seq(Ids) /\ NCols(w) \in 0 .. 4
         /\ \A i \in 1 .. NCols(w) : put_cols(w)[i] \in Ids
         /\ w.rec # <<>> => NCols(w) >= 1
<1> DEFINE a == put_col(w, "rec")
           b == put_col(w, "eidx")
           c == put_col(w, "edat")
           d == put_col(w, "st")
<1>1. \A x \in Ids : put_col(w, x) \in Seq(Ids) /\ Len(put_col(w, x)) \in 0 .. 1
  <2> TAKE x \in Ids
  <2>1. <<x>> \in Seq(Ids) /\ Len(<<x>>) = 1 /\ <<>> \in Seq(Ids) /\ Len(<<>>) = 0
    OBVIOUS
  <2>2. put_col(w, x) = <<x>> \/ put_col(w, x) = <<>>
    BY DEF put_col
  <2>3. CASE put_col(w, x) = <<x>>
    BY <2>1, <2>3
  <2>4. CASE put_col(w, x) = <<>>
    BY <2>1, <2>4
  <2> QED BY <2>2, <2>3, <2>4
<1>2. w.rec # <<>> => Len(a) = 1
  BY DEF put_col
<1>3. put_cols(w) = ((a \o b) \o c) \o d
  BY DEF put_cols
<1>0. /\ a \in Seq(Ids) /\ b \in Seq(Ids) /\ c \in Seq(Ids) /\ d \in Seq(Ids)
      /\ Len(a) \in 0 .. 1 /\ Len(b) \in 0 .. 1 /\ Len(c) \in 0 .. 1 /\ Len(d) \in 0 .. 1
  <2>1. "rec" \in Ids /\ "eidx" \in Ids /\ "edat" \in Ids /\ "st" \in Ids
    BY DEF Ids
  <2> QED BY <1>1, <2>1
<1> HIDE DEF a, b, c, d
<1>4. a \o b \in Seq(Ids) /\ Len(a \o b) = Len(a) + Len(b)
  BY <1>0, ConcatProperties
<1>5. (a \o b) \o c \in Seq(Ids) /\ Len((a \o b) \o c) = Len(a) + Len(b) + Len(c)
  <2> DEFINE x == a \o b
  <2> HIDE DEF x
  <2>1. x \o c \in Seq(Ids) /\ Len(x \o c) = Len(x) + Len(c)
    BY <1>0, <1>4, ConcatProperties DEF x
  <2> QED BY <1>4, <2>1 DEF x
<1>6. put_cols(w) \in Seq(Ids) /\ NCols(w) = Len(a) + Len(b) + Len(c) + Len(d)
  <2> DEFINE x == (a \o b) \o c
  <2> HIDE DEF x
  <2>1. x \o d \in Seq(Ids) /\ Len(x \o d) = Len(x) + Len(d)
    BY <1>0, <1>5, ConcatProperties DEF x
  <2> QED BY <1>3, <1>5, <2>1 DEF x, NCols
<1>9. \A i \in 1 .. NCols(w) : put_cols(w)[i] \in Ids
  BY <1>6, ElementOfSeq DEF NCols
<1>10. NCols(w) \in 0 .. 4 /\ (Len(a) = 1 => NCols(w) >= 1)
  <2>1. \A x1, x2, x3, x4 \in 0 .. 1 :
          x1 + x2 + x3 + x4 \in 0 .. 4 /\ (x1 = 1 => x1 + x2 + x3 + x4 >= 1)
    OBVIOUS
  <2> QED BY <1>0, <1>6, <2>1
<1> QED BY <1>2, <1>6, <1>9, <1>10

\* the columns depend only on which of the four are there
LEMMA SameCols ==
  ASSUME NEW w, NEW v, w.rec = v.rec, w.eidx = v.eidx, w.edat = v.edat, w.st = v.st, HasColumns(w)
  PROVE  /\ put_cols(w) = put_cols(v) /\ NCols(w) = NCols(v) /\ Hdr(w) = Hdr(v)
         /\ \A i \in 1 .. NCols(w) : Col(w, i) = Col(v, i) /\ Body(w, i) = Body(v, i)
<1>1. put_cols(w) = put_cols(v)
  BY DEF put_cols, put_col
<1>2. NCols(w) = NCols(v)
  BY <1>1 DEF NCols
<1>3. Hdr(w) = Hdr(v)
  BY <1>2 DEF Hdr
<1>4. ASSUME NEW i \in 1 .. NCols(w)
      PROVE  Col(w, i) = Col(v, i) /\ Body(w, i) = Body(v, i)
  <2>1. put_cols(w)[i] \in Ids
    BY PutCols
  <2>2. w[put_cols(w)[i]] = v[put_cols(v)[i]]
    BY <1>1, <2>1 DEF Ids
  <2> QED BY <1>1, <2>2 DEF Col, Body
<1> QED BY <1>1, <1>2, <1>3, <1>4

\* the items of a chunk are items
LEMMA ItemTypes ==
  ASSUME NEW w, HasColumns(w)
  PROVE  /\ Hdr(w) \in Items /\ Hdr(w).k = "hdr" /\ Hdr(w).nc = NCols(w) /\ Hdr(w).n = Len(w.rec)
         /\ \A i \in 1 .. NCols(w) :
              /\ Col(w, i) \in Items /\ Body(w, i) \in Items
              /\ Col(w, i).k = "col" /\ Body(w, i).k = "body"
              /\ Body(w, i).id = put_cols(w)[i] /\ Body(w, i).data = w[put_cols(w)[i]]
<1>1. Len(w.rec) \in Nat /\ NCols(w) \in Nat
  <2>1. NCols(w) \in 0 .. 4 /\ w.rec \in Seq(Rec)
    BY PutCols DEF HasColumns
  <2> QED BY <2>1, LenProperties
<1>2. <<>> \in Seq(Datum)
  OBVIOUS
<1>3. Hdr(w) \in Items /\ Hdr(w).k = "hdr" /\ Hdr(w).nc = NCols(w) /\ Hdr(w).n = Len(w.rec)
  <2> DEFINE x == [k |-> "hdr", n |-> Len(w.rec), nc |-> NCols(w), id |-> "none", data |-> <<>>]
  <2>1. Hdr(w) = x
    BY DEF Hdr, Item
  <2>2. "hdr" \in Kinds /\ "none" \in Ids \cup {"none"}
    BY DEF Kinds
  <2> QED BY <1>1, <1>2, <2>1, <2>2 DEF Items
<1>4. ASSUME NEW i \in 1 .. NCols(w)
      PROVE  /\ Col(w, i) \in Items /\ Body(w, i) \in Items
             /\ Col(w, i).k = "col" /\ Body(w, i).k = "body"
             /\ Body(w, i).id = put_cols(w)[i] /\ Body(w, i).data = w[put_cols(w)[i]]
  <2> DEFINE c == put_cols(w)[i]
  <2>1. c \in Ids
    BY PutCols
  <2>2. Rec \subseteq Datum /\ Nat \subseteq Datum
    BY DEF Datum
  <2>3. w.rec \in Seq(Datum) /\ w.eidx \in Seq(Datum) /\ w.edat \in Seq(Datum) /\ w.st \in Seq(Datum)
    BY <2>2, SeqMonotonic DEF HasColumns
  <2>4. w[c] \in Seq(Datum)
    BY <2>1, <2>3 DEF Ids
  <2>5. Col(w, i) = [k |-> "col", n |-> 0, nc |-> 0, id |-> c, data |-> <<>>]
    BY DEF Col, Item
  <2>6. Body(w, i) = [k |-> "body", n |-> 0, nc |-> 0, id |-> c, data |-> w[c]]
    BY DEF Body, Item
  <2>9. "col" \in Kinds /\ "body" \in Kinds /\ 0 \in Nat /\ c \in Ids \cup {"none"}
    BY <2>1 DEF Kinds
  <2> HIDE DEF c
  <2>7. Col(w, i) \in Items /\ Col(w, i).k = "col"
    BY <1>2, <2>5, <2>9 DEF Items
  <2>8. Body(w, i) \in Items /\ Body(w, i).k = "body" /\ Body(w, i).id = c /\ Body(w, i).data = w[c]
    BY <2>4, <2>6, <2>9 DEF Items
  <2> QED BY <2>7, <2>8 DEF c
<1> QED BY <1>3, <1>4
-----------------------------------------------------------------------------
(* The chain of chunks. *)

\* each chunk ends before the next begins
LEMMA ChainOrder ==
  ASSUME NEW K, NEW n \in Nat, NEW h, Chain(K, n, h)
  PROVE  \A j \in 1 .. n + 1 : /\ K[j].at >= 2
                               /\ \A i \in 1 .. n : i < j => K[i].at + 1 + 2 * NCols(K[i]) <= K[j].at
<1> DEFINE B(m) == m + 1 <= n + 1 =>
                     /\ K[m + 1].at >= 2
                     /\ \A i \in 1 .. n : i < m + 1 => K[i].at + 1 + 2 * NCols(K[i]) <= K[m + 1].at
           S == {m \in Nat : B(m)}
<1>1. \A j \in 1 .. n + 1 : K[j].at \in Nat /\ NCols(K[j]) \in Nat
  <2>1. \A j \in 1 .. n + 1 : NCols(K[j]) \in 0 .. 4
    BY PutCols
  <2> QED BY <2>1 DEF Chain, IsChunk
<1>2. 0 \in S
  <2>1. K[0 + 1].at = 2
    BY DEF Chain
  <2>2. B(0)
    BY <2>1
  <2> QED BY <2>2
<1>3. \A m \in Nat : m \in S => m + 1 \in S
  <2> SUFFICES ASSUME NEW m \in Nat, B(m), m + 2 <= n + 1
               PROVE  /\ K[m + 2].at >= 2
                      /\ \A i \in 1 .. n : i < m + 2 => K[i].at + 1 + 2 * NCols(K[i]) <= K[m + 2].at
    <3>1. \A m \in Nat : m + 1 \in Nat /\ (m + 1) + 1 = m + 2
      OBVIOUS
    <3> QED BY <3>1
  <2>1. m + 1 \in 1 .. n /\ m + 2 = (m + 1) + 1
    OBVIOUS
  <2>2. K[m + 2].at = K[m + 1].at + 1 + 2 * NCols(K[m + 1])
    BY <2>1 DEF Chain, After
  <2>3. \A i \in 1 .. n : i < m + 2 => i = m + 1 \/ i < m + 1
    OBVIOUS
  <2>4. K[m + 1].at >= 2 /\ \A i \in 1 .. n : i < m + 1 => K[i].at + 1 + 2 * NCols(K[i]) <= K[m + 1].at
    OBVIOUS
  <2>5. K[m + 1].at \in Nat /\ NCols(K[m + 1]) \in Nat
    BY <1>1, <2>1
  <2>6. K[m + 1].at <= K[m + 2].at
    BY <2>2, <2>5
  <2>7. ASSUME NEW i \in 1 .. n, i < m + 2
        PROVE  K[i].at + 1 + 2 * NCols(K[i]) <= K[m + 2].at
    <3>1. CASE i = m + 1
      BY <2>2, <2>5, <3>1
    <3>2. CASE i < m + 1
      <4>1. K[i].at + 1 + 2 * NCols(K[i]) <= K[m + 1].at
        BY <2>4, <3>2
      <4>2. K[i].at \in Nat /\ NCols(K[i]) \in Nat
        BY <1>1
      <4> QED BY <2>2, <2>5, <4>1, <4>2
    <3> QED BY <2>3, <2>7, <3>1, <3>2
  <2> QED BY <2>2, <2>4, <2>5, <2>7
<1> HIDE DEF S
<1>4. \A m \in Nat : m \in S
  BY <1>2, <1>3, NatSetInduction
<1>5. ASSUME NEW j \in 1 .. n + 1
      PROVE  /\ K[j].at >= 2
             /\ \A i \in 1 .. n : i < j => K[i].at + 1 + 2 * NCols(K[i]) <= K[j].at
  <2>1. j - 1 \in Nat /\ (j - 1) + 1 = j
    OBVIOUS
  <2>2. B(j - 1)
    BY <1>4, <2>1 DEF S
  <2> QED BY <2>1, <2>2
<1> QED BY <1>5

\* a chunk that ends within f is there in every longer file that begins with f
LEMMA ChunkKept ==
  ASSUME NEW f, NEW g, NEW p \in Nat, NEW w, ChunkAt(f, p, w), p + 2 * NCols(w) <= Len(f),
         Len(f) \in Nat, Len(g) \in Nat, \A i \in 1 .. Len(f) : g[i] = f[i], p >= 1
  PROVE  ChunkAt(g, p, w)
<1>1. NCols(w) \in Nat
  <2>1. NCols(w) \in 0 .. 4
    BY PutCols
  <2> QED BY <2>1
<1>2. p \in 1 .. Len(f) /\ \A i \in 1 .. NCols(w) : p + i \in 1 .. Len(f) /\ p + NCols(w) + i \in 1 .. Len(f)
  BY <1>1
<1>3. g[p] = Hdr(w)
  BY <1>2 DEF ChunkAt
<1>4. ASSUME NEW i \in 1 .. NCols(w)
      PROVE  g[p + i] = Col(w, i) /\ g[p + NCols(w) + i] = Body(w, i)
  <2> DEFINE x == p + i
             y == p + NCols(w) + i
  <2>1. x \in 1 .. Len(f) /\ y \in 1 .. Len(f)
    BY <1>2
  <2>2. f[x] = Col(w, i) /\ f[y] = Body(w, i)
    BY <2>1 DEF ChunkAt
  <2> HIDE DEF x, y
  <2>3. g[x] = f[x] /\ g[y] = f[y]
    BY <2>1
  <2> QED BY <2>2, <2>3 DEF x, y
<1> QED BY <1>3, <1>4 DEF ChunkAt

\* a chunk stays where it is in a shorter file, as far as that goes
LEMMA ChunkCut ==
  ASSUME NEW f, NEW g, NEW p \in Nat, NEW w, ChunkAt(f, p, w), p >= 1,
         Len(f) \in Nat, Len(g) \in Nat, Len(g) <= Len(f), \A i \in 1 .. Len(g) : g[i] = f[i]
  PROVE  ChunkAt(g, p, w)
<1>1. NCols(w) \in Nat
  <2>1. NCols(w) \in 0 .. 4
    BY PutCols
  <2> QED BY <2>1
<1>3. p <= Len(g) => g[p] = Hdr(w)
  BY DEF ChunkAt
<1>4. ASSUME NEW i \in 1 .. NCols(w)
      PROVE  /\ p + i <= Len(g) => g[p + i] = Col(w, i)
             /\ p + NCols(w) + i <= Len(g) => g[p + NCols(w) + i] = Body(w, i)
  <2> DEFINE x == p + i
             y == p + NCols(w) + i
  <2>1. x \in Nat /\ x >= 1 /\ y \in Nat /\ y >= 1
    BY <1>1
  <2>2. (x <= Len(f) => f[x] = Col(w, i)) /\ (y <= Len(f) => f[y] = Body(w, i))
    BY DEF ChunkAt
  <2> HIDE DEF x, y
  <2>3. (x <= Len(g) => g[x] = Col(w, i)) /\ (y <= Len(g) => g[y] = Body(w, i))
    BY <2>1, <2>2
  <2> QED BY <2>3 DEF x, y
<1> QED BY <1>3, <1>4 DEF ChunkAt

\* what flush_chunk writes
LEMMA FlushFile ==
  ASSUME NEW w, IsWriter(w)
  PROVE  LET f == flush_chunk(w).file
             m == Len(w.file)
             c == NCols(w)
         IN  /\ f \in Seq(Items) /\ Len(f) = m + 1 + 2 * c
             /\ \A i \in 1 .. m : f[i] = w.file[i]
             /\ f[m + 1] = Hdr(w)
             /\ \A i \in 1 .. c : f[m + 1 + i] = Col(w, i) /\ f[m + 1 + c + i] = Body(w, i)
<1> DEFINE m == Len(w.file)
           c == NCols(w)
           one == <<Hdr(w)>>
           heads == [i \in 1 .. c |-> Col(w, i)]
           bodies == [i \in 1 .. c |-> Body(w, i)]
           x == w.file \o one
           y == x \o heads
           z == y \o bodies
<1>1. flush_chunk(w).file = z
  BY DEF flush_chunk, IsWriter, NCols, Hdr, Col, Body
<1>2. m \in Nat /\ c \in Nat /\ w.file \in Seq(Items)
  <2>1. c \in 0 .. 4
    BY PutCols
  <2> QED BY <2>1, LenProperties DEF IsWriter
<1>3. one \in Seq(Items) /\ Len(one) = 1 /\ one[1] = Hdr(w)
  BY ItemTypes DEF IsWriter
<1>4. heads \in Seq(Items) /\ Len(heads) = c /\ \A i \in 1 .. c : heads[i] = Col(w, i)
  <2> HIDE DEF c
  <2>1. \A i \in 1 .. c : Col(w, i) \in Items
    BY ItemTypes DEF IsWriter, c
  <2> QED BY <1>2, <2>1
<1>5. bodies \in Seq(Items) /\ Len(bodies) = c /\ \A i \in 1 .. c : bodies[i] = Body(w, i)
  <2> HIDE DEF c
  <2>1. \A i \in 1 .. c : Body(w, i) \in Items
    BY ItemTypes DEF IsWriter, c
  <2> QED BY <1>2, <2>1
<1> HIDE DEF m, c, one, heads, bodies, z
<1>6. /\ x \in Seq(Items) /\ Len(x) = m + 1
      /\ \A i \in 1 .. m + 1 : x[i] = IF i <= m THEN w.file[i] ELSE one[i - m]
  BY <1>2, <1>3, ConcatProperties DEF m
<1> HIDE DEF x
<1>7. /\ y \in Seq(Items) /\ Len(y) = m + 1 + c
      /\ \A i \in 1 .. m + 1 + c : y[i] = IF i <= m + 1 THEN x[i] ELSE heads[i - (m + 1)]
  <2>1. /\ y \in Seq(Items) /\ Len(y) = Len(x) + Len(heads)
        /\ \A i \in 1 .. Len(x) + Len(heads) : y[i] = IF i <= Len(x) THEN x[i] ELSE heads[i - Len(x)]
    BY <1>4, <1>6, ConcatProperties
  <2> HIDE DEF y
  <2> QED BY <1>4, <1>6, <2>1
<1> HIDE DEF y
<1>8. /\ z \in Seq(Items) /\ Len(z) = m + 1 + c + c
      /\ \A i \in 1 .. m + 1 + c + c : z[i] = IF i <= m + 1 + c THEN y[i] ELSE bodies[i - (m + 1 + c)]
  <2>1. /\ z \in Seq(Items) /\ Len(z) = Len(y) + Len(bodies)
        /\ \A i \in 1 .. Len(y) + Len(bodies) : z[i] = IF i <= Len(y) THEN y[i] ELSE bodies[i - Len(y)]
    BY <1>5, <1>7, ConcatProperties DEF z
  <2> QED BY <1>5, <1>7, <2>1
<1>9. \A i \in 1 .. m : z[i] = w.file[i]
  <2> TAKE i \in 1 .. m
  <2>1. z[i] = y[i]
    BY <1>2, <1>8
  <2>2. y[i] = x[i]
    BY <1>2, <1>7
  <2> QED BY <1>2, <1>6, <2>1, <2>2
<1>10. z[m + 1] = Hdr(w)
  <2> DEFINE j == m + 1
  <2>1. j \in 1 .. m + 1 /\ j \in 1 .. m + 1 + c /\ j \in 1 .. m + 1 + c + c /\ j <= m + 1 + c /\ ~(j <= m) /\ j - m = 1
    BY <1>2
  <2> HIDE DEF j
  <2>2. z[j] = y[j]
    BY <1>8, <2>1
  <2>3. y[j] = x[j]
    BY <1>2, <1>7, <2>1
  <2>4. x[j] = one[1]
    BY <1>6, <2>1
  <2> QED BY <1>3, <2>2, <2>3, <2>4 DEF j
<1>11. ASSUME NEW i \in 1 .. c
       PROVE  z[m + 1 + i] = Col(w, i) /\ z[m + 1 + c + i] = Body(w, i)
  <2> DEFINE j == m + 1 + i
             l == m + 1 + c + i
  <2>1. /\ j \in 1 .. m + 1 + c /\ j \in 1 .. m + 1 + c + c /\ j <= m + 1 + c /\ ~(j <= m + 1) /\ j - (m + 1) = i
        /\ l \in 1 .. m + 1 + c + c /\ ~(l <= m + 1 + c) /\ l - (m + 1 + c) = i
    BY <1>2
  <2> HIDE DEF j, l
  <2>2. z[j] = y[j] /\ y[j] = heads[i]
    BY <1>7, <1>8, <2>1
  <2>3. z[l] = bodies[i]
    BY <1>8, <2>1
  <2> QED BY <1>4, <1>5, <2>2, <2>3 DEF j, l
<1>12. Len(z) = m + 1 + 2 * c
  BY <1>2, <1>8
<1> QED BY <1>1, <1>8, <1>9, <1>10, <1>11, <1>12 DEF m, c

\* flush_chunk leaves the writer with empty columns and one more chunk.
LEMMA FlushFields ==
  ASSUME NEW w, IsWriter(w)
  PROVE  LET v == flush_chunk(w)
         IN  /\ IsWriter(v) /\ v.rec = <<>> /\ v.eidx = <<>> /\ v.edat = <<>> /\ v.st = <<>>
             /\ v.raw = w.raw /\ v.chunks = w.chunks + 1 /\ v.recs = w.recs + Len(w.rec)
<1> DEFINE v == flush_chunk(w)
<1>1. PICK f : f = v.file
  OBVIOUS
<1>2. f \in Seq(Items)
  BY <1>1, FlushFile
<1>3. v = [w EXCEPT !.file = f, !.chunks = @ + 1, !.recs = @ + Len(w.rec),
                    !.rec = <<>>, !.eidx = <<>>, !.edat = <<>>, !.st = <<>>]
  BY <1>1 DEF flush_chunk, IsWriter
<1> HIDE DEF v
<1>4. /\ v.rec = <<>> /\ v.eidx = <<>> /\ v.edat = <<>> /\ v.st = <<>>
      /\ v.raw = w.raw /\ v.chunks = w.chunks + 1 /\ v.recs = w.recs + Len(w.rec) /\ v.file = f
      /\ DOMAIN v = {"rec", "eidx", "edat", "st", "file", "raw", "chunks", "recs"}
  BY <1>3 DEF IsWriter
<1>5. Len(w.rec) \in Nat /\ w.chunks \in Nat /\ w.recs \in Nat /\ w.raw \in Seq(Rec)
  BY LenProperties DEF IsWriter, HasColumns
<1>6. HasColumns(v)
  BY <1>4 DEF HasColumns
<1>7. IsWriter(v)
  BY <1>2, <1>4, <1>5, <1>6 DEF IsWriter
<1> QED BY <1>4, <1>7 DEF v

\* Writing the pending chunk keeps the layout: the chunk joins the chain and an empty one
\* follows it.
LEMMA FlushLaid ==
  ASSUME NEW w, NEW h, NEW K, IsWriter(w), IsHist(h), Laid(w, h, K), w.rec # <<>>
  PROVE  \E L : Laid(flush_chunk(w), h, L) /\ \A j \in 1 .. w.chunks + 1 : L[j] = K[j]
<1> DEFINE n == w.chunks
           d == K[n + 1]
           v == flush_chunk(w)
           e0 == [at |-> d.at + 1 + 2 * NCols(d), r |-> d.r + Len(d.rec), e |-> d.e + Len(d.eidx),
                  a |-> d.a + Len(d.st), rec |-> <<>>, eidx |-> <<>>, edat |-> <<>>, st |-> <<>>]
           L == [j \in 1 .. n + 2 |-> IF j = n + 2 THEN e0 ELSE K[j]]
<1>1. n \in Nat /\ Chain(K, n, h) /\ Pending(w, h, d) /\ FileOf(w.file, K, n) /\ Len(w.file) = d.at - 1
  BY DEF Laid, IsWriter
<1>2. IsChunk(d) /\ Holds(d, h)
  BY <1>1 DEF Chain
<1>3. d.rec = w.rec /\ d.eidx = w.eidx /\ d.edat = w.edat /\ d.st = w.st /\ w.recs = d.r
  BY <1>1 DEF Pending
<1>4. /\ Len(d.rec) \in Nat /\ Len(d.eidx) \in Nat /\ Len(d.st) \in Nat
      /\ d.at \in Nat /\ d.r \in Nat /\ d.e \in Nat /\ d.a \in Nat
  BY <1>2, LenProperties DEF IsChunk, HasColumns
<1>5. NCols(d) \in Nat /\ NCols(d) = NCols(w) /\ Hdr(d) = Hdr(w)
      /\ \A i \in 1 .. NCols(d) : Col(d, i) = Col(w, i) /\ Body(d, i) = Body(w, i)
  <2>1. NCols(d) \in 0 .. 4
    BY PutCols
  <2>2. HasColumns(d)
    BY <1>2 DEF IsChunk
  <2> QED BY <1>3, <2>1, <2>2, SameCols
<1>6. /\ IsWriter(v) /\ v.rec = <<>> /\ v.eidx = <<>> /\ v.edat = <<>> /\ v.st = <<>>
      /\ v.chunks = n + 1 /\ v.recs = w.recs + Len(w.rec)
  BY FlushFields
<1>7. /\ v.file \in Seq(Items) /\ Len(v.file) = Len(w.file) + 1 + 2 * NCols(w)
      /\ \A i \in 1 .. Len(w.file) : v.file[i] = w.file[i]
      /\ v.file[Len(w.file) + 1] = Hdr(w)
      /\ \A i \in 1 .. NCols(w) : /\ v.file[Len(w.file) + 1 + i] = Col(w, i)
                                  /\ v.file[Len(w.file) + 1 + NCols(w) + i] = Body(w, i)
  BY FlushFile
<1>8. /\ e0.at = d.at + 1 + 2 * NCols(d) /\ e0.r = d.r + Len(d.rec) /\ e0.e = d.e + Len(d.eidx)
      /\ e0.a = d.a + Len(d.st) /\ e0.rec = <<>> /\ e0.eidx = <<>> /\ e0.edat = <<>> /\ e0.st = <<>>
  OBVIOUS
<1>9. IsChunk(e0)
  <2> HIDE DEF d, e0
  <2>1. HasColumns(e0)
    BY <1>8 DEF HasColumns
  <2>2. e0.at \in Nat /\ e0.r \in Nat /\ e0.e \in Nat /\ e0.a \in Nat
    <3>1. \A x, y \in Nat : x + 1 + 2 * y \in Nat /\ x + y \in Nat
      OBVIOUS
    <3> QED BY <1>4, <1>5, <1>8, <3>1, Zenon
  <2> QED BY <2>1, <2>2 DEF IsChunk
<1>10. Holds(e0, h)
  <2> HIDE DEF d, e0
  <2>1. Len(<<>>) = 0
    OBVIOUS
  <2>2. /\ d.r + Len(d.rec) <= Len(h.recs) /\ d.e + Len(d.eidx) <= Len(h.exc)
        /\ d.a + Len(d.st) <= Len(h.st)
    BY <1>2 DEF Holds
  <2> QED BY <1>4, <1>8, <2>1, <2>2 DEF Holds
<1>11. L[n + 2] = e0 /\ \A j \in 1 .. n + 1 : L[j] = K[j]
  <2> HIDE DEF d, e0, n
  <2> QED BY <1>1
<1> HIDE DEF d, e0, L, v, n
<1>12. L[n + 1] = d /\ (n + 1) + 1 = n + 2 /\ n + 1 \in Nat
  BY <1>1, <1>11 DEF d
<1>13. Chain(L, n + 1, h)
  <2>1. ASSUME NEW j \in 1 .. (n + 1) + 1
        PROVE  IsChunk(L[j]) /\ Holds(L[j], h)
    <3>1. CASE j = n + 2
      BY <1>9, <1>10, <1>11, <3>1
    <3>2. CASE j # n + 2
      <4>1. j \in 1 .. n + 1
        BY <1>1, <3>2
      <4> QED BY <1>1, <1>11, <4>1 DEF Chain
    <3> QED BY <3>1, <3>2
  <2>2. ASSUME NEW j \in 1 .. n + 1
        PROVE  After(L[j], L[j + 1]) /\ L[j].rec # <<>>
    <3>1. CASE j = n + 1
      <4>1. After(d, e0)
        BY <1>8 DEF After
      <4> QED BY <1>3, <1>11, <1>12, <3>1, <4>1
    <3>2. CASE j # n + 1
      <4>1. j \in 1 .. n /\ j \in 1 .. n + 1 /\ j + 1 \in 1 .. n + 1
        BY <1>1, <3>2
      <4>2. L[j] = K[j] /\ L[j + 1] = K[j + 1]
        BY <1>11, <4>1
      <4> QED BY <1>1, <4>1, <4>2 DEF Chain
    <3> QED BY <3>1, <3>2
  <2>3. L[1] = K[1]
    BY <1>1, <1>11
  <2> QED BY <1>1, <2>1, <2>2, <2>3 DEF Chain
<1>14. Pending(v, h, e0)
  <2>1. Len(<<>>) = 0
    OBVIOUS
  <2>2. /\ d.r + Len(w.rec) = Len(h.recs) /\ d.e + Len(w.eidx) = Len(h.exc) /\ d.a + Len(w.st) = Len(h.st)
    BY <1>1 DEF Pending
  <2> QED BY <1>3, <1>4, <1>6, <1>8, <2>1, <2>2 DEF Pending
<1>15. Len(w.file) \in Nat /\ Len(w.file) >= 1 /\ Len(v.file) \in Nat
  <2>1. n + 1 \in 1 .. n + 1
    BY <1>1
  <2>2. d.at >= 2
    BY <1>1, <2>1, ChainOrder DEF d
  <2>3. Len(w.file) \in Nat /\ Len(v.file) \in Nat
    BY <1>7, LenProperties DEF IsWriter
  <2> QED BY <1>1, <1>4, <2>2, <2>3
<1>16. FileOf(v.file, L, n + 1)
  <2>1. v.file[1] = Magic
    <3>1. w.file # <<>>
      BY <1>15
    <3>2. w.file[1] = Magic
      BY <1>1, <3>1 DEF FileOf
    <3> QED BY <1>7, <1>15, <3>2
  <2>2. ASSUME NEW j \in 1 .. n + 1
        PROVE  ChunkAt(v.file, L[j].at, L[j])
    <3>1. CASE j = n + 1
      <4>1. L[j] = d /\ d.at = Len(w.file) + 1
        BY <1>1, <1>4, <1>12, <3>1
      <4>2. ChunkAt(v.file, d.at, d)
        BY <1>5, <1>7, <4>1 DEF ChunkAt
      <4> QED BY <4>1, <4>2
    <3>2. CASE j # n + 1
      <4>1. j \in 1 .. n
        BY <1>1, <3>2
      <4>2. L[j] = K[j] /\ IsChunk(K[j]) /\ ChunkAt(w.file, K[j].at, K[j])
        BY <1>1, <1>11, <4>1 DEF Chain, FileOf
      <4>3. K[j].at >= 2 /\ K[j].at + 1 + 2 * NCols(K[j]) <= d.at
        <5>1. j \in 1 .. n + 1 /\ n + 1 \in 1 .. n + 1 /\ j < n + 1
          BY <1>1, <4>1
        <5> QED BY <1>1, <4>1, <5>1, ChainOrder DEF d
      <4>4. K[j].at \in Nat /\ NCols(K[j]) \in 0 .. 4
        BY <4>2, PutCols DEF IsChunk
      <4>5. K[j].at + 2 * NCols(K[j]) <= Len(w.file) /\ K[j].at >= 1
        <5>1. PICK x : x = K[j].at
          OBVIOUS
        <5>2. PICK y : y = NCols(K[j])
          OBVIOUS
        <5>3. PICK z : z = d.at
          OBVIOUS
        <5>4. x \in Nat /\ y \in Nat /\ z \in Nat /\ x >= 2 /\ x + 1 + 2 * y <= z
          BY <1>4, <4>3, <4>4, <5>1, <5>2, <5>3
        <5>5. x + 2 * y <= z - 1 /\ x >= 1
          BY <5>4
        <5> QED BY <1>1, <5>1, <5>2, <5>3, <5>5
      <4>6. ChunkAt(v.file, K[j].at, K[j])
        BY <1>7, <1>15, <4>2, <4>4, <4>5, ChunkKept
      <4> QED BY <4>2, <4>6
    <3> QED BY <3>1, <3>2
  <2> QED BY <2>1, <2>2 DEF FileOf
<1>17. Len(v.file) = e0.at - 1
  BY <1>1, <1>4, <1>5, <1>7, <1>8, <1>15
<1>18. Laid(v, h, L)
  BY <1>6, <1>11, <1>12, <1>13, <1>14, <1>16, <1>17 DEF Laid
<1> QED BY <1>11, <1>18 DEF v, n

\* the history g continues h
Extends(h, g) ==
  /\ Len(h.recs) <= Len(g.recs) /\ \A i \in 1 .. Len(h.recs) : g.recs[i] = h.recs[i]
  /\ Len(h.exc) <= Len(g.exc) /\ \A i \in 1 .. Len(h.exc) : g.exc[i] = h.exc[i]
  /\ Len(h.st) <= Len(g.st) /\ \A i \in 1 .. Len(h.st) : g.st[i] = h.st[i]

\* A chunk goes on holding its stretch when the history grows.
LEMMA HoldsKept ==
  ASSUME NEW c, NEW h, NEW g, IsChunk(c), IsHist(h), IsHist(g), Holds(c, h), Extends(h, g)
  PROVE  Holds(c, g)
<1>1. /\ Len(c.rec) \in Nat /\ Len(c.eidx) \in Nat /\ Len(c.st) \in Nat
      /\ c.r \in Nat /\ c.e \in Nat /\ c.a \in Nat
  BY LenProperties DEF IsChunk, HasColumns
<1>2. /\ Len(h.recs) \in Nat /\ Len(h.exc) \in Nat /\ Len(h.st) \in Nat
      /\ Len(g.recs) \in Nat /\ Len(g.exc) \in Nat /\ Len(g.st) \in Nat
  BY LenProperties DEF IsHist
<1>3. c.r + Len(c.rec) <= Len(g.recs) /\ \A i \in 1 .. Len(c.rec) : c.rec[i] = g.recs[c.r + i]
  <2>1. c.r + Len(c.rec) <= Len(h.recs) /\ \A i \in 1 .. Len(c.rec) : c.rec[i] = h.recs[c.r + i]
    BY DEF Holds
  <2>2. Len(h.recs) <= Len(g.recs) /\ \A i \in 1 .. Len(h.recs) : g.recs[i] = h.recs[i]
    BY DEF Extends
  <2>3. \A i \in 1 .. Len(c.rec) : c.r + i \in 1 .. Len(h.recs)
    BY <1>1, <1>2, <2>1
  <2>4. c.r + Len(c.rec) <= Len(g.recs)
    <3>1. \A x, y, z \in Nat : x <= y /\ y <= z => x <= z
      OBVIOUS
    <3>2. c.r + Len(c.rec) \in Nat
      BY <1>1
    <3> QED BY <1>2, <2>1, <2>2, <3>1, <3>2, Zenon
  <2> QED BY <2>1, <2>2, <2>3, <2>4, Zenon
<1>4. c.e + Len(c.eidx) <= Len(g.exc) /\ \A i \in 1 .. Len(c.eidx) : c.r + c.eidx[i] = g.exc[c.e + i]
  <2>1. c.e + Len(c.eidx) <= Len(h.exc) /\ \A i \in 1 .. Len(c.eidx) : c.r + c.eidx[i] = h.exc[c.e + i]
    BY DEF Holds
  <2>2. Len(h.exc) <= Len(g.exc) /\ \A i \in 1 .. Len(h.exc) : g.exc[i] = h.exc[i]
    BY DEF Extends
  <2>3. \A i \in 1 .. Len(c.eidx) : c.e + i \in 1 .. Len(h.exc)
    BY <1>1, <1>2, <2>1
  <2>4. c.e + Len(c.eidx) <= Len(g.exc)
    <3>1. \A x, y, z \in Nat : x <= y /\ y <= z => x <= z
      OBVIOUS
    <3>2. c.e + Len(c.eidx) \in Nat
      BY <1>1
    <3> QED BY <1>2, <2>1, <2>2, <3>1, <3>2, Zenon
  <2> QED BY <2>1, <2>2, <2>3, <2>4, Zenon
<1>5. c.a + Len(c.st) <= Len(g.st) /\ \A i \in 1 .. Len(c.st) : c.st[i] = g.st[c.a + i] /\ c.st[i] >= c.r
  <2>1. c.a + Len(c.st) <= Len(h.st) /\ \A i \in 1 .. Len(c.st) : c.st[i] = h.st[c.a + i] /\ c.st[i] >= c.r
    BY DEF Holds
  <2>2. Len(h.st) <= Len(g.st) /\ \A i \in 1 .. Len(h.st) : g.st[i] = h.st[i]
    BY DEF Extends
  <2>3. \A i \in 1 .. Len(c.st) : c.a + i \in 1 .. Len(h.st)
    BY <1>1, <1>2, <2>1
  <2>4. c.a + Len(c.st) <= Len(g.st)
    <3>1. \A x, y, z \in Nat : x <= y /\ y <= z => x <= z
      OBVIOUS
    <3>2. c.a + Len(c.st) \in Nat
      BY <1>1
    <3> QED BY <1>2, <2>1, <2>2, <3>1, <3>2, Zenon
  <2> QED BY <2>1, <2>2, <2>3, <2>4, Zenon
<1> QED BY <1>3, <1>4, <1>5 DEF Holds

\* the place of d with the columns of v
Amended(d, v) == [at |-> d.at, r |-> d.r, e |-> d.e, a |-> d.a,
                  rec |-> v.rec, eidx |-> v.eidx, edat |-> v.edat, st |-> v.st]

\* A change of the columns only changes the last chunk.
LEMMA AmendLaid ==
  ASSUME NEW w, NEW h, NEW K, IsWriter(w), IsHist(h), Laid(w, h, K),
         NEW v, NEW g, IsWriter(v), IsHist(g), Extends(h, g),
         v.file = w.file, v.chunks = w.chunks, v.recs = w.recs,
         Holds(Amended(K[w.chunks + 1], v), g), Pending(v, g, Amended(K[w.chunks + 1], v))
  PROVE  \E L : Laid(v, g, L) /\ \A j \in 1 .. w.chunks : L[j] = K[j]
<1> DEFINE n == w.chunks
           d == K[n + 1]
           x == Amended(d, v)
           L == [j \in 1 .. n + 1 |-> IF j = n + 1 THEN x ELSE K[j]]
<1>1. n \in Nat /\ Chain(K, n, h) /\ FileOf(w.file, K, n) /\ Len(w.file) = d.at - 1
  BY DEF Laid, IsWriter
<1>2. IsChunk(d)
  BY <1>1 DEF Chain
<1>3. x.at = d.at /\ x.r = d.r /\ x.e = d.e /\ x.a = d.a
      /\ x.rec = v.rec /\ x.eidx = v.eidx /\ x.edat = v.edat /\ x.st = v.st
  BY DEF Amended
<1>4. Holds(x, g) /\ Pending(v, g, x)
  OBVIOUS
<1> HIDE DEF x
<1>5. IsChunk(x)
  BY <1>2, <1>3 DEF IsChunk, HasColumns, IsWriter
<1>6. L[n + 1] = x /\ \A j \in 1 .. n : L[j] = K[j]
  <2> HIDE DEF d, n
  <2> QED BY <1>1
<1> HIDE DEF d, L, n
<1>7. Chain(L, n, g)
  <2>1. ASSUME NEW j \in 1 .. n + 1
        PROVE  IsChunk(L[j]) /\ Holds(L[j], g)
    <3>1. CASE j = n + 1
      BY <1>4, <1>5, <1>6, <3>1
    <3>2. CASE j # n + 1
      <4>1. j \in 1 .. n
        BY <1>1, <3>2
      <4>2. IsChunk(K[j]) /\ Holds(K[j], h)
        BY <1>1 DEF Chain
      <4> QED BY <1>6, <4>1, <4>2, HoldsKept
    <3> QED BY <3>1, <3>2
  <2>2. ASSUME NEW j \in 1 .. n
        PROVE  After(L[j], L[j + 1]) /\ L[j].rec # <<>>
    <3>0. After(K[j], K[j + 1]) /\ K[j].rec # <<>> /\ L[j] = K[j]
      BY <1>1, <1>6 DEF Chain
    <3>1. CASE j = n
      <4>1. K[j + 1] = d /\ L[j + 1] = x
        BY <1>6, <3>1 DEF d
      <4> QED BY <1>3, <3>0, <4>1 DEF After
    <3>2. CASE j # n
      <4>1. j + 1 \in 1 .. n
        BY <1>1, <3>2
      <4> QED BY <1>6, <3>0, <4>1
    <3> QED BY <3>1, <3>2
  <2>3. L[1].at = K[1].at /\ L[1].r = K[1].r /\ L[1].e = K[1].e /\ L[1].a = K[1].a
    <3>1. CASE n = 0
      BY <1>3, <1>6, <3>1 DEF d
    <3>2. CASE n # 0
      BY <1>1, <1>6, <3>2
    <3> QED BY <3>1, <3>2
  <2> QED BY <1>1, <2>1, <2>2, <2>3 DEF Chain
<1>8. FileOf(v.file, L, n)
  BY <1>1, <1>6 DEF FileOf
<1>9. Laid(v, g, L)
  BY <1>1, <1>3, <1>4, <1>6, <1>7, <1>8 DEF Laid, n
<1> QED BY <1>6, <1>9 DEF n

-----------------------------------------------------------------------------
(* Each call of the writer keeps up with the history. *)

\* a sequence and its last element
LEMMA AppendFacts ==
  ASSUME NEW S, NEW s \in Seq(S), NEW x \in S
  PROVE  /\ Append(s, x) \in Seq(S) /\ Len(s) \in Nat /\ Len(Append(s, x)) = Len(s) + 1
         /\ \A i \in 1 .. Len(s) : Append(s, x)[i] = s[i]
         /\ Append(s, x)[Len(s) + 1] = x
  BY AppendProperties, LenProperties

\* positions of a sequence that stands at the end of another
LEMMA AtEnd ==
  /\ \A o, s, t \in Nat : o + s = t => /\ \A i \in 1 .. s : o + i \in 1 .. t
                                      /\ o + (s + 1) = t + 1
  /\ \A s \in Nat : \A i \in 1 .. s + 1 : i \in 1 .. s \/ i = s + 1
  OBVIOUS

\* add_store extends the pending chunk by the store just appended to the history.
LEMMA AddStoreOk ==
  ASSUME NEW w, NEW h, WriterOk(w, h), NEW g,
         g = [recs |-> h.recs, st |-> Append(h.st, Len(h.recs)), exc |-> h.exc]
  PROVE  WriterOk(add_store(w, Len(h.recs)), g)
<1> DEFINE m == Len(h.recs)
           v == add_store(w, m)
<1>1. IsWriter(w) /\ IsHist(h) /\ HasColumns(w) /\ w.raw = h.recs /\ Len(w.rec) < ChunkRecs /\ IndexOk(w)
  BY DEF WriterOk, IsWriter
<1>2. PICK K : Laid(w, h, K) /\ FullChunks(K, w.chunks)
  BY DEF WriterOk
<1>3. m \in Nat /\ w.st \in Seq(Nat) /\ h.st \in Seq(Nat)
  BY <1>1, LenProperties DEF IsHist, HasColumns
<1> HIDE DEF m
<1>4. /\ DOMAIN v = DOMAIN w /\ v.st = Append(w.st, m) /\ v.rec = w.rec /\ v.eidx = w.eidx /\ v.edat = w.edat
      /\ v.file = w.file /\ v.raw = w.raw /\ v.chunks = w.chunks /\ v.recs = w.recs
  BY <1>1 DEF add_store, IsWriter
<1> HIDE DEF v
<1>5. /\ v.st \in Seq(Nat) /\ Len(v.st) = Len(w.st) + 1 /\ Len(w.st) \in Nat
      /\ \A i \in 1 .. Len(w.st) : v.st[i] = w.st[i]
      /\ v.st[Len(w.st) + 1] = m
  BY <1>3, <1>4, AppendFacts
<1>6. IsWriter(v)
  BY <1>1, <1>4, <1>5 DEF IsWriter, HasColumns
<1>7. g.recs = h.recs /\ g.exc = h.exc /\ g.st = Append(h.st, m) /\ DOMAIN g = {"recs", "st", "exc"}
  BY DEF m
<1>8. /\ g.st \in Seq(Nat) /\ Len(g.st) = Len(h.st) + 1 /\ Len(h.st) \in Nat
      /\ \A i \in 1 .. Len(h.st) : g.st[i] = h.st[i]
      /\ g.st[Len(h.st) + 1] = m
  BY <1>3, <1>7, AppendFacts
<1>9. IsHist(g)
  BY <1>1, <1>7, <1>8 DEF IsHist
<1>10. Extends(h, g)
  <2>1. Len(h.recs) \in Nat /\ Len(h.exc) \in Nat
    BY <1>1, LenProperties DEF IsHist
  <2> QED BY <1>7, <1>8, <2>1 DEF Extends
<1> DEFINE d == K[w.chunks + 1]
           x == Amended(d, v)
<1>11. Chain(K, w.chunks, h) /\ Pending(w, h, d) /\ w.chunks \in Nat
  BY <1>1, <1>2 DEF Laid, IsWriter
<1>12. IsChunk(d) /\ Holds(d, h)
  BY <1>11 DEF Chain
<1>13. /\ d.rec = w.rec /\ d.eidx = w.eidx /\ d.edat = w.edat /\ d.st = w.st
       /\ d.r + Len(w.rec) = Len(h.recs) /\ d.e + Len(w.eidx) = Len(h.exc)
       /\ d.a + Len(w.st) = Len(h.st) /\ w.recs = d.r
  BY <1>11 DEF Pending
<1>14. x.at = d.at /\ x.r = d.r /\ x.e = d.e /\ x.a = d.a
       /\ x.rec = w.rec /\ x.eidx = w.eidx /\ x.edat = w.edat /\ x.st = v.st
  BY <1>4 DEF Amended
<1>15. d.r \in Nat /\ d.a \in Nat /\ Len(w.rec) \in Nat
  BY <1>1, <1>12, LenProperties DEF IsChunk, HasColumns
<1> HIDE DEF d, x
<1>16. Holds(x, g)
  <2>1. x.r + Len(x.rec) <= Len(g.recs) /\ \A i \in 1 .. Len(x.rec) : x.rec[i] = g.recs[x.r + i]
    BY <1>7, <1>12, <1>13, <1>14 DEF Holds
  <2>2. x.e + Len(x.eidx) <= Len(g.exc) /\ \A i \in 1 .. Len(x.eidx) : x.r + x.eidx[i] = g.exc[x.e + i]
    BY <1>7, <1>12, <1>13, <1>14 DEF Holds
  <2>3. x.a + Len(x.st) <= Len(g.st)
    BY <1>5, <1>8, <1>13, <1>14, <1>15
  <2>4. ASSUME NEW i \in 1 .. Len(x.st)
        PROVE  x.st[i] = g.st[x.a + i] /\ x.st[i] >= x.r
    <3>1. CASE i \in 1 .. Len(w.st)
      <4>1. d.a + i \in 1 .. Len(h.st)
        BY <1>5, <1>8, <1>13, <1>15, <3>1, AtEnd, Zenon
      <4>2. w.st[i] = h.st[d.a + i] /\ w.st[i] >= d.r
        BY <1>12, <1>13, <3>1 DEF Holds
      <4>3. g.st[d.a + i] = h.st[d.a + i] /\ v.st[i] = w.st[i]
        BY <1>5, <1>8, <3>1, <4>1
      <4> QED BY <1>14, <4>2, <4>3
    <3>2. CASE i = Len(w.st) + 1
      <4>1. d.a + i = Len(h.st) + 1
        BY <1>5, <1>8, <1>13, <1>15, <3>2, AtEnd, Zenon
      <4>2. v.st[i] = m /\ g.st[d.a + i] = m
        BY <1>5, <1>8, <3>2, <4>1
      <4>3. m >= d.r
        BY <1>13, <1>15 DEF m
      <4> QED BY <1>14, <4>2, <4>3
    <3> QED BY <1>5, <1>14, <2>4, <3>1, <3>2, AtEnd, Zenon
  <2> QED BY <2>1, <2>2, <2>3, <2>4 DEF Holds
<1>17. Pending(v, g, x)
  <2>0. d.a + (Len(w.st) + 1) = Len(h.st) + 1
    BY <1>5, <1>8, <1>13, <1>15, AtEnd, Zenon
  <2>1. x.a + Len(v.st) = Len(g.st)
    BY <1>5, <1>8, <1>14, <2>0
  <2> QED BY <1>4, <1>7, <1>13, <1>14, <2>1 DEF Pending
<1>18. PICK L : Laid(v, g, L) /\ \A j \in 1 .. w.chunks : L[j] = K[j]
  <2>1. Holds(Amended(K[w.chunks + 1], v), g) /\ Pending(v, g, Amended(K[w.chunks + 1], v))
    BY <1>16, <1>17 DEF d, x
  <2>2. v.file = w.file /\ v.chunks = w.chunks /\ v.recs = w.recs
    BY <1>4
  <2> QED BY <1>1, <1>2, <1>6, <1>9, <1>10, <2>1, <2>2, AmendLaid
<1>19. FullChunks(L, v.chunks)
  BY <1>2, <1>4, <1>18 DEF FullChunks
<1>20. IndexOk(v)
  <2>1. ASSUME NEW i \in 1 .. Len(v.st)
        PROVE  v.st[i] <= v.recs + Len(v.rec)
    <3>1. CASE i \in 1 .. Len(w.st)
      BY <1>1, <1>4, <1>5, <3>1 DEF IndexOk
    <3>2. CASE i = Len(w.st) + 1
      <4>1. m = w.recs + Len(w.rec)
        BY <1>13 DEF m
      <4> QED BY <1>3, <1>4, <1>5, <3>2, <4>1
    <3> QED BY <1>5, <3>1, <3>2
  <2> QED BY <1>1, <1>4, <2>1 DEF IndexOk
<1> QED BY <1>1, <1>4, <1>6, <1>7, <1>9, <1>18, <1>19, <1>20 DEF WriterOk, v, m

\* add_exception extends the pending chunk by the exception, flushing first or not.
LEMMA AddExcOk ==
  ASSUME NEW w, NEW h, WriterOk(w, h), NEW g,
         g = [recs |-> h.recs, st |-> h.st, exc |-> Append(h.exc, Len(h.recs))]
  PROVE  WriterOk(add_exception(w, Len(h.recs)), g)
<1> DEFINE m == Len(h.recs)
           v == add_exception(w, m)
<1>1. IsWriter(w) /\ IsHist(h) /\ HasColumns(w) /\ w.raw = h.recs /\ Len(w.rec) < ChunkRecs /\ IndexOk(w)
  BY DEF WriterOk, IsWriter
<1>2. PICK K : Laid(w, h, K) /\ FullChunks(K, w.chunks)
  BY DEF WriterOk
<1>3. m \in Nat /\ w.eidx \in Seq(Nat) /\ w.edat \in Seq(Nat) /\ h.exc \in Seq(Nat) /\ Len(w.rec) \in Nat
      /\ Len(w.eidx) = Len(w.edat)
  BY <1>1, LenProperties DEF IsHist, HasColumns
<1> HIDE DEF m
<1>4. /\ DOMAIN v = DOMAIN w /\ v.st = w.st /\ v.rec = w.rec
      /\ v.eidx = Append(w.eidx, Len(w.rec)) /\ v.edat = Append(w.edat, m)
      /\ v.file = w.file /\ v.raw = w.raw /\ v.chunks = w.chunks /\ v.recs = w.recs
  BY <1>1 DEF add_exception, IsWriter
<1> HIDE DEF v
<1>5. /\ v.eidx \in Seq(Nat) /\ Len(v.eidx) = Len(w.eidx) + 1 /\ Len(w.eidx) \in Nat
      /\ \A i \in 1 .. Len(w.eidx) : v.eidx[i] = w.eidx[i]
      /\ v.eidx[Len(w.eidx) + 1] = Len(w.rec)
  BY <1>3, <1>4, AppendFacts
<1>55. v.edat \in Seq(Nat) /\ Len(v.edat) = Len(w.edat) + 1
  BY <1>3, <1>4, AppendFacts
<1>6. IsWriter(v)
  BY <1>1, <1>3, <1>4, <1>5, <1>55 DEF IsWriter, HasColumns
<1>7. g.recs = h.recs /\ g.st = h.st /\ g.exc = Append(h.exc, m) /\ DOMAIN g = {"recs", "st", "exc"}
  BY DEF m
<1>8. /\ g.exc \in Seq(Nat) /\ Len(g.exc) = Len(h.exc) + 1 /\ Len(h.exc) \in Nat
      /\ \A i \in 1 .. Len(h.exc) : g.exc[i] = h.exc[i]
      /\ g.exc[Len(h.exc) + 1] = m
  BY <1>3, <1>7, AppendFacts
<1>9. IsHist(g)
  BY <1>1, <1>7, <1>8 DEF IsHist
<1>10. Extends(h, g)
  <2>1. Len(h.recs) \in Nat /\ Len(h.st) \in Nat
    BY <1>1, LenProperties DEF IsHist
  <2> QED BY <1>7, <1>8, <2>1 DEF Extends
<1> DEFINE d == K[w.chunks + 1]
           x == Amended(d, v)
<1>11. Chain(K, w.chunks, h) /\ Pending(w, h, d) /\ w.chunks \in Nat
  BY <1>1, <1>2 DEF Laid, IsWriter
<1>12. IsChunk(d) /\ Holds(d, h)
  BY <1>11 DEF Chain
<1>13. /\ d.rec = w.rec /\ d.eidx = w.eidx /\ d.edat = w.edat /\ d.st = w.st
       /\ d.r + Len(w.rec) = Len(h.recs) /\ d.e + Len(w.eidx) = Len(h.exc)
       /\ d.a + Len(w.st) = Len(h.st) /\ w.recs = d.r
  BY <1>11 DEF Pending
<1>14. x.at = d.at /\ x.r = d.r /\ x.e = d.e /\ x.a = d.a
       /\ x.rec = w.rec /\ x.eidx = v.eidx /\ x.edat = v.edat /\ x.st = w.st
  BY <1>4 DEF Amended
<1>15. d.r \in Nat /\ d.e \in Nat /\ Len(w.rec) \in Nat
  BY <1>1, <1>12, LenProperties DEF IsChunk, HasColumns
<1> HIDE DEF d, x
<1>16. Holds(x, g)
  <2>1. x.r + Len(x.rec) <= Len(g.recs) /\ \A i \in 1 .. Len(x.rec) : x.rec[i] = g.recs[x.r + i]
    BY <1>7, <1>12, <1>13, <1>14 DEF Holds
  <2>2. x.a + Len(x.st) <= Len(g.st) /\ \A i \in 1 .. Len(x.st) : x.st[i] = g.st[x.a + i] /\ x.st[i] >= x.r
    BY <1>7, <1>12, <1>13, <1>14 DEF Holds
  <2>3. x.e + Len(x.eidx) <= Len(g.exc)
    BY <1>5, <1>8, <1>13, <1>14, <1>15
  <2>4. ASSUME NEW i \in 1 .. Len(x.eidx)
        PROVE  x.r + x.eidx[i] = g.exc[x.e + i]
    <3>1. CASE i \in 1 .. Len(w.eidx)
      <4>1. d.e + i \in 1 .. Len(h.exc)
        BY <1>5, <1>8, <1>13, <1>15, <3>1, AtEnd, Zenon
      <4>2. d.r + w.eidx[i] = h.exc[d.e + i]
        BY <1>12, <1>13, <3>1 DEF Holds
      <4>3. g.exc[d.e + i] = h.exc[d.e + i] /\ v.eidx[i] = w.eidx[i]
        BY <1>5, <1>8, <3>1, <4>1
      <4> QED BY <1>14, <4>2, <4>3
    <3>2. CASE i = Len(w.eidx) + 1
      <4>1. d.e + i = Len(h.exc) + 1
        BY <1>5, <1>8, <1>13, <1>15, <3>2, AtEnd, Zenon
      <4>2. v.eidx[i] = Len(w.rec) /\ g.exc[d.e + i] = m
        BY <1>5, <1>8, <3>2, <4>1
      <4>3. m = d.r + Len(w.rec)
        BY <1>13 DEF m
      <4> QED BY <1>14, <4>2, <4>3
    <3> QED BY <1>5, <1>14, <2>4, <3>1, <3>2, AtEnd, Zenon
  <2> QED BY <2>1, <2>2, <2>3, <2>4 DEF Holds
<1>17. Pending(v, g, x)
  <2>0. d.e + (Len(w.eidx) + 1) = Len(h.exc) + 1
    BY <1>5, <1>8, <1>13, <1>15, AtEnd, Zenon
  <2>1. x.e + Len(v.eidx) = Len(g.exc)
    BY <1>5, <1>8, <1>14, <2>0
  <2> QED BY <1>4, <1>7, <1>13, <1>14, <2>1 DEF Pending
<1>18. PICK L : Laid(v, g, L) /\ \A j \in 1 .. w.chunks : L[j] = K[j]
  <2>1. Holds(Amended(K[w.chunks + 1], v), g) /\ Pending(v, g, Amended(K[w.chunks + 1], v))
    BY <1>16, <1>17 DEF d, x
  <2>2. v.file = w.file /\ v.chunks = w.chunks /\ v.recs = w.recs
    BY <1>4
  <2> QED BY <1>1, <1>2, <1>6, <1>9, <1>10, <2>1, <2>2, AmendLaid
<1>19. FullChunks(L, v.chunks)
  BY <1>2, <1>4, <1>18 DEF FullChunks
<1>20. IndexOk(v)
  <2>1. ASSUME NEW i \in 1 .. Len(v.eidx)
        PROVE  v.eidx[i] <= Len(v.rec)
    <3>1. CASE i \in 1 .. Len(w.eidx)
      BY <1>1, <1>4, <1>5, <3>1 DEF IndexOk
    <3>2. CASE i = Len(w.eidx) + 1
      BY <1>3, <1>4, <1>5, <3>2
    <3> QED BY <1>5, <3>1, <3>2
  <2> QED BY <1>1, <1>4, <2>1 DEF IndexOk
<1> QED BY <1>1, <1>4, <1>6, <1>7, <1>9, <1>18, <1>19, <1>20 DEF WriterOk, v, m

\* what add does before it asks whether the chunk is full
Held(w, r) == [w EXCEPT !.rec = Append(@, r), !.raw = Append(@, r)]

\* add extends the pending chunk by one record and flushes it when it is full.
LEMMA AddOk ==
  ASSUME NEW w, NEW h, WriterOk(w, h), NEW r \in Rec, NEW g,
         g = [recs |-> Append(h.recs, r), st |-> h.st, exc |-> h.exc]
  PROVE  WriterOk(add(w, r), g)
<1> DEFINE v == Held(w, r)
<1>1. IsWriter(w) /\ IsHist(h) /\ HasColumns(w) /\ w.raw = h.recs /\ Len(w.rec) < ChunkRecs /\ IndexOk(w)
  BY DEF WriterOk, IsWriter
<1>2. PICK K : Laid(w, h, K) /\ FullChunks(K, w.chunks)
  BY DEF WriterOk
<1>3. w.rec \in Seq(Rec) /\ w.raw \in Seq(Rec) /\ h.recs \in Seq(Rec) /\ w.eidx \in Seq(Nat)
  BY <1>1 DEF IsHist, HasColumns, IsWriter
<1>4. /\ DOMAIN v = DOMAIN w /\ v.st = w.st /\ v.rec = Append(w.rec, r) /\ v.eidx = w.eidx /\ v.edat = w.edat
      /\ v.file = w.file /\ v.raw = Append(w.raw, r) /\ v.chunks = w.chunks /\ v.recs = w.recs
  BY <1>1 DEF Held, IsWriter
<1>44. add(w, r) = IF Len(v.rec) >= ChunkRecs THEN flush_chunk(v) ELSE v
  BY DEF add, Held
<1> HIDE DEF v
<1>5. /\ v.rec \in Seq(Rec) /\ Len(v.rec) = Len(w.rec) + 1 /\ Len(w.rec) \in Nat
      /\ \A i \in 1 .. Len(w.rec) : v.rec[i] = w.rec[i]
      /\ v.rec[Len(w.rec) + 1] = r
  BY <1>3, <1>4, AppendFacts
<1>55. v.raw \in Seq(Rec)
  BY <1>3, <1>4, AppendFacts
<1>6. IsWriter(v)
  BY <1>1, <1>4, <1>5, <1>55 DEF IsWriter, HasColumns
<1>7. g.recs = Append(h.recs, r) /\ g.st = h.st /\ g.exc = h.exc /\ DOMAIN g = {"recs", "st", "exc"}
  OBVIOUS
<1>77. v.raw = g.recs
  BY <1>1, <1>4, <1>7
<1>8. /\ g.recs \in Seq(Rec) /\ Len(g.recs) = Len(h.recs) + 1 /\ Len(h.recs) \in Nat
      /\ \A i \in 1 .. Len(h.recs) : g.recs[i] = h.recs[i]
      /\ g.recs[Len(h.recs) + 1] = r
  BY <1>3, <1>7, AppendFacts
<1>9. IsHist(g)
  BY <1>1, <1>7, <1>8 DEF IsHist
<1>10. Extends(h, g)
  <2>1. Len(h.exc) \in Nat /\ Len(h.st) \in Nat
    BY <1>1, LenProperties DEF IsHist
  <2> QED BY <1>7, <1>8, <2>1 DEF Extends
<1> DEFINE d == K[w.chunks + 1]
           x == Amended(d, v)
<1>11. Chain(K, w.chunks, h) /\ Pending(w, h, d) /\ w.chunks \in Nat
  BY <1>1, <1>2 DEF Laid, IsWriter
<1>12. IsChunk(d) /\ Holds(d, h)
  BY <1>11 DEF Chain
<1>13. /\ d.rec = w.rec /\ d.eidx = w.eidx /\ d.edat = w.edat /\ d.st = w.st
       /\ d.r + Len(w.rec) = Len(h.recs) /\ d.e + Len(w.eidx) = Len(h.exc)
       /\ d.a + Len(w.st) = Len(h.st) /\ w.recs = d.r
  BY <1>11 DEF Pending
<1>14. x.at = d.at /\ x.r = d.r /\ x.e = d.e /\ x.a = d.a
       /\ x.rec = v.rec /\ x.eidx = w.eidx /\ x.edat = w.edat /\ x.st = w.st
  BY <1>4 DEF Amended
<1>15. d.r \in Nat
  BY <1>12 DEF IsChunk
<1> HIDE DEF d, x
<1>16. Holds(x, g)
  <2>1. x.e + Len(x.eidx) <= Len(g.exc) /\ \A i \in 1 .. Len(x.eidx) : x.r + x.eidx[i] = g.exc[x.e + i]
    BY <1>7, <1>12, <1>13, <1>14 DEF Holds
  <2>2. x.a + Len(x.st) <= Len(g.st) /\ \A i \in 1 .. Len(x.st) : x.st[i] = g.st[x.a + i] /\ x.st[i] >= x.r
    BY <1>7, <1>12, <1>13, <1>14 DEF Holds
  <2>3. x.r + Len(x.rec) <= Len(g.recs)
    BY <1>5, <1>8, <1>13, <1>14, <1>15
  <2>4. ASSUME NEW i \in 1 .. Len(x.rec)
        PROVE  x.rec[i] = g.recs[x.r + i]
    <3>1. CASE i \in 1 .. Len(w.rec)
      <4>1. d.r + i \in 1 .. Len(h.recs)
        BY <1>5, <1>8, <1>13, <1>15, <3>1, AtEnd, Zenon
      <4>2. w.rec[i] = h.recs[d.r + i]
        BY <1>12, <1>13, <3>1 DEF Holds
      <4>3. g.recs[d.r + i] = h.recs[d.r + i] /\ v.rec[i] = w.rec[i]
        BY <1>5, <1>8, <3>1, <4>1
      <4> QED BY <1>14, <4>2, <4>3
    <3>2. CASE i = Len(w.rec) + 1
      <4>1. d.r + i = Len(h.recs) + 1
        BY <1>5, <1>8, <1>13, <1>15, <3>2, AtEnd, Zenon
      <4>2. v.rec[i] = r /\ g.recs[d.r + i] = r
        BY <1>5, <1>8, <3>2, <4>1
      <4> QED BY <1>14, <4>2
    <3> QED BY <1>5, <1>14, <2>4, <3>1, <3>2, AtEnd, Zenon
  <2> QED BY <2>1, <2>2, <2>3, <2>4 DEF Holds
<1>17. Pending(v, g, x)
  <2>0. d.r + (Len(w.rec) + 1) = Len(h.recs) + 1
    BY <1>5, <1>8, <1>13, <1>15, AtEnd, Zenon
  <2>1. x.r + Len(v.rec) = Len(g.recs)
    BY <1>5, <1>8, <1>14, <2>0
  <2> QED BY <1>4, <1>7, <1>13, <1>14, <2>1 DEF Pending
<1>18. PICK L : Laid(v, g, L) /\ \A j \in 1 .. w.chunks : L[j] = K[j]
  <2>1. Holds(Amended(K[w.chunks + 1], v), g) /\ Pending(v, g, Amended(K[w.chunks + 1], v))
    BY <1>16, <1>17 DEF d, x
  <2>2. v.file = w.file /\ v.chunks = w.chunks /\ v.recs = w.recs
    BY <1>4
  <2> QED BY <1>1, <1>2, <1>6, <1>9, <1>10, <2>1, <2>2, AmendLaid
<1>19. FullChunks(L, v.chunks)
  BY <1>2, <1>4, <1>18 DEF FullChunks
<1>0. ChunkRecs \in Nat
  BY TracesAssumption
<1>22. /\ \A i \in 1 .. Len(v.eidx) : v.eidx[i] \in Nat /\ v.eidx[i] < Len(v.rec)
       /\ \A i \in 1 .. Len(v.st) : v.st[i] \in Nat /\ v.st[i] < v.recs + Len(v.rec)
       /\ v.recs \in Nat
  <2>1. w.st \in Seq(Nat) /\ w.recs \in Nat
    BY <1>1 DEF HasColumns, IsWriter
  <2>2. ASSUME NEW i \in 1 .. Len(v.eidx)
        PROVE  v.eidx[i] \in Nat /\ v.eidx[i] < Len(v.rec)
    <3>1. v.eidx[i] \in Nat
      BY <1>3, <1>4, ElementOfSeq
    <3>2. v.eidx[i] <= Len(w.rec)
      BY <1>1, <1>4 DEF IndexOk
    <3> QED BY <1>5, <3>1, <3>2
  <2>3. ASSUME NEW i \in 1 .. Len(v.st)
        PROVE  v.st[i] \in Nat /\ v.st[i] < v.recs + Len(v.rec)
    <3>1. v.st[i] \in Nat
      BY <1>4, <2>1, ElementOfSeq
    <3>2. v.st[i] <= w.recs + Len(w.rec)
      BY <1>1, <1>4 DEF IndexOk
    <3>3. PICK m, y, z : m = v.st[i] /\ y = w.recs /\ z = Len(w.rec)
      OBVIOUS
    <3>4. m \in Nat /\ y \in Nat /\ z \in Nat /\ m <= y + z
      BY <1>5, <2>1, <3>1, <3>2, <3>3
    <3>5. m < y + (z + 1)
      BY <3>4
    <3> QED BY <1>4, <1>5, <3>1, <3>3, <3>5
  <2> QED BY <1>4, <2>1, <2>2, <2>3
<1>20. CASE ~(Len(v.rec) >= ChunkRecs)
  <2>1. IndexOk(v)
    <3>1. \A i \in 1 .. Len(v.eidx) : v.eidx[i] <= Len(v.rec)
      BY <1>5, <1>22
    <3>2. \A i \in 1 .. Len(v.st) : v.st[i] <= v.recs + Len(v.rec)
      BY <1>5, <1>22
    <3> QED BY <3>1, <3>2 DEF IndexOk
  <2>2. Len(v.rec) < ChunkRecs
    BY <1>0, <1>5, <1>20
  <2>3. WriterOk(v, g)
    BY <1>6, <1>77, <1>9, <1>18, <1>19, <2>1, <2>2 DEF WriterOk
  <2> QED BY <1>20, <1>44, <2>3
<1>21. CASE Len(v.rec) >= ChunkRecs
  <2> DEFINE u == flush_chunk(v)
  <2>1. Len(v.rec) = ChunkRecs
    BY <1>0, <1>1, <1>5, <1>21
  <2>2. v.rec # <<>>
    BY <1>5
  <2>3. PICK M : Laid(u, g, M) /\ \A j \in 1 .. v.chunks + 1 : M[j] = L[j]
    BY <1>6, <1>9, <1>18, <2>2, FlushLaid
  <2>4. IsWriter(u) /\ u.rec = <<>> /\ u.eidx = <<>> /\ u.st = <<>>
    BY <1>6, FlushFields
  <2>5. u.raw = v.raw /\ u.chunks = v.chunks + 1
    BY <1>6, FlushFields
  <2> HIDE DEF u
  <2>6. v.chunks \in Nat
    BY <1>6 DEF IsWriter
  <2>7. Full(L[v.chunks + 1])
    <3> DEFINE y == L[v.chunks + 1]
    <3>1. y.rec = v.rec /\ y.eidx = v.eidx /\ y.st = v.st /\ v.recs = y.r
      BY <1>18 DEF Laid, Pending
    <3> HIDE DEF y
    <3>2. Full(y)
      BY <1>22, <2>1, <3>1 DEF Full
    <3> QED BY <3>2 DEF y
  <2>8. FullChunks(M, u.chunks)
    <3>1. ASSUME NEW j \in 1 .. v.chunks + 1
          PROVE  Full(M[j])
      <4>1. CASE j = v.chunks + 1
        BY <2>3, <2>7, <4>1
      <4>2. CASE j \in 1 .. v.chunks
        BY <1>19, <2>3, <4>2 DEF FullChunks
      <4> QED BY <2>6, <4>1, <4>2
    <3> QED BY <2>5, <3>1 DEF FullChunks
  <2>9. Len(u.rec) < ChunkRecs /\ IndexOk(u)
    <3>1. Len(u.rec) = 0 /\ Len(u.eidx) = 0 /\ Len(u.st) = 0
      BY <2>4
    <3>2. 0 < ChunkRecs
      BY TracesAssumption
    <3> QED BY <3>1, <3>2 DEF IndexOk
  <2>10. WriterOk(u, g)
    BY <1>77, <1>9, <2>3, <2>4, <2>5, <2>8, <2>9 DEF WriterOk
  <2> QED BY <1>21, <1>44, <2>10 DEF u
<1> QED BY <1>20, <1>21

\* only what is recorded of the history counts
LEMMA SameHist ==
  ASSUME NEW w, NEW h, WriterOk(w, h), NEW g, IsHist(g),
         g.recs = h.recs, g.st = h.st, g.exc = h.exc
  PROVE  WriterOk(w, g)
<1>1. PICK K : Laid(w, h, K) /\ FullChunks(K, w.chunks)
  BY DEF WriterOk
<1>2. \A c : Holds(c, h) => Holds(c, g)
  BY DEF Holds
<1>3. Chain(K, w.chunks, g)
  BY <1>1, <1>2 DEF Laid, Chain
<1>4. Pending(w, g, K[w.chunks + 1])
  BY <1>1 DEF Laid, Pending
<1>5. Laid(w, g, K)
  BY <1>1, <1>3, <1>4 DEF Laid
<1> QED BY <1>1, <1>5 DEF WriterOk

\* a sequence followed by at most two elements
LEMMA ConcatTwo ==
  ASSUME NEW S, NEW s \in Seq(S), NEW t \in Seq(S)
  PROVE  /\ Len(t) = 0 => s \o t = s
         /\ Len(t) = 1 => s \o t = Append(s, t[1])
         /\ Len(t) = 2 => s \o t = Append(Append(s, t[1]), t[2])
<1> DEFINE n == Len(s)
           x == s \o t
<1>1. /\ x \in Seq(S) /\ Len(x) = n + Len(t) /\ n \in Nat /\ Len(t) \in Nat
      /\ \A i \in 1 .. n + Len(t) : x[i] = IF i <= n THEN s[i] ELSE t[i - n]
  BY ConcatProperties, LenProperties
<1>2. \A i \in 1 .. Len(t) : t[i] \in S
  BY ElementOfSeq
<1> HIDE DEF x
<1>3. ASSUME Len(t) = 0
      PROVE  x = s
  BY <1>1, <1>3, SeqEqual
<1>4. ASSUME Len(t) = 1
      PROVE  x = Append(s, t[1])
  <2> DEFINE y == Append(s, t[1])
  <2>1. /\ y \in Seq(S) /\ Len(y) = n + 1 /\ (\A i \in 1 .. n : y[i] = s[i]) /\ y[n + 1] = t[1]
    BY <1>2, <1>4, AppendFacts
  <2> HIDE DEF y, n
  <2>2. x[n + 1] = t[1]
    <3>1. n + 1 \in 1 .. n + Len(t) /\ ~(n + 1 <= n) /\ (n + 1) - n = 1
      BY <1>1, <1>4
    <3> QED BY <1>1, <3>1
  <2>3. \A i \in 1 .. n + 1 : x[i] = y[i]
    BY <1>1, <1>4, <2>1, <2>2
  <2>4. Len(x) = n + 1
    BY <1>1, <1>4
  <2> QED BY <1>1, <2>1, <2>3, <2>4, SeqEqual DEF y
<1>5. ASSUME Len(t) = 2
      PROVE  x = Append(Append(s, t[1]), t[2])
  <2> DEFINE z == Append(s, t[1])
             y == Append(z, t[2])
  <2>0. t[1] \in S /\ t[2] \in S
    BY <1>2, <1>5
  <2>1. /\ z \in Seq(S) /\ Len(z) = n + 1 /\ (\A i \in 1 .. n : z[i] = s[i]) /\ z[n + 1] = t[1]
    BY <2>0, AppendFacts
  <2> HIDE DEF z
  <2>2. /\ y \in Seq(S) /\ Len(y) = Len(z) + 1 /\ (\A i \in 1 .. Len(z) : y[i] = z[i]) /\ y[Len(z) + 1] = t[2]
    BY <2>0, <2>1, AppendFacts
  <2> HIDE DEF y, n
  <2>3. x[n + 1] = t[1]
    <3>1. n + 1 \in 1 .. n + Len(t) /\ ~(n + 1 <= n) /\ (n + 1) - n = 1
      BY <1>1, <1>5
    <3> QED BY <1>1, <3>1
  <2>4. x[n + 2] = t[2]
    <3>1. n + 2 \in 1 .. n + Len(t) /\ ~(n + 2 <= n) /\ (n + 2) - n = 2
      BY <1>1, <1>5
    <3> QED BY <1>1, <3>1
  <2>5. y[n + 1] = t[1] /\ y[n + 2] = t[2] /\ Len(y) = n + 2
    <3>1. n + 1 \in 1 .. Len(z) /\ Len(z) + 1 = n + 2
      BY <1>1, <2>1
    <3> QED BY <2>1, <2>2, <3>1
  <2>6. ASSUME NEW i \in 1 .. n + 2
        PROVE  x[i] = y[i]
    <3>1. CASE i \in 1 .. n
      <4>1. x[i] = s[i]
        BY <1>1, <3>1
      <4>2. i \in 1 .. Len(z)
        BY <1>1, <2>1, <3>1
      <4> QED BY <2>1, <2>2, <3>1, <4>1, <4>2
    <3>2. CASE i = n + 1 \/ i = n + 2
      BY <2>3, <2>4, <2>5, <3>2
    <3> QED BY <1>1, <3>1, <3>2
  <2>7. Len(x) = n + 2
    BY <1>1, <1>5
  <2> QED BY <1>1, <2>2, <2>5, <2>6, <2>7, SeqEqual DEF y, z
<1> QED BY <1>3, <1>4, <1>5 DEF x

\* The records of one bundle, added one after another.
LEMMA AddsOk ==
  ASSUME NEW w, NEW h, WriterOk(w, h), NEW rs \in Seq(Rec), Len(rs) <= 2, NEW g,
         g = [recs |-> h.recs \o rs, st |-> h.st, exc |-> h.exc]
  PROVE  WriterOk(FoldLeft(add, w, rs), g)
<1>1. IsHist(h) /\ h.recs \in Seq(Rec)
  BY DEF WriterOk, IsHist
<1>2. /\ Len(rs) = 0 => h.recs \o rs = h.recs
      /\ Len(rs) = 1 => h.recs \o rs = Append(h.recs, rs[1])
      /\ Len(rs) = 2 => h.recs \o rs = Append(Append(h.recs, rs[1]), rs[2])
  BY <1>1, ConcatTwo
<1>3. \A i \in 1 .. Len(rs) : rs[i] \in Rec
  BY ElementOfSeq
<1>4. /\ Len(rs) = 0 => FoldLeft(add, w, rs) = w
      /\ Len(rs) = 1 => FoldLeft(add, w, rs) = add(w, rs[1])
      /\ Len(rs) = 2 => FoldLeft(add, w, rs) = add(add(w, rs[1]), rs[2])
  BY AddsFold
<1>5. CASE Len(rs) = 0
  <2>1. g.recs = h.recs /\ g.st = h.st /\ g.exc = h.exc /\ IsHist(g)
    BY <1>1, <1>2, <1>5 DEF IsHist
  <2> QED BY <1>4, <1>5, <2>1, SameHist
<1>6. CASE Len(rs) = 1
  <2>1. g = [recs |-> Append(h.recs, rs[1]), st |-> h.st, exc |-> h.exc] /\ rs[1] \in Rec
    <3>1. 1 \in 1 .. 1
      OBVIOUS
    <3>2. rs[1] \in Rec
      BY <1>3, <1>6, <3>1, Zenon
    <3> QED BY <1>2, <1>6, <3>2, Zenon
  <2>2. WriterOk(add(w, rs[1]), g)
    BY <2>1, AddOk
  <2> QED BY <1>4, <1>6, <2>2
<1>7. CASE Len(rs) = 2
  <2> DEFINE k == [recs |-> Append(h.recs, rs[1]), st |-> h.st, exc |-> h.exc]
  <2>0. rs[1] \in Rec /\ rs[2] \in Rec
    BY <1>3, <1>7
  <2>1. WriterOk(add(w, rs[1]), k)
    BY <2>0, AddOk
  <2>2. g = [recs |-> Append(k.recs, rs[2]), st |-> k.st, exc |-> k.exc]
    BY <1>2, <1>7
  <2> HIDE DEF k
  <2>3. WriterOk(add(add(w, rs[1]), rs[2]), g)
    BY <2>0, <2>1, <2>2, AddOk
  <2> QED BY <1>4, <1>7, <2>3
<1>8. Len(rs) = 0 \/ Len(rs) = 1 \/ Len(rs) = 2
  <2>1. Len(rs) \in Nat
    BY LenProperties
  <2>2. \A x \in Nat : x <= 2 => x = 0 \/ x = 1 \/ x = 2
    OBVIOUS
  <2> QED BY <2>1, <2>2, Zenon
<1> QED BY <1>5, <1>6, <1>7, <1>8

\* what a cycle retires
Retired(n, b) == [i \in 1 .. Len(b) |-> [id |-> n + i, cls |-> b[i], slot |-> i - 1]]

\* What a bundle retires: one record per slot, numbered from the history on.
LEMMA RetiredFacts ==
  ASSUME NEW n \in Nat, NEW b \in Bundles
  PROVE  /\ Retired(n, b) \in Seq(Rec) /\ Len(Retired(n, b)) = Len(b) /\ Len(b) \in 0 .. 2
         /\ \A i \in 1 .. Len(b) : Retired(n, b)[i].id = n + i /\ Retired(n, b)[i].cls = b[i]
<1>1. b \in Seq(Classes) /\ Len(b) \in 0 .. 2 /\ \A i \in 1 .. Len(b) : b[i] \in Classes
  <2>1. b \in Seq(Classes) /\ Len(b) <= 2
    BY TracesAssumption DEF Classes
  <2>2. \A x \in Nat : x <= 2 => x \in 0 .. 2
    OBVIOUS
  <2>3. Len(b) \in Nat
    BY <2>1, LenProperties
  <2>4. \A i \in 1 .. Len(b) : b[i] \in Classes
    BY <2>1, ElementOfSeq
  <2> QED BY <2>1, <2>2, <2>3, <2>4, Zenon
<1> DEFINE m == Len(b)
           rs == Retired(n, b)
<1>2. m \in Nat /\ rs = [i \in 1 .. m |-> [id |-> n + i, cls |-> b[i], slot |-> i - 1]]
  BY <1>1 DEF Retired
<1> HIDE DEF m, rs
<1>3. \A i \in 1 .. m : [id |-> n + i, cls |-> b[i], slot |-> i - 1] \in Rec
  <2> TAKE i \in 1 .. m
  <2>1. n + i \in Nat /\ i - 1 \in Nat /\ b[i] \in Classes
    BY <1>1, <1>2 DEF m
  <2> QED BY <2>1 DEF Rec
<1>4. rs \in Seq(Rec) /\ Len(rs) = m
  BY <1>2, <1>3
<1>5. \A i \in 1 .. m : rs[i].id = n + i /\ rs[i].cls = b[i]
  BY <1>2
<1> QED BY <1>1, <1>4, <1>5 DEF m, rs

\* one cycle
LEMMA CycleOk ==
  ASSUME WriterOk(ct, hist), NEW b \in Bundles, NEW st \in BOOLEAN, NEW irq \in BOOLEAN, Cycle(b, st, irq)
  PROVE  WriterOk(ct', hist')
<1> DEFINE n == Len(hist.recs)
           rs == Retired(n, b)
           w1 == IF st THEN add_store(ct, n) ELSE ct
           w2 == FoldLeft(add, w1, rs)
           w3 == IF irq THEN add_exception(w2, n + Len(b)) ELSE w2
           s1 == IF st THEN Append(hist.st, n) ELSE hist.st
           h1 == [recs |-> hist.recs, st |-> s1, exc |-> hist.exc]
           h2 == [recs |-> hist.recs \o rs, st |-> s1, exc |-> hist.exc]
           h3 == [recs |-> hist.recs \o rs, st |-> s1,
                  exc |-> IF irq THEN Append(hist.exc, n + Len(b)) ELSE hist.exc]
<1>1. ct' = w3 /\ hist' = h3
  BY DEF Cycle, Retired
<1>2. n \in Nat /\ IsHist(hist) /\ hist.recs \in Seq(Rec) /\ hist.exc \in Seq(Nat) /\ hist.st \in Seq(Nat)
  BY LenProperties DEF WriterOk, IsHist
<1>3. rs \in Seq(Rec) /\ Len(rs) = Len(b) /\ Len(b) \in 0 .. 2
  BY <1>2, RetiredFacts
<1> HIDE DEF rs
<1>4. WriterOk(w1, h1)
  <2>1. CASE st
    <3>1. h1 = [recs |-> hist.recs, st |-> Append(hist.st, Len(hist.recs)), exc |-> hist.exc]
      BY <2>1
    <3>2. w1 = add_store(ct, Len(hist.recs))
      BY <2>1
    <3> HIDE DEF h1, w1, n
    <3> QED BY <3>1, <3>2, AddStoreOk
  <2>2. CASE ~st
    <3>1. h1.recs = hist.recs /\ h1.st = hist.st /\ h1.exc = hist.exc /\ IsHist(h1) /\ w1 = ct
      BY <1>2, <2>2 DEF IsHist
    <3> HIDE DEF h1, w1
    <3> QED BY <3>1, SameHist
  <2> QED BY <2>1, <2>2
<1>5. WriterOk(w2, h2)
  <2>1. h2 = [recs |-> h1.recs \o rs, st |-> h1.st, exc |-> h1.exc] /\ Len(rs) <= 2
    BY <1>3
  <2> HIDE DEF h1, h2, w1
  <2> QED BY <1>3, <1>4, <2>1, AddsOk
<1>6. Len(h2.recs) = n + Len(b) /\ h2.recs = hist.recs \o rs
  <2>1. h2.recs = hist.recs \o rs
    OBVIOUS
  <2>2. Len(hist.recs \o rs) = Len(hist.recs) + Len(rs)
    BY <1>2, <1>3, ConcatProperties
  <2> QED BY <1>3, <2>1, <2>2, Zenon
<1>7. WriterOk(w3, h3)
  <2>1. CASE irq
    <3>1. h3 = [recs |-> h2.recs, st |-> h2.st, exc |-> Append(h2.exc, Len(h2.recs))]
      BY <1>6, <2>1
    <3>2. w3 = add_exception(w2, Len(h2.recs))
      BY <1>6, <2>1
    <3> HIDE DEF h2, h3, w2, w3
    <3> QED BY <1>5, <3>1, <3>2, AddExcOk
  <2>2. CASE ~irq
    <3>1. h3 = h2 /\ w3 = w2
      BY <2>2
    <3> HIDE DEF h2, h3, w2, w3
    <3> QED BY <1>5, <3>1
  <2> QED BY <2>1, <2>2
<1> HIDE DEF w3, h3
<1> QED BY <1>1, <1>7

\* An opened trace with nothing retired.
LEMMA InitOk ==
  ASSUME hist = [recs |-> <<>>, st |-> <<>>, exc |-> <<>>], ct = ct_open
  PROVE  WriterOk(ct, hist)
<1> DEFINE d == [at |-> 2, r |-> 0, e |-> 0, a |-> 0, rec |-> <<>>, eidx |-> <<>>, edat |-> <<>>, st |-> <<>>]
           K == [j \in 1 .. 1 |-> d]
<1>1. /\ ct.rec = <<>> /\ ct.eidx = <<>> /\ ct.edat = <<>> /\ ct.st = <<>> /\ ct.file = <<Magic>>
      /\ ct.raw = <<>> /\ ct.chunks = 0 /\ ct.recs = 0
      /\ DOMAIN ct = {"rec", "eidx", "edat", "st", "file", "raw", "chunks", "recs"}
  BY DEF ct_open
<1>2. hist.recs = <<>> /\ hist.st = <<>> /\ hist.exc = <<>> /\ DOMAIN hist = {"recs", "st", "exc"}
  OBVIOUS
<1>3. Len(<<>>) = 0 /\ <<>> \in Seq(Rec) /\ <<>> \in Seq(Nat) /\ <<>> \in Seq(Datum)
  OBVIOUS
<1>4. <<Magic>> \in Seq(Items) /\ Len(<<Magic>>) = 1 /\ <<Magic>>[1] = Magic
  <2>1. Magic = [k |-> "magic", n |-> 0, nc |-> 0, id |-> "none", data |-> <<>>]
    BY DEF Magic, Item
  <2>2. Magic \in Items
    BY <1>3, <2>1 DEF Items, Kinds
  <2> QED BY <2>2
<1>5. IsWriter(ct) /\ HasColumns(ct)
  BY <1>1, <1>3, <1>4 DEF IsWriter, HasColumns
<1>6. IsHist(hist)
  BY <1>2, <1>3 DEF IsHist
<1>7. IsChunk(d) /\ Holds(d, hist)
  <2>1. IsChunk(d)
    BY <1>3 DEF IsChunk, HasColumns
  <2>2. Holds(d, hist)
    BY <1>2, <1>3 DEF Holds
  <2> QED BY <2>1, <2>2
<1>8. K[1] = d /\ d.at = 2 /\ d.r = 0 /\ d.e = 0 /\ d.a = 0
  OBVIOUS
<1>9. Pending(ct, hist, d)
  BY <1>1, <1>2, <1>3 DEF Pending
<1> HIDE DEF d, K
<1>10. Chain(K, 0, hist)
  <2>1. \A j \in 1 .. 0 + 1 : j = 1
    OBVIOUS
  <2>2. \A j \in 1 .. 0 : FALSE
    OBVIOUS
  <2> QED BY <1>7, <1>8, <2>1, <2>2 DEF Chain
<1>11. FileOf(ct.file, K, 0)
  BY <1>1, <1>4 DEF FileOf
<1>12. Laid(ct, hist, K)
  <2>1. 0 + 1 = 1 /\ 2 - 1 = 1
    OBVIOUS
  <2> QED BY <1>1, <1>4, <1>8, <1>9, <1>10, <1>11, <2>1 DEF Laid
<1>13. FullChunks(K, ct.chunks)
  BY <1>1 DEF FullChunks
<1>14. Len(ct.rec) < ChunkRecs /\ IndexOk(ct)
  BY <1>1, <1>3, TracesAssumption DEF IndexOk
<1> QED BY <1>1, <1>2, <1>5, <1>6, <1>12, <1>13, <1>14 DEF WriterOk

-----------------------------------------------------------------------------
(* The end of a run. *)

Trailer(n, m) == Item("trailer", n, 0, "none", <<m>>)

\* no record follows what is not in the chunks before d
Trailing(d, h) ==
  /\ d.r = Len(h.recs)
  /\ \A i \in 1 .. Len(h.exc) : i > d.e => h.exc[i] >= Len(h.recs)
  /\ \A i \in 1 .. Len(h.st) : i > d.a => h.st[i] >= Len(h.recs)

Written(w, h, K) ==
  /\ Chain(K, w.chunks, h) /\ FileOf(w.file, K, w.chunks)
  /\ Len(w.raw) <= Len(h.recs) /\ \A i \in 1 .. Len(w.raw) : w.raw[i] = h.recs[i]

\* the chunk that close() writes: the last one, with all that was pending
Short(c, d, h) == Len(c.rec) < ChunkRecs /\ d.e = Len(h.exc) /\ d.a = Len(h.st)

Filled(K, n, h) == \A j \in 1 .. n : Full(K[j]) \/ (j = n /\ Short(K[j], K[j + 1], h))

\* what close() has written, or the beginning of it
Ended(w, h, K) ==
  /\ Written(w, h, K) /\ Filled(K, w.chunks, h) /\ Trailing(K[w.chunks + 1], h)
  /\ Len(w.file) <= K[w.chunks + 1].at
  /\ Len(w.file) = K[w.chunks + 1].at => w.file[Len(w.file)] = Trailer(w.chunks, Len(h.recs))

Closed(w, h, K) == Ended(w, h, K) /\ Len(w.file) = K[w.chunks + 1].at

\* The chunks of a file stay where they are when bytes are appended.
LEMMA FileKept ==
  ASSUME NEW K, NEW n \in Nat, NEW h, Chain(K, n, h), NEW f, NEW g, FileOf(f, K, n),
         Len(f) \in Nat, Len(g) \in Nat, Len(f) = K[n + 1].at - 1, \A i \in 1 .. Len(f) : g[i] = f[i]
  PROVE  FileOf(g, K, n)
<1> DEFINE d == K[n + 1]
<1>1. n + 1 \in 1 .. n + 1 /\ d.at \in Nat /\ d.at >= 2
  <2>1. n + 1 \in 1 .. n + 1
    OBVIOUS
  <2> QED BY <2>1, ChainOrder DEF Chain, IsChunk
<1>2. g[1] = Magic
  <2>1. Len(f) >= 1
    BY <1>1
  <2>2. f # <<>> /\ 1 \in 1 .. Len(f)
    BY <2>1
  <2> QED BY <2>2 DEF FileOf
<1>3. ASSUME NEW j \in 1 .. n
      PROVE  ChunkAt(g, K[j].at, K[j])
  <2>1. j \in 1 .. n + 1 /\ j < n + 1
    OBVIOUS
  <2>2. IsChunk(K[j]) /\ ChunkAt(f, K[j].at, K[j]) /\ K[j].at >= 2
    BY <2>1, ChainOrder DEF Chain, FileOf
  <2>3. K[j].at + 1 + 2 * NCols(K[j]) <= d.at
    BY <1>1, <2>1, ChainOrder
  <2>4. K[j].at \in Nat /\ NCols(K[j]) \in 0 .. 4
    BY <2>2, PutCols DEF IsChunk
  <2>5. PICK x : x = K[j].at
    OBVIOUS
  <2>6. PICK y : y = NCols(K[j])
    OBVIOUS
  <2>7. PICK z : z = d.at
    OBVIOUS
  <2>8. x \in Nat /\ y \in Nat /\ z \in Nat /\ x >= 2 /\ x + 1 + 2 * y <= z
    BY <1>1, <2>2, <2>3, <2>4, <2>5, <2>6, <2>7
  <2>9. x + 2 * y <= z - 1 /\ x >= 1
    BY <2>8
  <2>10. ChunkAt(f, x, K[j]) /\ x + 2 * NCols(K[j]) <= Len(f)
    BY <2>2, <2>5, <2>6, <2>7, <2>9
  <2> QED BY <2>5, <2>8, <2>9, <2>10, ChunkKept
<1> QED BY <1>2, <1>3 DEF FileOf

\* A cut file still has, where it has anything, what the whole one had.
LEMMA FileCut ==
  ASSUME NEW K, NEW n \in Nat, NEW h, Chain(K, n, h), NEW f, NEW g, FileOf(f, K, n), NEW S,
         f \in Seq(S), g \in Seq(S), Len(g) <= Len(f), \A i \in 1 .. Len(g) : g[i] = f[i]
  PROVE  FileOf(g, K, n)
<1>0. Len(f) \in Nat /\ Len(g) \in Nat
  BY LenProperties
<1>1. ASSUME g # <<>>
      PROVE  g[1] = Magic
  <2>1. Len(g) # 0
    BY <1>1, EmptySeq
  <2>2. 1 \in 1 .. Len(g) /\ Len(f) # 0
    BY <1>0, <2>1
  <2>3. f # <<>>
    BY <2>2
  <2> QED BY <2>2, <2>3 DEF FileOf
<1>2. ASSUME NEW j \in 1 .. n
      PROVE  ChunkAt(g, K[j].at, K[j])
  <2>1. j \in 1 .. n + 1
    OBVIOUS
  <2>2. IsChunk(K[j]) /\ ChunkAt(f, K[j].at, K[j]) /\ K[j].at >= 2
    BY <2>1, ChainOrder DEF Chain, FileOf
  <2>3. K[j].at \in Nat
    BY <2>2 DEF IsChunk
  <2>4. K[j].at >= 1
    BY <2>2, <2>3
  <2> QED BY <1>0, <2>2, <2>3, <2>4, ChunkCut
<1> QED BY <1>1, <1>2 DEF FileOf

\* the layout once nothing is pending but sparse entries
LEMMA LaidTrailing ==
  ASSUME NEW v, NEW h, NEW K, IsWriter(v), IsHist(h), Laid(v, h, K), v.rec = <<>>
  PROVE  Trailing(K[v.chunks + 1], h) /\ v.recs = Len(h.recs)
<1> DEFINE d == K[v.chunks + 1]
<1>1. v.chunks \in Nat /\ Chain(K, v.chunks, h) /\ Pending(v, h, d)
  BY DEF Laid, IsWriter
<1>2. v.chunks + 1 \in 1 .. v.chunks + 1
  BY <1>1
<1>3. IsChunk(d) /\ Holds(d, h)
  BY <1>1, <1>2 DEF Chain
<1>4. /\ d.rec = v.rec /\ d.eidx = v.eidx /\ d.st = v.st
      /\ d.r + Len(v.rec) = Len(h.recs) /\ d.e + Len(v.eidx) = Len(h.exc)
      /\ d.a + Len(v.st) = Len(h.st) /\ v.recs = d.r
  BY <1>1 DEF Pending
<1>5. /\ d.r \in Nat /\ d.e \in Nat /\ d.a \in Nat /\ Len(v.eidx) \in Nat /\ Len(v.st) \in Nat
      /\ v.eidx \in Seq(Nat) /\ v.st \in Seq(Nat)
  BY <1>3, LenProperties DEF IsChunk, IsWriter, HasColumns
<1> HIDE DEF d
<1>6. d.r = Len(h.recs)
  <2>1. Len(v.rec) = 0
    OBVIOUS
  <2> QED BY <1>4, <1>5, <2>1
<1>0. \A o, s, t \in Nat : o + s = t => \A i \in 1 .. t : i > o => \E j \in 1 .. s : o + j = i
  <2> SUFFICES ASSUME NEW o \in Nat, NEW s \in Nat, NEW t \in Nat, o + s = t, NEW i \in 1 .. t, i > o
               PROVE  \E j \in 1 .. s : o + j = i
    OBVIOUS
  <2>1. i - o \in 1 .. s /\ o + (i - o) = i
    OBVIOUS
  <2> QED BY <2>1
<1>9. Len(h.exc) \in Nat /\ Len(h.st) \in Nat
  BY LenProperties DEF IsHist
<1>7. ASSUME NEW i \in 1 .. Len(h.exc), i > d.e
      PROVE  h.exc[i] >= d.r
  <2>0. d.e + Len(v.eidx) = Len(h.exc) /\ d.e \in Nat /\ Len(v.eidx) \in Nat /\ Len(h.exc) \in Nat
    BY <1>4, <1>5, <1>9
  <2>1. PICK j \in 1 .. Len(v.eidx) : d.e + j = i
    <3>1. \A q \in 1 .. Len(h.exc) : q > d.e => \E j \in 1 .. Len(v.eidx) : d.e + j = q
      BY <1>0, <2>0
    <3> QED BY <1>7, <3>1
  <2>2. d.r + v.eidx[j] = h.exc[d.e + j]
    BY <1>3, <1>4 DEF Holds
  <2>3. v.eidx[j] \in Nat
    BY <1>5, ElementOfSeq
  <2>4. PICK y : y = v.eidx[j]
    OBVIOUS
  <2>5. d.r + y >= d.r
    BY <1>5, <2>3, <2>4
  <2> QED BY <2>1, <2>2, <2>4, <2>5
<1>8. ASSUME NEW i \in 1 .. Len(h.st), i > d.a
      PROVE  h.st[i] >= d.r
  <2>0. d.a + Len(v.st) = Len(h.st) /\ d.a \in Nat /\ Len(v.st) \in Nat /\ Len(h.st) \in Nat
    BY <1>4, <1>5, <1>9
  <2>1. PICK j \in 1 .. Len(v.st) : d.a + j = i
    <3>1. \A q \in 1 .. Len(h.st) : q > d.a => \E j \in 1 .. Len(v.st) : d.a + j = q
      BY <1>0, <2>0
    <3> QED BY <1>8, <3>1
  <2>2. v.st[j] = h.st[d.a + j] /\ v.st[j] >= d.r
    BY <1>3, <1>4 DEF Holds
  <2> QED BY <2>1, <2>2
<1>10. Trailing(d, h)
  BY <1>6, <1>7, <1>8 DEF Trailing
<1> QED BY <1>4, <1>6, <1>10 DEF d

\* ct_close flushes the pending columns and appends the trailer: every chunk is in the file.
LEMMA CloseOk ==
  ASSUME NEW w, NEW h, WriterOk(w, h)
  PROVE  LET u == ct_close(w)
         IN  /\ IsWriter(u) /\ u.rec = <<>> /\ IndexOk(u) /\ u.recs = Len(h.recs) /\ u.raw = h.recs
             /\ \E K : Closed(u, h, K)
<1> DEFINE v == IF w.rec # <<>> THEN flush_chunk(w) ELSE w
           t == Item("trailer", v.chunks, 0, "none", <<v.recs>>)
           u == ct_close(w)
<1>1. IsWriter(w) /\ IsHist(h) /\ w.raw = h.recs /\ IndexOk(w) /\ h.recs \in Seq(Rec)
  BY DEF WriterOk, IsHist
<1>2. PICK K0 : Laid(w, h, K0) /\ FullChunks(K0, w.chunks)
  BY DEF WriterOk
<1>3. /\ IsWriter(v) /\ v.rec = <<>> /\ IndexOk(v) /\ v.raw = h.recs
      /\ \E K : Laid(v, h, K) /\ Filled(K, v.chunks, h)
  <2>1. CASE w.rec # <<>>
    <3>1. v = flush_chunk(w)
      BY <2>1
    <3> HIDE DEF v
    <3>2. IsWriter(v) /\ v.rec = <<>> /\ v.eidx = <<>> /\ v.st = <<>>
      BY <1>1, <3>1, FlushFields
    <3>3. v.raw = w.raw /\ v.chunks = w.chunks + 1
      BY <1>1, <3>1, FlushFields
    <3>4. PICK L : Laid(v, h, L) /\ \A j \in 1 .. w.chunks + 1 : L[j] = K0[j]
      BY <1>1, <1>2, <2>1, <3>1, FlushLaid
    <3>5. IndexOk(v)
      <4>1. Len(v.eidx) = 0 /\ Len(v.st) = 0
        BY <3>2
      <4> QED BY <4>1 DEF IndexOk
    <3>6. Filled(L, v.chunks, h)
      <4>0. w.chunks \in Nat /\ Len(w.rec) < ChunkRecs
        BY <1>1 DEF IsWriter, WriterOk
      <4> SUFFICES ASSUME NEW j \in 1 .. w.chunks + 1
                   PROVE  Full(L[j]) \/ (j = w.chunks + 1 /\ Short(L[j], L[j + 1], h))
        BY <3>3 DEF Filled
      <4>1. CASE j \in 1 .. w.chunks
        BY <1>2, <3>4, <4>1 DEF FullChunks
      <4>2. CASE j = w.chunks + 1
        <5>1. L[j].rec = w.rec
          BY <1>2, <3>4, <4>2 DEF Laid, Pending
        <5>2. Pending(v, h, L[j + 1]) /\ IsChunk(L[j + 1])
          <6>1. v.chunks + 1 \in 1 .. v.chunks + 1 /\ j + 1 = v.chunks + 1
            BY <3>3, <4>0, <4>2
          <6> QED BY <3>4, <6>1 DEF Laid, Chain
        <5>3. L[j + 1].e + Len(v.eidx) = Len(h.exc) /\ L[j + 1].a + Len(v.st) = Len(h.st)
          BY <5>2 DEF Pending
        <5>4. Len(v.eidx) = 0 /\ Len(v.st) = 0 /\ L[j + 1].e \in Nat /\ L[j + 1].a \in Nat
          BY <3>2, <5>2 DEF IsChunk
        <5>5. \A x \in Nat : x + 0 = x
          OBVIOUS
        <5>6. L[j + 1].e = Len(h.exc) /\ L[j + 1].a = Len(h.st)
          BY <5>3, <5>4, <5>5, Zenon
        <5> QED BY <4>0, <4>2, <5>1, <5>6 DEF Short
      <4> QED BY <4>0, <4>1, <4>2
    <3> QED BY <1>1, <3>2, <3>3, <3>4, <3>5, <3>6
  <2>2. CASE w.rec = <<>>
    <3>1. v = w
      BY <2>2
    <3>2. Filled(K0, w.chunks, h)
      BY <1>2 DEF Filled, FullChunks
    <3> QED BY <1>1, <1>2, <2>2, <3>1, <3>2
  <2> QED BY <2>1, <2>2
<1>4. u = [v EXCEPT !.file = Append(@, t)]
  BY DEF ct_close
<1> HIDE DEF v, u
<1>5. PICK K : Laid(v, h, K) /\ Filled(K, v.chunks, h)
  BY <1>3
<1>6. Trailing(K[v.chunks + 1], h) /\ v.recs = Len(h.recs)
  BY <1>1, <1>3, <1>5, LaidTrailing
<1>7. t = Trailer(v.chunks, Len(h.recs))
  BY <1>6 DEF Trailer
<1>8. t \in Items
  <2>1. v.chunks \in Nat /\ v.recs \in Nat
    BY <1>3 DEF IsWriter
  <2>2. v.recs \in Datum
    BY <2>1 DEF Datum
  <2>3. <<v.recs>> \in Seq(Datum)
    BY <2>2
  <2>4. t = [k |-> "trailer", n |-> v.chunks, nc |-> 0, id |-> "none", data |-> <<v.recs>>]
    BY DEF Item
  <2> HIDE DEF t
  <2> QED BY <2>1, <2>3, <2>4 DEF Items, Kinds
<1> HIDE DEF t
<1>9. /\ u.file = Append(v.file, t) /\ u.rec = v.rec /\ u.eidx = v.eidx /\ u.edat = v.edat /\ u.st = v.st
      /\ u.raw = v.raw /\ u.chunks = v.chunks /\ u.recs = v.recs /\ DOMAIN u = DOMAIN v
  BY <1>3, <1>4 DEF IsWriter
<1>10. v.file \in Seq(Items)
  BY <1>3 DEF IsWriter
<1>11. /\ u.file \in Seq(Items) /\ Len(v.file) \in Nat /\ Len(u.file) = Len(v.file) + 1
       /\ \A i \in 1 .. Len(v.file) : u.file[i] = v.file[i]
       /\ u.file[Len(v.file) + 1] = t
  BY <1>8, <1>9, <1>10, AppendFacts
<1>12. IsWriter(u) /\ IndexOk(u)
  BY <1>3, <1>9, <1>11 DEF IsWriter, HasColumns, IndexOk
<1>13. v.chunks \in Nat /\ Chain(K, v.chunks, h) /\ FileOf(v.file, K, v.chunks) /\ Len(v.file) = K[v.chunks + 1].at - 1
  BY <1>3, <1>5 DEF Laid, IsWriter
<1>14. FileOf(u.file, K, v.chunks)
  <2>1. Len(u.file) \in Nat
    BY <1>11
  <2> QED BY <1>11, <1>13, <2>1, FileKept
<1>15. Len(u.file) = K[v.chunks + 1].at
  <2>1. K[v.chunks + 1].at \in Nat
    BY <1>13 DEF Chain, IsChunk
  <2> QED BY <1>11, <1>13, <2>1
<1>16. Written(u, h, K)
  <2>1. Len(h.recs) \in Nat
    BY <1>1, LenProperties
  <2>2. u.raw = h.recs
    BY <1>3, <1>9
  <2> QED BY <1>9, <1>13, <1>14, <2>1, <2>2 DEF Written
<1>17. Closed(u, h, K)
  <2>1. u.file[Len(u.file)] = Trailer(u.chunks, Len(h.recs)) /\ Len(u.file) <= K[u.chunks + 1].at
    BY <1>7, <1>9, <1>11, <1>15
  <2>2. Filled(K, u.chunks, h) /\ Trailing(K[u.chunks + 1], h) /\ Len(u.file) = K[u.chunks + 1].at
    BY <1>5, <1>6, <1>9, <1>15
  <2> QED BY <1>16, <2>1, <2>2 DEF Closed, Ended
<1> QED BY <1>3, <1>6, <1>9, <1>12, <1>17 DEF u

\* what a kill leaves of the two files
CutTo(u, w, k, j) ==
  /\ u.file = SubSeq(w.file, 1, k) /\ u.raw = SubSeq(w.raw, 1, j) /\ u.rec = w.rec /\ u.eidx = w.eidx
  /\ u.edat = w.edat /\ u.st = w.st /\ u.chunks = w.chunks /\ u.recs = w.recs /\ DOMAIN u = DOMAIN w

\* A kill leaves a prefix of what close() writes: the chain of its chunks stays.
LEMMA KillOk ==
  ASSUME NEW w, NEW h, NEW K, IsWriter(w), IsHist(h), w.raw = h.recs, Closed(w, h, K),
         NEW k \in 0 .. Len(w.file), NEW j \in 0 .. Len(w.raw), NEW u, CutTo(u, w, k, j)
  PROVE  IsWriter(u) /\ Ended(u, h, K)
<1>1. Ended(w, h, K) /\ Written(w, h, K) /\ Len(w.file) = K[w.chunks + 1].at
  BY DEF Closed, Ended
<1>3. w.file \in Seq(Items) /\ w.raw \in Seq(Rec) /\ w.chunks \in Nat
  BY DEF IsWriter
<1>4. /\ u.file = SubSeq(w.file, 1, k) /\ u.raw = SubSeq(w.raw, 1, j) /\ u.rec = w.rec /\ u.eidx = w.eidx
      /\ u.edat = w.edat /\ u.st = w.st /\ u.chunks = w.chunks /\ u.recs = w.recs /\ DOMAIN u = DOMAIN w
  BY DEF CutTo
<1>5. /\ u.file \in Seq(Items) /\ Len(u.file) = k /\ Len(w.file) \in Nat
      /\ \A i \in 1 .. Len(u.file) : u.file[i] = w.file[i]
  <2>1. Len(w.file) \in Nat
    BY <1>3, LenProperties
  <2>2. k \in 0 .. Len(w.file)
    OBVIOUS
  <2> QED BY <1>3, <1>4, <2>1, <2>2
<1>6. /\ u.raw \in Seq(Rec) /\ Len(u.raw) = j /\ Len(w.raw) \in Nat
      /\ \A i \in 1 .. Len(u.raw) : u.raw[i] = w.raw[i]
  <2>1. Len(w.raw) \in Nat
    BY <1>3, LenProperties
  <2>2. j \in 0 .. Len(w.raw)
    OBVIOUS
  <2> QED BY <1>3, <1>4, <2>1, <2>2
<1>7. IsWriter(u)
  BY <1>4, <1>5, <1>6 DEF IsWriter, HasColumns
<1>8. Chain(K, w.chunks, h) /\ FileOf(w.file, K, w.chunks)
  BY <1>1 DEF Written
<1>9. FileOf(u.file, K, w.chunks)
  <2>1. Len(u.file) <= Len(w.file)
    BY <1>5
  <2> QED BY <1>3, <1>5, <1>8, <2>1, FileCut
<1>10. Written(u, h, K)
  <2>1. Len(u.raw) <= Len(h.recs)
    BY <1>6
  <2> QED BY <1>4, <1>6, <1>8, <1>9, <2>1 DEF Written
<1>11. Len(u.file) <= K[u.chunks + 1].at
  BY <1>1, <1>4, <1>5
<1>12. ASSUME Len(u.file) = K[u.chunks + 1].at
       PROVE  u.file[Len(u.file)] = Trailer(u.chunks, Len(h.recs))
  <2>1. Len(u.file) = Len(w.file)
    BY <1>1, <1>4, <1>12
  <2>2. Len(u.file) >= 1
    <3>1. w.chunks + 1 \in 1 .. w.chunks + 1
      BY <1>3
    <3>2. K[w.chunks + 1].at >= 2
      BY <1>3, <1>8, <3>1, ChainOrder
    <3> QED BY <1>1, <1>5, <2>1, <3>2
  <2>3. Len(u.file) \in 1 .. Len(u.file)
    BY <1>5, <2>2
  <2>4. w.file[Len(w.file)] = Trailer(w.chunks, Len(h.recs))
    BY <1>1 DEF Ended
  <2> QED BY <1>4, <1>5, <2>1, <2>3, <2>4
<1>13. Filled(K, u.chunks, h) /\ Trailing(K[u.chunks + 1], h)
  BY <1>1, <1>4 DEF Ended
<1> QED BY <1>7, <1>10, <1>11, <1>12, <1>13 DEF Ended

-----------------------------------------------------------------------------
(* What the reader finds in a chunk. *)

InSeq(x, s) == \E i \in 1 .. Len(s) : s[i] = x

\* what stands in one of two sequences stands in their concatenation
LEMMA ConcatHas ==
  ASSUME NEW S, NEW s \in Seq(S), NEW t \in Seq(S), NEW x, InSeq(x, s) \/ InSeq(x, t)
  PROVE  InSeq(x, s \o t)
<1> DEFINE u == s \o t
<1>1. /\ u \in Seq(S) /\ Len(u) = Len(s) + Len(t) /\ Len(s) \in Nat /\ Len(t) \in Nat
      /\ \A i \in 1 .. Len(s) + Len(t) : u[i] = IF i <= Len(s) THEN s[i] ELSE t[i - Len(s)]
  BY ConcatProperties, LenProperties
<1> HIDE DEF u
<1>2. CASE InSeq(x, s)
  <2>1. PICK i \in 1 .. Len(s) : s[i] = x
    BY <1>2 DEF InSeq
  <2>2. i \in 1 .. Len(u) /\ u[i] = x
    BY <1>1, <2>1
  <2> QED BY <1>1, <2>2 DEF u, InSeq
<1>3. CASE InSeq(x, t)
  <2>1. PICK i \in 1 .. Len(t) : t[i] = x
    BY <1>3 DEF InSeq
  <2>2. PICK j : j = Len(s) + i
    OBVIOUS
  <2>3. j \in 1 .. Len(s) + Len(t) /\ ~(j <= Len(s)) /\ j - Len(s) = i
    BY <1>1, <2>2
  <2>4. u[j] = t[i]
    BY <1>1, <2>3, Zenon
  <2> QED BY <1>1, <2>1, <2>3, <2>4, Zenon DEF u, InSeq
<1> QED BY <1>2, <1>3

\* a column that is not empty is written
LEMMA ColumnThere ==
  ASSUME NEW w, NEW x \in Ids, w[x] # <<>>
  PROVE  \E i \in 1 .. NCols(w) : put_cols(w)[i] = x
<1> DEFINE Has(s) == InSeq(x, s)
           a == put_col(w, "rec")
           b == put_col(w, "eidx")
           c == put_col(w, "edat")
           d == put_col(w, "st")
<1>1. \A y \in Ids : put_col(w, y) \in Seq(Ids)
  <2> TAKE y \in Ids
  <2>1. <<y>> \in Seq(Ids) /\ <<>> \in Seq(Ids)
    OBVIOUS
  <2> QED BY <2>1 DEF put_col
<1>2. a \in Seq(Ids) /\ b \in Seq(Ids) /\ c \in Seq(Ids) /\ d \in Seq(Ids)
  <2>1. "rec" \in Ids /\ "eidx" \in Ids /\ "edat" \in Ids /\ "st" \in Ids
    BY DEF Ids
  <2> QED BY <1>1, <2>1
<1>3. Has(put_col(w, x))
  <2>1. put_col(w, x) = <<x>>
    BY DEF put_col
  <2>2. Len(<<x>>) = 1 /\ <<x>>[1] = x /\ 1 \in 1 .. 1
    OBVIOUS
  <2> QED BY <2>1, <2>2 DEF InSeq
<1>4. Has(a) \/ Has(b) \/ Has(c) \/ Has(d)
  BY <1>3 DEF Ids
<1>5. put_cols(w) = ((a \o b) \o c) \o d
  BY DEF put_cols
<1> HIDE DEF a, b, c, d
<1>6. a \o b \in Seq(Ids) /\ (Has(a) \/ Has(b) => Has(a \o b))
  <2>1. a \o b \in Seq(Ids)
    BY <1>2, ConcatProperties
  <2>2. Has(a) \/ Has(b) => Has(a \o b)
    BY <1>2, ConcatHas
  <2> QED BY <2>1, <2>2
<1>7. PICK p : p = a \o b
  OBVIOUS
<1>8. p \o c \in Seq(Ids) /\ (Has(p) \/ Has(c) => Has(p \o c))
  <2>0. p \in Seq(Ids)
    BY <1>6, <1>7
  <2>1. p \o c \in Seq(Ids)
    BY <1>2, <2>0, ConcatProperties
  <2>2. Has(p) \/ Has(c) => Has(p \o c)
    BY <1>2, <2>0, ConcatHas
  <2> QED BY <2>1, <2>2
<1>9. PICK q : q = p \o c
  OBVIOUS
<1>10. Has(q) \/ Has(d) => Has(q \o d)
  <2>0. q \in Seq(Ids)
    BY <1>8, <1>9
  <2> QED BY <1>2, <2>0, ConcatHas
<1>11. Has(put_cols(w))
  <2>1. put_cols(w) = q \o d
    BY <1>5, <1>7, <1>9
  <2>2. (Has(a) \/ Has(b) => Has(p)) /\ (Has(p) \/ Has(c) => Has(q))
    BY <1>6, <1>7, <1>8, <1>9
  <2> HIDE DEF Has
  <2> QED BY <1>4, <1>10, <2>1, <2>2
<1> QED BY <1>11 DEF NCols, InSeq

\* the bodies of a chunk whose header is in the file: all of them, or the file ends
LEMMA BodiesOf ==
  ASSUME NEW f \in Seq(Items), NEW p \in Nat, p >= 1, NEW w, HasColumns(w), ChunkAt(f, p, w),
         p + NCols(w) <= Len(f)
  PROVE  LET bod == Bodies(f, p)
         IN  /\ f[p] = Hdr(w) /\ bod \in Seq(Items) /\ Len(bod) \in Nat
             /\ \A i \in 1 .. Len(bod) : i <= NCols(w) /\ bod[i] = Body(w, i)
             /\ Len(bod) = NCols(w) <=> p + 2 * NCols(w) <= Len(f)
             /\ Len(bod) <= NCols(w)
<1> DEFINE c == NCols(w)
           m == Len(f)
           e == IF p + 2 * c <= m THEN p + 2 * c ELSE m
           q == p + c
           bod == Bodies(f, p)
<1>1. c \in Nat /\ m \in Nat
  <2>1. c \in 0 .. 4
    BY PutCols
  <2> QED BY <2>1, LenProperties
<1>2. f[p] = Hdr(w) /\ Hdr(w).nc = c
  <2>1. p <= m
    BY <1>1
  <2> QED BY <2>1, ItemTypes DEF ChunkAt
<1>3. bod = SubSeq(f, q + 1, e)
  BY <1>2 DEF Bodies
<1> HIDE DEF c, m, bod
<1>4. /\ q \in Nat /\ e \in Nat /\ q <= e /\ e <= m /\ e <= q + c /\ q >= 1
      /\ (e = q + c <=> p + 2 * c <= m)
  BY <1>1 DEF c, m
<1> HIDE DEF q, e
<1>5. /\ bod \in Seq(Items) /\ Len(bod) = e - q
      /\ \A i \in 1 .. e - q : bod[i] = f[q + i]
  <2>1. CASE q = e
    <3>1. bod = <<>>
      BY <1>3, <1>4, <2>1
    <3> QED BY <1>4, <2>1, <3>1
  <2>2. CASE q < e
    <3>0. q + 1 \in 1 .. m /\ e \in q .. m
      BY <1>1, <1>4, <2>2
    <3>1. /\ SubSeq(f, q + 1, e) \in Seq(Items)
          /\ Len(SubSeq(f, q + 1, e)) = IF q + 1 <= e THEN e - (q + 1) + 1 ELSE 0
          /\ \A i \in 1 .. (e - (q + 1) + 1) : SubSeq(f, q + 1, e)[i] = f[(q + 1) + i - 1]
      BY <1>1, <3>0, SubSeqProperties DEF m
    <3>2. q + 1 <= e /\ e - (q + 1) + 1 = e - q /\ \A i \in 1 .. e - q : (q + 1) + i - 1 = q + i
      BY <1>4, <2>2
    <3> QED BY <1>3, <3>1, <3>2
  <2> QED BY <1>4, <2>1, <2>2
<1>6. e - q \in 0 .. c /\ (e - q = c <=> p + 2 * c <= m)
  BY <1>1, <1>4
<1>7. ASSUME NEW i \in 1 .. Len(bod)
      PROVE  i <= c /\ bod[i] = Body(w, i)
  <2>1. i \in 1 .. e - q /\ i \in 1 .. c /\ q + i <= m
    BY <1>1, <1>4, <1>5, <1>6
  <2>2. f[q + i] = Body(w, i)
    <3>1. p + c + i <= m
      BY <2>1 DEF q
    <3> QED BY <2>1, <3>1 DEF ChunkAt, c, m, q
  <2> QED BY <1>5, <2>1, <2>2
<1> QED BY <1>2, <1>5, <1>6, <1>7 DEF c, m, bod

\* a whole chunk gives back its columns
LEMMA ChunkData ==
  ASSUME NEW w, HasColumns(w), NEW bod \in Seq(Items), Len(bod) = NCols(w),
         \A i \in 1 .. Len(bod) : bod[i] = Body(w, i), NEW x \in Ids
  PROVE  DataOf(bod, x) = w[x]
<1> DEFINE at == {i \in 1 .. Len(bod) : bod[i].id = x}
<1>1. NCols(w) \in Nat
  <2>1. NCols(w) \in 0 .. 4
    BY PutCols
  <2> QED BY <2>1
<1>2. \A i \in 1 .. NCols(w) : bod[i].id = put_cols(w)[i] /\ bod[i].data = w[put_cols(w)[i]]
  BY ItemTypes
<1>3. at = {i \in 1 .. NCols(w) : put_cols(w)[i] = x} /\ at \in SUBSET (1 .. NCols(w))
  BY <1>2
<1>4. DataOf(bod, x) = IF at = {} THEN <<>> ELSE bod[Max(at)].data
  BY DEF DataOf
<1> HIDE DEF at
<1>5. CASE at = {}
  <2>1. w[x] = <<>>
    BY <1>3, <1>5, ColumnThere
  <2> QED BY <1>4, <1>5, <2>1
<1>6. CASE at # {}
  <2>1. PICK k : k = Max(at)
    OBVIOUS
  <2>2. k \in at
    BY <1>1, <1>3, <1>6, <2>1, MaxFacts
  <2>3. k \in 1 .. NCols(w) /\ put_cols(w)[k] = x
    BY <1>3, <2>2
  <2>4. bod[k].data = w[x]
    BY <1>2, <2>3
  <2> QED BY <1>4, <1>6, <2>1, <2>4
<1> QED BY <1>5, <1>6

\* The places and column counts of a chain are naturals.
LEMMA ChainTypes ==
  ASSUME NEW K, NEW n \in Nat, NEW h, Chain(K, n, h)
  PROVE  \A j \in 1 .. n + 1 : K[j].at \in Nat /\ NCols(K[j]) \in Nat
<1> TAKE j \in 1 .. n + 1
<1>1. K[j].at \in Nat
  BY DEF Chain, IsChunk
<1>2. NCols(K[j]) \in 0 .. 4
  BY PutCols
<1>3. \A x \in 0 .. 4 : x \in Nat
  OBVIOUS
<1> QED BY <1>1, <1>2, <1>3, Zenon

\* the headers of a file are where its chunks are
LEMMA Locate ==
  ASSUME NEW K, NEW n \in Nat, NEW h, Chain(K, n, h), NEW f \in Seq(Items), FileOf(f, K, n),
         Len(f) <= K[n + 1].at, Len(f) = K[n + 1].at => f[Len(f)].k = "trailer",
         NEW p \in 1 .. Len(f), f[p].k = "hdr"
  PROVE  \E j \in 1 .. n : p = K[j].at
<1>1. Len(f) \in Nat /\ p \in Nat /\ f # <<>>
  <2>1. Len(f) \in Nat
    BY LenProperties
  <2>2. Len(f) # 0
    BY <2>1
  <2> QED BY <2>1, <2>2
<1>2. \A j \in 1 .. n + 1 : K[j].at \in Nat /\ NCols(K[j]) \in Nat
  BY ChainTypes
<1>3. p >= 2
  <2>1. p # 1
    <3>1. f[1] = Magic
      BY <1>1 DEF FileOf
    <3>2. Magic.k = "magic"
      BY DEF Magic, Item
    <3> QED BY <3>1, <3>2
  <2> QED BY <1>1, <2>1
<1> DEFINE T == {m \in Nat : m <= n /\ K[m + 1].at > p}
<1>4. PICK x \in T : \A y \in T : x <= y
  <2>1. K[n + 1].at > p
    <3>1. n + 1 \in 1 .. n + 1
      OBVIOUS
    <3>2. K[n + 1].at \in Nat
      BY <1>2, <3>1
    <3>3. p # K[n + 1].at
      <4> SUFFICES ASSUME p = K[n + 1].at
                   PROVE  FALSE
        OBVIOUS
      <4>1. Len(f) = K[n + 1].at
        BY <1>1, <3>2
      <4> QED BY <4>1
    <3> QED BY <1>1, <3>2, <3>3
  <2>2. n \in T
    BY <2>1
  <2>3. T \subseteq Nat /\ T # {}
    BY <2>2
  <2> HIDE DEF T
  <2> QED BY <2>3, LeastNat
<1>5. x # 0
  <2>1. K[0 + 1].at = 2
    BY DEF Chain
  <2>2. ~(2 > p)
    BY <1>1, <1>3
  <2> QED BY <1>4, <2>1, <2>2
<1>6. x \in 1 .. n /\ K[x + 1].at > p
  BY <1>4, <1>5
<1>7. ~(K[x].at > p)
  <2>1. x - 1 \in Nat /\ x - 1 <= n /\ ~(x <= x - 1) /\ (x - 1) + 1 = x
    BY <1>6
  <2>2. x - 1 \notin T
    BY <1>4, <2>1
  <2> QED BY <2>1, <2>2
<1> HIDE DEF T
<1>8. PICK a : a = K[x].at
  OBVIOUS
<1>9. PICK c : c = NCols(K[x])
  OBVIOUS
<1>10. a \in Nat /\ c \in Nat /\ a <= p /\ p < a + 1 + 2 * c
  <2>1. K[x + 1].at = a + 1 + 2 * c
    BY <1>6, <1>8, <1>9 DEF Chain, After
  <2>2. a \in Nat /\ c \in Nat
    BY <1>2, <1>6, <1>8, <1>9
  <2> QED BY <1>1, <1>6, <1>7, <1>8, <2>1, <2>2
<1>11. ChunkAt(f, a, K[x]) /\ HasColumns(K[x])
  BY <1>6, <1>8 DEF FileOf, Chain, IsChunk
<1>12. p <= Len(f)
  OBVIOUS
<1>13. CASE p = a
  BY <1>6, <1>8, <1>13
<1>14. CASE p # a /\ p <= a + c
  <2>1. PICK i : i = p - a
    OBVIOUS
  <2>2. i \in 1 .. c /\ a + i = p
    BY <1>1, <1>10, <1>14, <2>1
  <2>3. f[p] = Col(K[x], i)
    BY <1>9, <1>11, <1>12, <2>2 DEF ChunkAt
  <2>4. Col(K[x], i).k = "col"
    BY <1>9, <1>11, <2>2, ItemTypes
  <2> QED BY <2>3, <2>4
<1>15. CASE p > a + c
  <2>1. PICK i : i = p - (a + c)
    OBVIOUS
  <2>2. i \in 1 .. c /\ a + c + i = p
    BY <1>1, <1>10, <1>15, <2>1
  <2>3. f[p] = Body(K[x], i)
    BY <1>9, <1>11, <1>12, <2>2 DEF ChunkAt
  <2>4. Body(K[x], i).k = "body"
    BY <1>9, <1>11, <2>2, ItemTypes
  <2> QED BY <2>3, <2>4
<1>16. p <= a + c \/ p > a + c
  BY <1>1, <1>10
<1> QED BY <1>13, <1>14, <1>15, <1>16

\* the places of the first chunks are as many as these
LEMMA Places ==
  ASSUME NEW K, NEW n \in Nat, NEW h, Chain(K, n, h), NEW c \in 0 .. n
  PROVE  Cardinality({K[j].at : j \in 1 .. c}) = c
<1> DEFINE A(m) == {K[j].at : j \in 1 .. m}
           S == {m \in Nat : m <= n => IsFiniteSet(A(m)) /\ Cardinality(A(m)) = m}
<1>0. \A j \in 1 .. n + 1 : K[j].at \in Nat /\ NCols(K[j]) \in Nat
  BY ChainTypes
<1>9. \A m \in Nat : m + 1 \in Nat
  OBVIOUS
<1>1. 0 \in S
  <2>1. A(0) = {}
    OBVIOUS
  <2>2. IsFiniteSet({}) /\ Cardinality({}) = 0
    BY FS_EmptySet
  <2> QED BY <2>1, <2>2
<1>2. \A m \in Nat : m \in S => m + 1 \in S
  <2> SUFFICES ASSUME NEW m \in Nat, m \in S, m + 1 <= n
               PROVE  IsFiniteSet(A(m + 1)) /\ Cardinality(A(m + 1)) = m + 1
    BY <1>9
  <2> DEFINE q == K[m + 1].at
             B == A(m)
  <2>1. m <= n
    OBVIOUS
  <2>2. IsFiniteSet(B) /\ Cardinality(B) = m
    BY <2>1
  <2>3. A(m + 1) = B \cup {q}
    <3>1. 1 .. m + 1 = (1 .. m) \cup {m + 1}
      OBVIOUS
    <3>2. \A z : z \in A(m + 1) <=> z \in B \/ z = q
      BY <3>1
    <3> QED BY <3>2
  <2>4. q \notin B
    <3> SUFFICES ASSUME NEW j \in 1 .. m
                 PROVE  K[j].at # q
      OBVIOUS
    <3>1. j \in 1 .. n /\ m + 1 \in 1 .. n + 1 /\ j \in 1 .. n + 1 /\ j < m + 1
      OBVIOUS
    <3>2. K[j].at + 1 + 2 * NCols(K[j]) <= q
      BY <3>1, ChainOrder
    <3>3. PICK x : x = K[j].at
      OBVIOUS
    <3>4. PICK y : y = NCols(K[j])
      OBVIOUS
    <3>5. x \in Nat /\ y \in Nat /\ q \in Nat
      BY <1>0, <3>1, <3>3, <3>4
    <3>6. x + 1 + 2 * y <= q
      BY <3>2, <3>3, <3>4
    <3> HIDE DEF q
    <3>7. x # q
      BY <3>5, <3>6
    <3> QED BY <3>3, <3>7
  <2> HIDE DEF q, B
  <2>5. IsFiniteSet(B \cup {q}) /\ Cardinality(B \cup {q}) = m + 1
    BY <2>2, <2>4, FS_AddElement
  <2> QED BY <2>3, <2>5
<1> HIDE DEF S
<1>3. \A m \in Nat : m \in S
  BY <1>1, <1>2, NatSetInduction
<1>4. c \in Nat /\ c <= n
  OBVIOUS
<1> QED BY <1>3, <1>4 DEF S

\* a chunk whose header the file still has
LEMMA HeaderIs ==
  ASSUME NEW K, NEW n \in Nat, NEW h, Chain(K, n, h), NEW f, FileOf(f, K, n),
         NEW j \in 1 .. n, K[j].at <= Len(f)
  PROVE  f[K[j].at].k = "hdr" /\ f[K[j].at].nc = NCols(K[j])
<1>1. ChunkAt(f, K[j].at, K[j]) /\ HasColumns(K[j])
  BY DEF FileOf, Chain, IsChunk
<1>2. f[K[j].at] = Hdr(K[j])
  BY <1>1 DEF ChunkAt
<1> QED BY <1>1, <1>2, ItemTypes

\* a file that ends after c chunks, or in the bodies of the one after them, has every header whole
LEMMA NotInHeader ==
  ASSUME NEW K, NEW n \in Nat, NEW h, Chain(K, n, h), NEW f \in Seq(Items), FileOf(f, K, n),
         Len(f) <= K[n + 1].at, Len(f) = K[n + 1].at => f[Len(f)].k = "trailer",
         NEW c \in 0 .. n, Len(f) >= K[c + 1].at - 1,
         c < n => \/ Len(f) = K[c + 1].at - 1
                  \/ /\ K[c + 1].at + NCols(K[c + 1]) <= Len(f)
                     /\ K[c + 1].at + 2 * NCols(K[c + 1]) > Len(f)
  PROVE  ~InHeader(f)
<1>0. \A j \in 1 .. n + 1 : K[j].at \in Nat /\ NCols(K[j]) \in Nat
  BY ChainTypes
<1>1. Len(f) \in Nat
  BY LenProperties
<1> SUFFICES ASSUME NEW p \in 1 .. Len(f), f[p].k = "hdr", p + f[p].nc > Len(f)
             PROVE  FALSE
  BY DEF InHeader
<1>2. PICK j \in 1 .. n : p = K[j].at
  BY Locate
<1>3. f[p].nc = NCols(K[j])
  BY <1>1, <1>2, HeaderIs
<1>4. PICK y : y = NCols(K[j])
  OBVIOUS
<1>5. j \in 1 .. n + 1 /\ c + 1 \in 1 .. n + 1
  OBVIOUS
<1>6. PICK z : z = K[c + 1].at
  OBVIOUS
<1>7. p \in Nat /\ y \in Nat /\ z \in Nat /\ p <= Len(f) /\ p + y > Len(f) /\ Len(f) >= z - 1
  BY <1>0, <1>1, <1>2, <1>3, <1>4, <1>5, <1>6
<1>8. CASE j <= c
  <2>1. K[j].at + 1 + 2 * NCols(K[j]) <= K[c + 1].at
    <3>1. j < c + 1
      BY <1>8
    <3> QED BY <1>5, <3>1, ChainOrder
  <2>2. p + 1 + 2 * y <= z
    BY <1>2, <1>4, <1>6, <2>1
  <2> QED BY <1>1, <1>7, <2>2
<1>9. CASE j = c + 1
  <2>1. c < n /\ p = z
    BY <1>2, <1>6, <1>9
  <2>2. Len(f) = z - 1 \/ z + y <= Len(f)
    BY <1>4, <1>6, <1>9, <2>1
  <2> QED BY <1>1, <1>7, <2>1, <2>2
<1>10. CASE j > c + 1
  <2>1. c < n /\ c + 1 \in 1 .. n /\ c + 1 < j
    BY <1>10
  <2>2. K[c + 1].at + 1 + 2 * NCols(K[c + 1]) <= p
    BY <1>2, <1>5, <2>1, ChainOrder
  <2>3. PICK x : x = NCols(K[c + 1])
    OBVIOUS
  <2>4. x \in Nat /\ z + 1 + 2 * x <= p
    BY <1>0, <1>5, <1>6, <2>2, <2>3
  <2>5. Len(f) = z - 1 \/ z + 2 * x > Len(f)
    BY <1>6, <2>1, <2>3
  <2> QED BY <1>1, <1>7, <2>4, <2>5
<1> QED BY <1>8, <1>9, <1>10

\* the chunks that are whole are the first c, when the file ends before chunk c + 1 does
LEMMA WholeCount ==
  ASSUME NEW K, NEW n \in Nat, NEW h, Chain(K, n, h), NEW f \in Seq(Items), FileOf(f, K, n),
         Len(f) <= K[n + 1].at, Len(f) = K[n + 1].at => f[Len(f)].k = "trailer", NEW c \in 0 .. n, Len(f) >= K[c + 1].at - 1,
         c < n => K[c + 1].at + 2 * NCols(K[c + 1]) > Len(f)
  PROVE  Cardinality(Whole(f)) = c
<1>0. \A j \in 1 .. n + 1 : K[j].at \in Nat /\ NCols(K[j]) \in Nat
  BY ChainTypes
<1>1. Len(f) \in Nat
  BY LenProperties
<1>2. \A j \in 1 .. n : K[j].at <= Len(f) => f[K[j].at].k = "hdr" /\ f[K[j].at].nc = NCols(K[j])
  BY HeaderIs
<1>3. ASSUME NEW j \in 1 .. c
      PROVE  K[j].at \in Whole(f)
  <2>1. j \in 1 .. n /\ c + 1 \in 1 .. n + 1 /\ j < c + 1 /\ j \in 1 .. n + 1
    OBVIOUS
  <2>2. K[j].at + 1 + 2 * NCols(K[j]) <= K[c + 1].at /\ K[j].at >= 2
    BY <2>1, ChainOrder
  <2>3. PICK x : x = K[j].at
    OBVIOUS
  <2>4. PICK y : y = NCols(K[j])
    OBVIOUS
  <2>5. PICK z : z = K[c + 1].at
    OBVIOUS
  <2>6. x \in Nat /\ y \in Nat /\ z \in Nat
    BY <1>0, <2>1, <2>3, <2>4, <2>5
  <2>7. x + 1 + 2 * y <= z /\ x >= 2 /\ Len(f) >= z - 1
    BY <2>2, <2>3, <2>4, <2>5
  <2>8. x \in 1 .. Len(f) /\ x + 2 * y <= Len(f)
    BY <1>1, <2>6, <2>7
  <2>9. f[x].k = "hdr" /\ f[x].nc = y
    BY <1>2, <2>1, <2>3, <2>4, <2>8
  <2> QED BY <2>3, <2>8, <2>9 DEF Whole
<1>4. ASSUME NEW p \in Whole(f)
      PROVE  \E j \in 1 .. c : p = K[j].at
  <2>1. p \in 1 .. Len(f) /\ f[p].k = "hdr" /\ p + 2 * f[p].nc <= Len(f)
    BY DEF Whole
  <2>2. PICK j \in 1 .. n : p = K[j].at
    BY <2>1, Locate
  <2>3. p + 2 * NCols(K[j]) <= Len(f) /\ p <= Len(f)
    BY <1>2, <2>1, <2>2
  <2>4. j \in 1 .. n + 1
    OBVIOUS
  <2>5. CASE j <= c
    BY <2>2, <2>5
  <2>6. CASE j = c + 1
    <3>1. c < n
      BY <2>6
    <3>2. p + 2 * NCols(K[j]) > Len(f)
      BY <2>2, <2>6, <3>1
    <3>3. PICK y : y = p + 2 * NCols(K[j])
      OBVIOUS
    <3>4. y \in Nat
      <4>1. p \in Nat /\ NCols(K[j]) \in Nat
        BY <1>0, <2>2, <2>4
      <4>2. \A a, b \in Nat : a + 2 * b \in Nat
        OBVIOUS
      <4> QED BY <3>3, <4>1, <4>2, Zenon
    <3> QED BY <1>1, <2>3, <3>2, <3>3, <3>4
  <2>7. CASE j > c + 1
    <3>1. c < n /\ c + 1 \in 1 .. n /\ c + 1 < j /\ c + 1 \in 1 .. n + 1
      BY <2>7
    <3>2. K[c + 1].at + 1 + 2 * NCols(K[c + 1]) <= p
      BY <2>2, <2>4, <3>1, ChainOrder
    <3>3. PICK x : x = K[c + 1].at
      OBVIOUS
    <3>4. PICK y : y = NCols(K[c + 1])
      OBVIOUS
    <3>5. x \in Nat /\ y \in Nat /\ x + 1 + 2 * y <= p /\ x + 2 * y > Len(f) /\ p \in Nat
      BY <1>0, <2>1, <3>1, <3>2, <3>3, <3>4
    <3> QED BY <1>1, <2>3, <3>5
  <2> QED BY <2>5, <2>6, <2>7
<1>5. Whole(f) = {K[j].at : j \in 1 .. c}
  BY <1>3, <1>4
<1> QED BY <1>5, Places

\* full chunks begin at multiples of the chunk size
LEMMA FullStart ==
  ASSUME NEW K, NEW n \in Nat, NEW h, Chain(K, n, h), FullChunks(K, n), NEW c \in 0 .. n
  PROVE  K[c + 1].r = ChunkRecs * c
<1> DEFINE S == {m \in Nat : m <= n => K[m + 1].r = ChunkRecs * m}
<1>0. ChunkRecs \in Nat
  BY TracesAssumption
<1>1. 0 \in S
  <2>1. K[0 + 1].r = 0 /\ ChunkRecs * 0 = 0
    BY <1>0 DEF Chain
  <2> QED BY <2>1
<1>2. \A m \in Nat : m \in S => m + 1 \in S
  <2> SUFFICES ASSUME NEW m \in Nat, m \in S, m + 1 <= n
               PROVE  K[(m + 1) + 1].r = ChunkRecs * (m + 1)
    <3>1. \A m \in Nat : m + 1 \in Nat
      OBVIOUS
    <3> QED BY <3>1
  <2>1. m + 1 \in 1 .. n /\ m <= n
    OBVIOUS
  <2>2. K[m + 1].r = ChunkRecs * m
    BY <2>1
  <2>3. K[(m + 1) + 1].r = K[m + 1].r + Len(K[m + 1].rec) /\ Len(K[m + 1].rec) = ChunkRecs
    BY <2>1 DEF Chain, After, FullChunks, Full
  <2>4. ChunkRecs * (m + 1) = ChunkRecs * m + ChunkRecs
    BY <1>0
  <2> QED BY <2>2, <2>3, <2>4
<1> HIDE DEF S
<1>3. \A m \in Nat : m \in S
  BY <1>1, <1>2, NatSetInduction
<1>4. c \in Nat /\ c <= n
  OBVIOUS
<1> QED BY <1>3, <1>4 DEF S

-----------------------------------------------------------------------------
(* What the chunks have of a sparse stream t: of chunk j, which begins with record R[j] and with *)
(* entry A[j] of the stream.                                                                     *)

Lies(A, R, t, n) ==
  /\ A \in [1 .. n + 1 -> Nat] /\ R \in [1 .. n + 1 -> Nat] /\ t \in Seq(Nat) /\ A[1] = 0
  /\ \A j \in 1 .. n : /\ A[j] <= A[j + 1] /\ R[j] <= R[j + 1]
                       /\ \A i \in 1 .. Len(t) : A[j] < i /\ i <= A[j + 1] => R[j] <= t[i]

\* the entries of a chunk were logged before its last record
Ahead(A, R, t, n) ==
  \A j \in 1 .. n : \A i \in 1 .. Len(t) : A[j] < i /\ i <= A[j + 1] => t[i] < R[j + 1]

\* what is in the first chunks was logged before their last record
LEMMA LiesBefore ==
  ASSUME NEW A, NEW R, NEW t, NEW n \in Nat, Lies(A, R, t, n), NEW c \in 0 .. n, Ahead(A, R, t, c)
  PROVE  \A i \in 1 .. Len(t) : i <= A[c + 1] => t[i] < R[c + 1]
<1> DEFINE P(m) == \A i \in 1 .. Len(t) : i <= A[m + 1] => t[i] < R[m + 1]
           S == {m \in Nat : m <= c => P(m)}
<1>0. Len(t) \in Nat /\ \A i \in 1 .. Len(t) : t[i] \in Nat
  BY LenProperties, ElementOfSeq DEF Lies
<1>1. 0 \in S
  <2>1. A[0 + 1] = 0
    BY DEF Lies
  <2>2. \A i \in 1 .. Len(t) : ~(i <= 0)
    BY <1>0
  <2> QED BY <2>1, <2>2
<1>2. ASSUME NEW m \in Nat, m \in S
      PROVE  m + 1 \in S
  <2>1. SUFFICES ASSUME m + 1 <= c
                 PROVE  P(m + 1)
    OBVIOUS
  <2>2. P(m) /\ m + 1 \in 1 .. n /\ m + 1 \in 1 .. c
    BY <1>2, <2>1
  <2>3. SUFFICES ASSUME NEW i \in 1 .. Len(t), i <= A[(m + 1) + 1]
                 PROVE  t[i] < R[(m + 1) + 1]
    OBVIOUS
  <2>4. PICK a, b, p, q : a = A[m + 1] /\ b = A[(m + 1) + 1] /\ p = R[m + 1] /\ q = R[(m + 1) + 1]
    OBVIOUS
  <2>5. a \in Nat /\ b \in Nat /\ p \in Nat /\ q \in Nat /\ p <= q
    <3>1. m + 1 \in 1 .. n + 1 /\ (m + 1) + 1 \in 1 .. n + 1
      BY <2>2
    <3>2. R[m + 1] <= R[(m + 1) + 1]
      BY <2>2 DEF Lies
    <3> QED BY <2>4, <3>1, <3>2 DEF Lies
  <2>6. CASE i <= a
    <3>1. t[i] < p
      BY <2>2, <2>4, <2>6
    <3> QED BY <1>0, <2>4, <2>5, <3>1
  <2>7. CASE a < i
    <3>1. A[m + 1] < i /\ i <= A[(m + 1) + 1]
      BY <2>3, <2>4, <2>7
    <3> QED BY <2>2, <3>1 DEF Ahead
  <2> QED BY <1>0, <2>5, <2>6, <2>7
<1> HIDE DEF S
<1>3. \A m \in Nat : m \in S
  BY <1>1, <1>2, NatSetInduction
<1>4. c \in Nat /\ c <= c
  OBVIOUS
<1> QED BY <1>3, <1>4 DEF S

\* what is not in them was logged after it
LEMMA LiesBeyond ==
  ASSUME NEW A, NEW R, NEW t, NEW n \in Nat, Lies(A, R, t, n), NEW c \in 0 .. n,
         \A i \in 1 .. Len(t) : i > A[n + 1] => t[i] >= R[n + 1]
  PROVE  \A i \in 1 .. Len(t) : i > A[c + 1] => t[i] >= R[c + 1]
<1> DEFINE P(k) == \A i \in 1 .. Len(t) : i > A[k + 1] => t[i] >= R[k + 1]
           S == {m \in Nat : m <= n => P(n - m)}
<1>0. Len(t) \in Nat /\ \A i \in 1 .. Len(t) : t[i] \in Nat
  BY LenProperties, ElementOfSeq DEF Lies
<1>1. 0 \in S
  <2>1. n - 0 = n
    OBVIOUS
  <2>2. P(n)
    OBVIOUS
  <2> QED BY <2>1, <2>2
<1>2. ASSUME NEW m \in Nat, m \in S
      PROVE  m + 1 \in S
  <2>1. SUFFICES ASSUME m + 1 <= n
                 PROVE  P(n - (m + 1))
    OBVIOUS
  <2>2. PICK k : k = n - (m + 1)
    OBVIOUS
  <2>3. k \in Nat /\ k + 1 = n - m /\ k + 1 \in 1 .. n /\ m <= n
    BY <2>1, <2>2
  <2>4. P(k + 1)
    BY <1>2, <2>3
  <2>5. SUFFICES ASSUME NEW i \in 1 .. Len(t), i > A[k + 1]
                 PROVE  t[i] >= R[k + 1]
    BY <2>2
  <2>6. PICK a, b, p, q : a = A[k + 1] /\ b = A[(k + 1) + 1] /\ p = R[k + 1] /\ q = R[(k + 1) + 1]
    OBVIOUS
  <2>7. a \in Nat /\ b \in Nat /\ p \in Nat /\ q \in Nat /\ p <= q
    <3>1. k + 1 \in 1 .. n + 1 /\ (k + 1) + 1 \in 1 .. n + 1
      BY <2>3
    <3>2. R[k + 1] <= R[(k + 1) + 1]
      BY <2>3 DEF Lies
    <3> QED BY <2>6, <3>1, <3>2 DEF Lies
  <2>8. CASE i > b
    <3>1. t[i] >= q
      BY <2>4, <2>6, <2>8
    <3> QED BY <1>0, <2>6, <2>7, <3>1
  <2>9. CASE i <= b
    <3>1. A[k + 1] < i /\ i <= A[(k + 1) + 1]
      BY <2>5, <2>6, <2>7, <2>9
    <3>2. R[k + 1] <= t[i]
      BY <2>3, <3>1 DEF Lies
    <3> QED BY <1>0, <2>6, <2>7, <3>2
  <2> QED BY <1>0, <2>7, <2>8, <2>9
<1> HIDE DEF S
<1>3. \A m \in Nat : m \in S
  BY <1>1, <1>2, NatSetInduction
<1>4. n - c \in Nat /\ n - c <= n /\ n - (n - c) = c
  OBVIOUS
<1>5. P(n - (n - c))
  BY <1>3, <1>4 DEF S
<1> QED BY <1>4, <1>5

Starts(K, n)   == [j \in 1 .. n + 1 |-> K[j].r]
StoresAt(K, n) == [j \in 1 .. n + 1 |-> K[j].a]
ExcsAt(K, n)   == [j \in 1 .. n + 1 |-> K[j].e]

\* the stretch of the streams that a chunk has
LEMMA Stretch ==
  ASSUME NEW c, NEW d, NEW h, IsChunk(c), IsChunk(d), IsHist(h), Holds(c, h), After(c, d)
  PROVE  /\ c.r <= d.r /\ c.a <= d.a /\ c.e <= d.e
         /\ \A i \in 1 .. Len(h.st) : c.a < i /\ i <= d.a => c.r <= h.st[i] /\ (Full(c) => h.st[i] < d.r)
         /\ \A i \in 1 .. Len(h.exc) : c.e < i /\ i <= d.e => c.r <= h.exc[i] /\ (Full(c) => h.exc[i] < d.r)
<1>1. /\ c.r \in Nat /\ c.a \in Nat /\ c.e \in Nat /\ Len(c.rec) \in Nat /\ Len(c.st) \in Nat
      /\ Len(c.eidx) \in Nat /\ c.st \in Seq(Nat) /\ c.eidx \in Seq(Nat)
  BY LenProperties DEF IsChunk, HasColumns
<1>2. d.r = c.r + Len(c.rec) /\ d.a = c.a + Len(c.st) /\ d.e = c.e + Len(c.eidx)
  BY DEF After
<1>3. c.r <= d.r /\ c.a <= d.a /\ c.e <= d.e
  BY <1>1, <1>2
<1>4. \A o, s \in Nat : \A i \in Nat : o < i /\ i <= o + s => i - o \in 1 .. s /\ o + (i - o) = i
  OBVIOUS
<1>5. Len(h.st) \in Nat /\ Len(h.exc) \in Nat
  BY LenProperties DEF IsHist
<1>6. ASSUME NEW i \in 1 .. Len(h.st), c.a < i, i <= d.a
      PROVE  c.r <= h.st[i] /\ (Full(c) => h.st[i] < d.r)
  <2>1. PICK j : j = i - c.a
    OBVIOUS
  <2>2. i \in Nat
    BY <1>5
  <2>3. j \in 1 .. Len(c.st) /\ c.a + j = i
    BY <1>1, <1>2, <1>4, <1>6, <2>1, <2>2
  <2>4. c.st[j] = h.st[i] /\ c.st[j] >= c.r
    BY <2>3 DEF Holds
  <2>5. Full(c) => c.st[j] < c.r + Len(c.rec)
    BY <2>3 DEF Full
  <2>6. c.st[j] \in Nat
    BY <1>1, <2>3, ElementOfSeq
  <2> QED BY <1>1, <1>2, <2>4, <2>5, <2>6
<1>7. ASSUME NEW i \in 1 .. Len(h.exc), c.e < i, i <= d.e
      PROVE  c.r <= h.exc[i] /\ (Full(c) => h.exc[i] < d.r)
  <2>1. PICK j : j = i - c.e
    OBVIOUS
  <2>2. i \in Nat
    BY <1>5
  <2>3. j \in 1 .. Len(c.eidx) /\ c.e + j = i
    BY <1>1, <1>2, <1>4, <1>7, <2>1, <2>2
  <2>4. c.r + c.eidx[j] = h.exc[i]
    BY <2>3 DEF Holds
  <2>5. Full(c) => c.eidx[j] < Len(c.rec)
    BY <2>3 DEF Full
  <2>6. c.eidx[j] \in Nat
    BY <1>1, <2>3, ElementOfSeq
  <2>7. PICK y : y = c.eidx[j]
    OBVIOUS
  <2>8. c.r <= c.r + y /\ (Full(c) => c.r + y < c.r + Len(c.rec))
    BY <1>1, <2>5, <2>6, <2>7
  <2> QED BY <1>2, <2>4, <2>7, <2>8
<1> QED BY <1>3, <1>6, <1>7

\* the chunks of a chain, as stretches of the two streams
LEMMA ChainLies ==
  ASSUME NEW K, NEW n \in Nat, NEW h, IsHist(h), Chain(K, n, h)
  PROVE  /\ Lies(StoresAt(K, n), Starts(K, n), h.st, n) /\ Lies(ExcsAt(K, n), Starts(K, n), h.exc, n)
         /\ \A c \in 0 .. n : FullChunks(K, c) => /\ Ahead(StoresAt(K, n), Starts(K, n), h.st, c)
                                                /\ Ahead(ExcsAt(K, n), Starts(K, n), h.exc, c)
<1> DEFINE A == StoresAt(K, n)
           E == ExcsAt(K, n)
           R == Starts(K, n)
<1>1. \A j \in 1 .. n + 1 : IsChunk(K[j]) /\ Holds(K[j], h) /\ K[j].r \in Nat /\ K[j].a \in Nat /\ K[j].e \in Nat
  BY DEF Chain, IsChunk
<1>2. /\ A \in [1 .. n + 1 -> Nat] /\ E \in [1 .. n + 1 -> Nat] /\ R \in [1 .. n + 1 -> Nat]
      /\ \A j \in 1 .. n + 1 : A[j] = K[j].a /\ E[j] = K[j].e /\ R[j] = K[j].r
  BY <1>1 DEF StoresAt, ExcsAt, Starts
<1>3. A[1] = 0 /\ E[1] = 0
  <2>1. 1 \in 1 .. n + 1
    OBVIOUS
  <2>2. K[1].a = 0 /\ K[1].e = 0
    BY DEF Chain
  <2> QED BY <1>2, <2>1, <2>2
<1>4. h.st \in Seq(Nat) /\ h.exc \in Seq(Nat)
  BY DEF IsHist
<1> HIDE DEF A, E, R
<1>5. ASSUME NEW j \in 1 .. n
      PROVE  /\ A[j] <= A[j + 1] /\ E[j] <= E[j + 1] /\ R[j] <= R[j + 1]
             /\ \A i \in 1 .. Len(h.st) : A[j] < i /\ i <= A[j + 1] =>
                    R[j] <= h.st[i] /\ (Full(K[j]) => h.st[i] < R[j + 1])
             /\ \A i \in 1 .. Len(h.exc) : E[j] < i /\ i <= E[j + 1] =>
                    R[j] <= h.exc[i] /\ (Full(K[j]) => h.exc[i] < R[j + 1])
  <2>1. j \in 1 .. n + 1 /\ j + 1 \in 1 .. n + 1
    OBVIOUS
  <2>2. After(K[j], K[j + 1])
    BY DEF Chain
  <2>3. PICK c, d : c = K[j] /\ d = K[j + 1]
    OBVIOUS
  <2>4. IsChunk(c) /\ IsChunk(d) /\ Holds(c, h) /\ After(c, d)
    BY <1>1, <2>1, <2>2, <2>3
  <2>5. A[j] = c.a /\ A[j + 1] = d.a /\ E[j] = c.e /\ E[j + 1] = d.e /\ R[j] = c.r /\ R[j + 1] = d.r
    BY <1>2, <2>1, <2>3
  <2>6. c.r <= d.r /\ c.a <= d.a /\ c.e <= d.e
    BY <2>4, Stretch
  <2>7. \A i \in 1 .. Len(h.st) : c.a < i /\ i <= d.a => c.r <= h.st[i] /\ (Full(c) => h.st[i] < d.r)
    BY <2>4, Stretch
  <2>8. \A i \in 1 .. Len(h.exc) : c.e < i /\ i <= d.e => c.r <= h.exc[i] /\ (Full(c) => h.exc[i] < d.r)
    BY <2>4, Stretch
  <2> QED BY <2>3, <2>5, <2>6, <2>7, <2>8, Zenon
<1>6. Lies(A, R, h.st, n)
  BY <1>2, <1>3, <1>4, <1>5 DEF Lies
<1>7. Lies(E, R, h.exc, n)
  BY <1>2, <1>3, <1>4, <1>5 DEF Lies
<1>8. ASSUME NEW c \in 0 .. n, FullChunks(K, c)
      PROVE  Ahead(A, R, h.st, c) /\ Ahead(E, R, h.exc, c)
  <2>1. \A j \in 1 .. c : j \in 1 .. n /\ Full(K[j])
    BY <1>8 DEF FullChunks
  <2>2. Ahead(A, R, h.st, c)
    BY <1>5, <2>1 DEF Ahead
  <2>3. Ahead(E, R, h.exc, c)
    BY <1>5, <2>1 DEF Ahead
  <2> QED BY <2>2, <2>3
<1> QED BY <1>6, <1>7, <1>8 DEF A, E, R

\* what the first c chunks have, exactly
LEMMA Brought ==
  ASSUME NEW K, NEW n \in Nat, NEW h, IsHist(h), Chain(K, n, h), Filled(K, n, h), Trailing(K[n + 1], h),
         NEW c \in 0 .. n, NEW d, d = K[c + 1]
  PROVE  /\ d.r = IF ChunkRecs * c < Len(h.recs) THEN ChunkRecs * c ELSE Len(h.recs)
         /\ \A i \in 1 .. Len(h.st) : i <= d.a <=> h.st[i] < d.r \/ d.r < ChunkRecs * c
         /\ \A i \in 1 .. Len(h.exc) : i <= d.e <=> h.exc[i] < d.r \/ d.r < ChunkRecs * c
<1>0. ChunkRecs \in Nat /\ c \in Nat /\ ChunkRecs * c \in Nat
  BY TracesAssumption
<1>1. PICK f : f = ChunkRecs * c
  OBVIOUS
<1>2. /\ Len(h.recs) \in Nat /\ Len(h.st) \in Nat /\ Len(h.exc) \in Nat
      /\ (\A i \in 1 .. Len(h.st) : h.st[i] \in Nat) /\ \A i \in 1 .. Len(h.exc) : h.exc[i] \in Nat
  BY LenProperties, ElementOfSeq DEF IsHist
<1>3. c + 1 \in 1 .. n + 1 /\ n + 1 \in 1 .. n + 1
  OBVIOUS
<1>4. IsChunk(d) /\ Holds(d, h) /\ d.r \in Nat /\ d.a \in Nat /\ d.e \in Nat
  BY <1>3 DEF Chain, IsChunk
<1>5. d.r + Len(d.rec) <= Len(h.recs) /\ Len(d.rec) \in Nat
  BY <1>4, LenProperties DEF Holds, IsChunk, HasColumns
<1>6. /\ \A i \in 1 .. Len(h.st) : i > d.a => h.st[i] >= d.r
      /\ \A i \in 1 .. Len(h.exc) : i > d.e => h.exc[i] >= d.r
  <2> DEFINE A == StoresAt(K, n)
             E == ExcsAt(K, n)
             R == Starts(K, n)
  <2>1. Lies(A, R, h.st, n) /\ Lies(E, R, h.exc, n)
    BY ChainLies
  <2>2. \A j \in 1 .. n + 1 : A[j] = K[j].a /\ E[j] = K[j].e /\ R[j] = K[j].r
    BY DEF StoresAt, ExcsAt, Starts
  <2> HIDE DEF A, E, R
  <2>3. \A i \in 1 .. Len(h.st) : i > A[n + 1] => h.st[i] >= R[n + 1]
    BY <1>3, <2>2 DEF Trailing
  <2>4. \A i \in 1 .. Len(h.exc) : i > E[n + 1] => h.exc[i] >= R[n + 1]
    BY <1>3, <2>2 DEF Trailing
  <2>5. \A i \in 1 .. Len(h.st) : i > A[c + 1] => h.st[i] >= R[c + 1]
    BY <2>1, <2>3, LiesBeyond
  <2>6. \A i \in 1 .. Len(h.exc) : i > E[c + 1] => h.exc[i] >= R[c + 1]
    BY <2>1, <2>4, LiesBeyond
  <2>7. A[c + 1] = d.a /\ E[c + 1] = d.e /\ R[c + 1] = d.r
    BY <1>3, <2>2
  <2> QED BY <2>5, <2>6, <2>7
<1>7. CASE FullChunks(K, c)
  <2>1. Chain(K, c, h)
    BY DEF Chain
  <2>2. d.r = f
    <3>1. c \in 0 .. c
      OBVIOUS
    <3> QED BY <1>0, <1>1, <1>7, <2>1, <3>1, FullStart
  <2>3. /\ \A i \in 1 .. Len(h.st) : i <= d.a => h.st[i] < d.r
        /\ \A i \in 1 .. Len(h.exc) : i <= d.e => h.exc[i] < d.r
    <3> DEFINE A == StoresAt(K, n)
               E == ExcsAt(K, n)
               R == Starts(K, n)
    <3>1. Lies(A, R, h.st, n) /\ Lies(E, R, h.exc, n)
      BY ChainLies
    <3>2. Ahead(A, R, h.st, c) /\ Ahead(E, R, h.exc, c)
      BY <1>7, ChainLies
    <3>3. A[c + 1] = d.a /\ E[c + 1] = d.e /\ R[c + 1] = d.r
      BY <1>3 DEF StoresAt, ExcsAt, Starts
    <3> HIDE DEF A, E, R
    <3>4. \A i \in 1 .. Len(h.st) : i <= A[c + 1] => h.st[i] < R[c + 1]
      BY <3>1, <3>2, LiesBefore
    <3>5. \A i \in 1 .. Len(h.exc) : i <= E[c + 1] => h.exc[i] < R[c + 1]
      BY <3>1, <3>2, LiesBefore
    <3> QED BY <3>3, <3>4, <3>5
  <2>4. ~(d.r < f)
    BY <1>0, <1>1, <2>2
  <2>5. d.r = IF f < Len(h.recs) THEN f ELSE Len(h.recs)
    <3>1. d.r <= Len(h.recs)
      BY <1>2, <1>4, <1>5
    <3>2. f \in Nat
      BY <1>4, <2>2
    <3> QED BY <1>2, <2>2, <3>1, <3>2
  <2>6. \A i \in 1 .. Len(h.st) : i <= d.a <=> h.st[i] < d.r \/ d.r < f
    BY <1>2, <1>4, <1>6, <2>3, <2>4
  <2>7. \A i \in 1 .. Len(h.exc) : i <= d.e <=> h.exc[i] < d.r \/ d.r < f
    BY <1>2, <1>4, <1>6, <2>3, <2>4
  <2> QED BY <1>1, <2>5, <2>6, <2>7
<1>8. CASE ~FullChunks(K, c)
  <2>1. PICK j \in 1 .. c : ~Full(K[j])
    BY <1>8 DEF FullChunks
  <2>2. j \in 1 .. n /\ j = n /\ Short(K[j], K[j + 1], h)
    BY <2>1 DEF Filled
  <2>3. c = n /\ j = c /\ d = K[j + 1]
    BY <2>1, <2>2
  <2>4. d.e = Len(h.exc) /\ d.a = Len(h.st) /\ Len(K[c].rec) < ChunkRecs
    BY <2>2, <2>3 DEF Short
  <2>5. d.r = Len(h.recs)
    BY <2>3 DEF Trailing
  <2>6. PICK b : b = c - 1
    OBVIOUS
  <2>7. b \in 0 .. n /\ b \in Nat /\ b + 1 = c /\ c \in 1 .. n
    BY <2>1, <2>3, <2>6
  <2>8. FullChunks(K, b)
    <3> SUFFICES ASSUME NEW k \in 1 .. b
                 PROVE  Full(K[k])
      BY DEF FullChunks
    <3>1. k \in 1 .. n /\ k # n
      BY <2>3, <2>7
    <3> QED BY <3>1 DEF Filled
  <2>9. K[c].r = ChunkRecs * b
    <3>1. Chain(K, b, h)
      BY <2>7 DEF Chain
    <3>2. b \in 0 .. b
      BY <2>7
    <3> QED BY <2>7, <2>8, <3>1, <3>2, FullStart
  <2>10. d.r = K[c].r + Len(K[c].rec) /\ Len(K[c].rec) \in Nat
    <3>1. After(K[c], d) /\ IsChunk(K[c])
      BY <2>3, <2>7 DEF Chain
    <3> QED BY <3>1, LenProperties DEF After, IsChunk, HasColumns
  <2>11. f = ChunkRecs * b + ChunkRecs /\ ChunkRecs * b \in Nat
    BY <1>0, <1>1, <2>7
  <2>12. PICK x, y : x = ChunkRecs * b /\ y = Len(K[c].rec)
    OBVIOUS
  <2>13. x \in Nat /\ y \in Nat /\ y < ChunkRecs /\ d.r = x + y /\ f = x + ChunkRecs
    BY <2>4, <2>9, <2>10, <2>11, <2>12
  <2>14. d.r < f /\ d.r = IF f < Len(h.recs) THEN f ELSE Len(h.recs)
    BY <1>0, <1>2, <2>5, <2>13
  <2>15. (\A i \in 1 .. Len(h.st) : i <= d.a) /\ \A i \in 1 .. Len(h.exc) : i <= d.e
    BY <1>2, <2>4
  <2> QED BY <1>1, <2>14, <2>15
<1> QED BY <1>7, <1>8

-----------------------------------------------------------------------------
(* The reader. *)

\* s is the beginning of t, m elements long
Begins(s, t, m) == Len(s) = m /\ m <= Len(t) /\ \A i \in 1 .. m : s[i] = t[i]

ReaderFields == {"pos", "chunks", "recs", "excs", "stores", "mism", "rc", "trailer"}

\* the reader stands before the chunk after the ones it has read
ReaderAt(r, w, h, K) ==
  /\ DOMAIN r = ReaderFields
  /\ r.chunks \in 0 .. w.chunks /\ r.pos \in 0 .. Len(w.file)
  /\ (r.pos = 0 => r.chunks = 0) /\ (r.pos # 0 => r.pos = K[r.chunks + 1].at - 1)
  /\ r.recs \in Seq(Rec) /\ Begins(r.recs, h.recs, K[r.chunks + 1].r)
  /\ r.excs \in Seq(Nat) /\ Begins(r.excs, h.exc, K[r.chunks + 1].e)
  /\ r.stores \in Seq(Nat) /\ Begins(r.stores, h.st, K[r.chunks + 1].a)
  /\ r.mism = 0 /\ ~r.trailer

\* Begins, stated with the library operators on sequences.
LEMMA BeginsPrefix ==
  ASSUME NEW S, NEW s \in Seq(S), NEW t \in Seq(S), NEW m, Begins(s, t, m)
  PROVE  /\ IsPrefix(s, t) /\ s = SubSeq(t, 1, m)
         /\ m = Len(t) => s = t
<1>1. Len(s) = m /\ m \in Nat /\ m <= Len(t) /\ Len(t) \in Nat /\ \A i \in 1 .. m : s[i] = t[i]
  BY LenProperties DEF Begins
<1> DEFINE u == SubSeq(t, 1, m)
<1>2. u \in Seq(S) /\ Len(u) = m /\ \A i \in 1 .. m : u[i] = t[i]
  BY <1>1
<1> HIDE DEF u
<1>3. s = u
  BY <1>1, <1>2, SeqEqual
<1> DEFINE v == SubSeq(s, 1, m)
<1>4. v \in Seq(S) /\ Len(v) = m /\ \A i \in 1 .. m : v[i] = s[i]
  BY <1>1
<1> HIDE DEF v
<1>5. v = s
  BY <1>1, <1>4, SeqEqual
<1>6. IsPrefix(s, t)
  BY <1>1, <1>3, <1>5 DEF IsPrefix, u, v
<1>7. m = Len(t) => s = t
  BY <1>1, SeqEqual
<1> QED BY <1>3, <1>6, <1>7 DEF u

\* reading what follows
LEMMA BeginsConcat ==
  ASSUME NEW S, NEW s \in Seq(S), NEW t \in Seq(S), NEW u, NEW m, Begins(s, u, m), Len(u) \in Nat,
         m + Len(t) <= Len(u), \A i \in 1 .. Len(t) : t[i] = u[m + i]
  PROVE  s \o t \in Seq(S) /\ Begins(s \o t, u, m + Len(t))
<1> DEFINE x == s \o t
<1>1. Len(s) = m /\ m \in Nat /\ Len(t) \in Nat /\ \A i \in 1 .. m : s[i] = u[i]
  BY LenProperties DEF Begins
<1>2. /\ x \in Seq(S) /\ Len(x) = m + Len(t)
      /\ \A i \in 1 .. m + Len(t) : x[i] = IF i <= m THEN s[i] ELSE t[i - m]
  BY <1>1, ConcatProperties
<1> HIDE DEF x
<1>3. ASSUME NEW i \in 1 .. m + Len(t)
      PROVE  x[i] = u[i]
  <2>1. CASE i <= m
    BY <1>1, <1>2, <2>1
  <2>2. CASE ~(i <= m)
    <3>1. PICK j : j = i - m
      OBVIOUS
    <3>2. j \in 1 .. Len(t) /\ m + j = i
      BY <1>1, <2>2, <3>1
    <3>3. x[i] = t[j]
      BY <1>2, <2>2, <3>1
    <3>4. t[j] = u[m + j]
      BY <3>2
    <3> QED BY <3>2, <3>3, <3>4
  <2> QED BY <2>1, <2>2
<1> QED BY <1>2, <1>3 DEF x, Begins

\* what stands where the reader is: the next chunk, or the trailer of a closed file
LEMMA HereIs ==
  ASSUME NEW K, IsWriter(ct), IsHist(hist), Written(ct, hist, K), ReaderAt(rd, ct, hist, K),
         rd.pos \in 1 .. (Len(ct.file) - 1)
  PROVE  LET c == rd.chunks
             d == K[c + 1]
         IN  /\ rd.pos + 1 = d.at /\ d.at \in Nat /\ d.at >= 2 /\ d.at <= Len(ct.file)
             /\ IsChunk(d) /\ Holds(d, hist) /\ Here = ct.file[d.at]
             /\ c # ct.chunks => /\ c + 1 \in 1 .. ct.chunks
                                 /\ ChunkAt(ct.file, d.at, d) /\ d.rec # <<>>
                                 /\ Here = Hdr(d) /\ Here.nc = NCols(d) /\ Here.n = Len(d.rec)
                                 /\ NCols(d) \in 1 .. 4 /\ After(d, K[c + 2])
<1> DEFINE c == rd.chunks
           d == K[c + 1]
           n == ct.chunks
<1>1. n \in Nat /\ c \in 0 .. n /\ Len(ct.file) \in Nat /\ Chain(K, n, hist) /\ FileOf(ct.file, K, n)
  BY LenProperties DEF IsWriter, ReaderAt, Written
<1>2. rd.pos = d.at - 1 /\ rd.pos \in Nat /\ rd.pos <= Len(ct.file) - 1
  <2>1. rd.pos # 0 /\ rd.pos \in Nat /\ rd.pos <= Len(ct.file) - 1
    BY <1>1
  <2> QED BY <2>1 DEF ReaderAt
<1>3. c + 1 \in 1 .. n + 1
  BY <1>1
<1>4. IsChunk(d) /\ Holds(d, hist) /\ d.at >= 2
  BY <1>1, <1>3, ChainOrder DEF Chain
<1>5. d.at \in Nat
  BY <1>4 DEF IsChunk
<1>6. rd.pos + 1 = d.at /\ d.at <= Len(ct.file)
  BY <1>1, <1>2, <1>5
<1>7. Here = ct.file[d.at]
  BY <1>6 DEF Here
<1>8. ASSUME c # n
      PROVE  /\ c + 1 \in 1 .. n
             /\ ChunkAt(ct.file, d.at, d) /\ d.rec # <<>>
             /\ Here = Hdr(d) /\ Here.nc = NCols(d) /\ Here.n = Len(d.rec)
             /\ NCols(d) \in 1 .. 4 /\ After(d, K[c + 2])
  <2>1. c + 1 \in 1 .. n /\ (c + 1) + 1 = c + 2
    BY <1>1, <1>8
  <2>2. ChunkAt(ct.file, d.at, d) /\ d.rec # <<>> /\ After(d, K[(c + 1) + 1])
    BY <1>1, <2>1 DEF FileOf, Chain
  <2>3. Here = Hdr(d)
    BY <1>6, <1>7, <2>2 DEF ChunkAt
  <2>4. HasColumns(d)
    BY <1>4 DEF IsChunk
  <2>5. Hdr(d).nc = NCols(d) /\ Hdr(d).n = Len(d.rec)
    BY <2>4, ItemTypes
  <2>6. NCols(d) \in 0 .. 4 /\ NCols(d) >= 1
    BY <2>2, PutCols
  <2>7. \A z \in 0 .. 4 : z >= 1 => z \in 1 .. 4
    OBVIOUS
  <2>8. NCols(d) \in 1 .. 4
    BY <2>6, <2>7, Zenon
  <2> QED BY <2>1, <2>2, <2>3, <2>5, <2>8
<1> QED BY <1>4, <1>5, <1>6, <1>7, <1>8

\* a whole chunk takes the reader to the next
LEMMA ReadChunk ==
  ASSUME NEW K, IsWriter(ct), IsHist(hist), Written(ct, hist, K), ReaderAt(rd, ct, hist, K),
         rd.pos \in 1 .. (Len(ct.file) - 1), rd.chunks # ct.chunks,
         NEW d, d = K[rd.chunks + 1], d.at + 2 * NCols(d) <= Len(ct.file),
         NEW r, DOMAIN r = ReaderFields, r.pos = rd.pos + 1 + 2 * NCols(d), r.chunks = rd.chunks + 1,
         r.recs = rd.recs \o d.rec, r.stores = rd.stores \o d.st,
         r.excs = rd.excs \o [i \in 1 .. Len(d.eidx) |-> Len(rd.recs) + d.eidx[i]],
         r.mism = rd.mism + Mismatches(Len(rd.recs), d.rec), r.trailer = rd.trailer
  PROVE  ReaderAt(r, ct, hist, K)
<1> DEFINE c == rd.chunks
           g == K[c + 2]
<1>1. /\ rd.pos + 1 = d.at /\ d.at \in Nat /\ d.at >= 2 /\ IsChunk(d) /\ Holds(d, hist)
      /\ c + 1 \in 1 .. ct.chunks /\ NCols(d) \in 1 .. 4 /\ After(d, g)
  BY HereIs
<1>2. /\ rd.recs \in Seq(Rec) /\ Begins(rd.recs, hist.recs, d.r)
      /\ rd.excs \in Seq(Nat) /\ Begins(rd.excs, hist.exc, d.e)
      /\ rd.stores \in Seq(Nat) /\ Begins(rd.stores, hist.st, d.a)
      /\ rd.mism = 0 /\ ~rd.trailer /\ c \in 0 .. ct.chunks
  BY DEF ReaderAt
<1>3. /\ d.rec \in Seq(Rec) /\ d.eidx \in Seq(Nat) /\ d.st \in Seq(Nat) /\ d.r \in Nat
      /\ Len(hist.recs) \in Nat /\ Len(hist.exc) \in Nat /\ Len(hist.st) \in Nat /\ Len(d.eidx) \in Nat
      /\ Len(ct.file) \in Nat /\ ct.chunks \in Nat
  BY <1>1, LenProperties DEF IsChunk, HasColumns, IsHist, IsWriter
<1>4. r.chunks + 1 = c + 2 /\ r.chunks \in 0 .. ct.chunks /\ c \in Nat
  <2>1. \A x, y \in Nat : x + 1 \in 1 .. y => x + 1 \in 0 .. y /\ (x + 1) + 1 = x + 2
    OBVIOUS
  <2>2. c \in Nat
    BY <1>2, <1>3
  <2>3. r.chunks = c + 1
    OBVIOUS
  <2> HIDE DEF c
  <2> QED BY <1>1, <1>3, <2>1, <2>2, <2>3, Zenon
<1>5. g.at = d.at + 1 + 2 * NCols(d) /\ g.r = d.r + Len(d.rec) /\ g.e = d.e + Len(d.eidx) /\ g.a = d.a + Len(d.st)
  BY <1>1 DEF After
<1> HIDE DEF c, g
<1>6. r.pos \in 0 .. Len(ct.file) /\ r.pos # 0 /\ r.pos = g.at - 1
  <2>1. PICK y : y = NCols(d)
    OBVIOUS
  <2>2. PICK x : x = d.at
    OBVIOUS
  <2>3. /\ y \in Nat /\ x \in Nat /\ x >= 2 /\ r.pos = x + 2 * y /\ x + 2 * y <= Len(ct.file)
        /\ g.at = x + 1 + 2 * y
    BY <1>1, <1>5, <2>1, <2>2
  <2>4. x + 2 * y \in 0 .. Len(ct.file) /\ x + 2 * y # 0 /\ x + 2 * y = (x + 1 + 2 * y) - 1
    BY <1>3, <2>3
  <2> QED BY <2>3, <2>4
<1>7. r.recs \in Seq(Rec) /\ Begins(r.recs, hist.recs, g.r)
  <2>1. d.r + Len(d.rec) <= Len(hist.recs) /\ \A i \in 1 .. Len(d.rec) : d.rec[i] = hist.recs[d.r + i]
    BY <1>1 DEF Holds
  <2>2. rd.recs \o d.rec \in Seq(Rec) /\ Begins(rd.recs \o d.rec, hist.recs, d.r + Len(d.rec))
    BY <1>2, <1>3, <2>1, BeginsConcat
  <2> QED BY <1>5, <2>2
<1>8. r.stores \in Seq(Nat) /\ Begins(r.stores, hist.st, g.a)
  <2>1. d.a + Len(d.st) <= Len(hist.st) /\ \A i \in 1 .. Len(d.st) : d.st[i] = hist.st[d.a + i]
    BY <1>1 DEF Holds
  <2>2. rd.stores \o d.st \in Seq(Nat) /\ Begins(rd.stores \o d.st, hist.st, d.a + Len(d.st))
    BY <1>2, <1>3, <2>1, BeginsConcat
  <2> QED BY <1>5, <2>2
<1>9. r.excs \in Seq(Nat) /\ Begins(r.excs, hist.exc, g.e)
  <2> DEFINE m == Len(d.eidx)
             t == [i \in 1 .. m |-> Len(rd.recs) + d.eidx[i]]
  <2>0. Len(rd.recs) = d.r /\ m \in Nat
    BY <1>2, <1>3 DEF Begins
  <2>1. \A i \in 1 .. m : d.eidx[i] \in Nat
    BY <1>3, ElementOfSeq
  <2>2. \A i \in 1 .. m : Len(rd.recs) + d.eidx[i] \in Nat
    <3>1. \A x, y \in Nat : x + y \in Nat
      OBVIOUS
    <3> QED BY <1>3, <2>0, <2>1, <3>1, Zenon
  <2>3. d.e + m <= Len(hist.exc) /\ \A i \in 1 .. m : d.r + d.eidx[i] = hist.exc[d.e + i]
    BY <1>1 DEF Holds
  <2>4. r.excs = rd.excs \o t
    OBVIOUS
  <2> HIDE DEF m
  <2>5. t \in Seq(Nat) /\ Len(t) = m
    BY <2>0, <2>2
  <2>6. \A i \in 1 .. m : t[i] = hist.exc[d.e + i]
    BY <2>0, <2>3
  <2> HIDE DEF t
  <2>7. rd.excs \o t \in Seq(Nat) /\ Begins(rd.excs \o t, hist.exc, d.e + Len(t))
    BY <1>2, <1>3, <2>3, <2>5, <2>6, BeginsConcat
  <2> QED BY <1>5, <2>4, <2>5, <2>7 DEF m
<1>10. r.mism = 0
  <2> DEFINE M == {i \in 1 .. Len(d.rec) : d.r + i <= Len(ct.raw) /\ ct.raw[d.r + i] # d.rec[i]}
  <2>0. Len(rd.recs) = d.r /\ Len(d.rec) \in Nat /\ Len(ct.raw) \in Nat
    BY <1>2, <1>3, LenProperties DEF Begins, IsWriter
  <2>1. Mismatches(Len(rd.recs), d.rec) = Cardinality(M)
    BY <2>0 DEF Mismatches
  <2>2. M = {}
    <3> SUFFICES ASSUME NEW i \in 1 .. Len(d.rec), d.r + i <= Len(ct.raw)
                 PROVE  ct.raw[d.r + i] = d.rec[i]
      OBVIOUS
    <3>1. PICK j : j = d.r + i
      OBVIOUS
    <3>2. j \in 1 .. Len(ct.raw)
      <4>1. \A x, y, z \in Nat : z \in 1 .. x /\ y + z <= Len(ct.raw) => y + z \in 1 .. Len(ct.raw)
        BY <2>0
      <4>2. i \in Nat /\ i \in 1 .. Len(d.rec)
        BY <2>0
      <4> QED BY <1>3, <2>0, <3>1, <4>1, <4>2, Zenon
    <3>3. ct.raw[j] = hist.recs[j]
      BY <3>2 DEF Written
    <3>4. d.rec[i] = hist.recs[d.r + i]
      BY <1>1 DEF Holds
    <3> QED BY <3>1, <3>3, <3>4
  <2>3. Cardinality({}) = 0
    BY FS_EmptySet
  <2> HIDE DEF M
  <2>4. Mismatches(Len(rd.recs), d.rec) = 0
    BY <2>1, <2>2, <2>3
  <2>5. r.mism = rd.mism + Mismatches(Len(rd.recs), d.rec)
    OBVIOUS
  <2> QED BY <1>2, <2>4, <2>5
<1>11. g = K[r.chunks + 1]
  BY <1>4 DEF g
<1> QED BY <1>2, <1>4, <1>6, <1>7, <1>8, <1>9, <1>10, <1>11 DEF ReaderAt

-----------------------------------------------------------------------------
(* The invariant. *)

\* the writer's columns account for every record
Accounted ==
  /\ IsWriter(ct) /\ IsHist(hist) /\ Len(ct.rec) < ChunkRecs /\ IndexOk(ct)
  /\ ct.recs + Len(ct.rec) = Len(hist.recs)

\* the chain of chunks that the reader is following
Followed(K) ==
  /\ Ended(ct, hist, K) /\ (phase = "closed" => Closed(ct, hist, K))
  /\ rd.rc = -1 => ReaderAt(rd, ct, hist, K)

TracesInv ==
  /\ phase \in {"run", "closed", "killed"} /\ rd.rc \in -1 .. 3 /\ Accounted
  /\ phase = "run" => WriterOk(ct, hist) /\ rd = rd_open
  /\ phase # "run" => \E K : Followed(K)
  /\ RoundTrip /\ KilledPrefix

\* Every record is counted in a chunk or still pending.
LEMMA WriterAccounted ==
  ASSUME WriterOk(ct, hist), phase = "run"
  PROVE  Accounted
<1>1. PICK K : Laid(ct, hist, K)
  BY DEF WriterOk
<1>2. ct.recs + Len(ct.rec) = Len(hist.recs)
  BY <1>1 DEF Laid, Pending
<1> QED BY <1>2 DEF Accounted, WriterOk

\* The trace invariant holds of the opened trace.
LEMMA TracesInit == Init => TracesInv
<1> SUFFICES ASSUME Init
             PROVE  TracesInv
  OBVIOUS
<1>1. phase = "run" /\ rd = rd_open /\ rd.rc = -1
  BY DEF Init, rd_open
<1>2. WriterOk(ct, hist)
  BY InitOk DEF Init
<1>3. RoundTrip /\ KilledPrefix
  BY <1>1 DEF RoundTrip, KilledPrefix, Read
<1>4. Accounted
  BY <1>1, <1>2, WriterAccounted
<1> QED BY <1>1, <1>2, <1>3, <1>4 DEF TracesInv

\* A cycle: stores, records and an exception reach the writer.
LEMMA TracesCycle ==
  ASSUME TracesInv, NEW b \in Bundles, NEW st \in BOOLEAN, NEW irq \in BOOLEAN, Cycle(b, st, irq)
  PROVE  TracesInv'
<1>1. phase = "run" /\ phase' = phase /\ rd' = rd
  BY DEF Cycle
<1>2. WriterOk(ct, hist) /\ rd = rd_open
  BY <1>1 DEF TracesInv
<1>3. WriterOk(ct', hist')
  BY <1>2, CycleOk
<1>4. rd'.rc = -1 /\ phase' = "run"
  BY <1>1, <1>2 DEF rd_open
<1>5. RoundTrip' /\ KilledPrefix'
  BY <1>4 DEF RoundTrip, KilledPrefix, Read
<1>6. Accounted'
  <2>1. PICK K : Laid(ct', hist', K)
    BY <1>3 DEF WriterOk
  <2>2. ct'.recs + Len(ct'.rec) = Len(hist'.recs)
    BY <2>1 DEF Laid, Pending
  <2>3. IsWriter(ct') /\ IsHist(hist') /\ Len(ct'.rec) < ChunkRecs /\ IndexOk(ct')
    BY <1>3 DEF WriterOk
  <2> QED BY <1>4, <2>2, <2>3 DEF Accounted
<1>7. rd' = rd_open
  BY <1>1, <1>2
<1> QED BY <1>3, <1>4, <1>5, <1>6, <1>7 DEF TracesInv

\* the reader before it starts
LEMMA ReaderStarts ==
  ASSUME rd = rd_open, NEW w, NEW h, NEW K, IsWriter(w), IsHist(h), Written(w, h, K)
  PROVE  ReaderAt(rd, w, h, K)
<1>1. /\ DOMAIN rd = ReaderFields /\ rd.pos = 0 /\ rd.chunks = 0 /\ rd.recs = <<>> /\ rd.excs = <<>>
      /\ rd.stores = <<>> /\ rd.mism = 0 /\ ~rd.trailer
  BY DEF rd_open, ReaderFields
<1>2. K[1].r = 0 /\ K[1].e = 0 /\ K[1].a = 0
  BY DEF Written, Chain
<1>3. w.chunks \in Nat /\ Len(w.file) \in Nat /\ Len(h.recs) \in Nat /\ Len(h.exc) \in Nat /\ Len(h.st) \in Nat
  BY LenProperties DEF IsWriter, IsHist
<1>4. Len(<<>>) = 0 /\ <<>> \in Seq(Rec) /\ <<>> \in Seq(Nat) /\ 0 + 1 = 1
  OBVIOUS
<1>5. 0 \in 0 .. w.chunks /\ 0 \in 0 .. Len(w.file)
  BY <1>3
<1>6. \A t : Len(t) \in Nat => Begins(<<>>, t, 0)
  BY <1>4 DEF Begins
<1>7. Begins(<<>>, h.recs, 0) /\ Begins(<<>>, h.exc, 0) /\ Begins(<<>>, h.st, 0)
  BY <1>3, <1>6
<1> QED BY <1>1, <1>2, <1>4, <1>5, <1>7 DEF ReaderAt

\* The orderly end.
LEMMA TracesClose == TracesInv /\ Close => TracesInv'
<1> SUFFICES ASSUME TracesInv, Close
             PROVE  TracesInv'
  OBVIOUS
<1>1. phase = "run" /\ phase' = "closed" /\ rd' = rd /\ hist' = hist /\ ct' = ct_close(ct)
  BY DEF Close
<1>2. WriterOk(ct, hist) /\ rd = rd_open /\ IsHist(hist)
  BY <1>1 DEF TracesInv, WriterOk
<1>3. /\ IsWriter(ct') /\ ct'.rec = <<>> /\ IndexOk(ct') /\ ct'.recs = Len(hist.recs)
      /\ \E K : Closed(ct', hist, K)
  BY <1>1, <1>2, CloseOk
<1>4. PICK K : Closed(ct', hist, K)
  BY <1>3
<1>5. ReaderAt(rd', ct', hist', K)
  <2>1. Written(ct', hist, K)
    BY <1>4 DEF Closed, Ended
  <2> QED BY <1>1, <1>2, <1>3, <2>1, ReaderStarts
<1>6. rd'.rc = -1
  BY <1>1, <1>2 DEF rd_open
<1>7. RoundTrip' /\ KilledPrefix'
  BY <1>1, <1>6 DEF RoundTrip, KilledPrefix, Read
<1>8. Accounted'
  <2>1. Len(ct'.rec) = 0 /\ 0 < ChunkRecs
    BY <1>3, TracesAssumption
  <2>2. Len(hist.recs) \in Nat
    BY <1>2, LenProperties DEF IsHist
  <2>3. ct'.recs + Len(ct'.rec) = Len(hist.recs)
    BY <1>3, <2>1, <2>2
  <2> QED BY <1>1, <1>2, <1>3, <2>1, <2>3 DEF Accounted
<1>9. Followed(K)'
  BY <1>1, <1>4, <1>5 DEF Followed, Closed
<1> QED BY <1>1, <1>6, <1>7, <1>8, <1>9 DEF TracesInv

\* The kill, at any item of the file, also while close() writes it.
LEMMA TracesKill ==
  ASSUME TracesInv, NEW k \in 0 .. Len(ct_close(ct).file), NEW j \in 0 .. Len(ct.raw), Kill(k, j)
  PROVE  TracesInv'
<1> DEFINE w == ct_close(ct)
<1>1. /\ phase = "run" /\ phase' = "killed" /\ rd' = rd /\ hist' = hist
      /\ ct' = [w EXCEPT !.file = SubSeq(@, 1, k), !.raw = SubSeq(@, 1, j)]
  BY DEF Kill
<1>2. WriterOk(ct, hist) /\ rd = rd_open /\ IsHist(hist) /\ ct.raw = hist.recs
  BY <1>1 DEF TracesInv, WriterOk
<1>3. /\ IsWriter(w) /\ w.rec = <<>> /\ IndexOk(w) /\ w.recs = Len(hist.recs) /\ w.raw = hist.recs
      /\ \E K : Closed(w, hist, K)
  BY <1>2, CloseOk
<1> HIDE DEF w
<1>4. PICK K : Closed(w, hist, K)
  BY <1>3
<1>5. CutTo(ct', w, k, j)
  BY <1>1, <1>3 DEF CutTo, IsWriter
<1>6. k \in 0 .. Len(w.file) /\ j \in 0 .. Len(w.raw)
  BY <1>2, <1>3 DEF w
<1>7. IsWriter(ct') /\ Ended(ct', hist, K)
  BY <1>2, <1>3, <1>4, <1>5, <1>6, KillOk
<1>8. ct'.rec = <<>> /\ ct'.recs = Len(hist.recs) /\ IndexOk(ct')
  BY <1>3, <1>5 DEF CutTo, IndexOk
<1>9. ReaderAt(rd', ct', hist', K)
  <2>1. Written(ct', hist, K)
    BY <1>7 DEF Ended
  <2> QED BY <1>1, <1>2, <1>7, <2>1, ReaderStarts
<1>10. rd'.rc = -1
  BY <1>1, <1>2 DEF rd_open
<1>11. RoundTrip' /\ KilledPrefix'
  BY <1>1, <1>10 DEF RoundTrip, KilledPrefix, Read
<1>12. Accounted'
  <2>1. Len(ct'.rec) = 0 /\ 0 < ChunkRecs
    BY <1>8, TracesAssumption
  <2>2. Len(hist.recs) \in Nat
    BY <1>2, LenProperties DEF IsHist
  <2>3. ct'.recs + Len(ct'.rec) = Len(hist.recs)
    BY <1>8, <2>1, <2>2
  <2> QED BY <1>1, <1>2, <1>7, <1>8, <2>1, <2>3 DEF Accounted
<1>13. Followed(K)'
  BY <1>1, <1>7, <1>9 DEF Followed
<1> QED BY <1>1, <1>10, <1>11, <1>12, <1>13 DEF TracesInv

\* while the reader runs
LEMMA WhileReading ==
  ASSUME TracesInv, Reading
  PROVE  /\ phase \in {"closed", "killed"} /\ IsWriter(ct) /\ IsHist(hist)
         /\ \E K : Followed(K) /\ Written(ct, hist, K) /\ ReaderAt(rd, ct, hist, K)
<1>1. phase # "run" /\ rd.rc = -1 /\ phase \in {"closed", "killed"} /\ IsWriter(ct) /\ IsHist(hist)
  BY DEF Reading, TracesInv, Accounted
<1>2. PICK K : Followed(K)
  BY <1>1 DEF TracesInv
<1>3. Written(ct, hist, K) /\ ReaderAt(rd, ct, hist, K)
  BY <1>1, <1>2 DEF Followed, Ended
<1> QED BY <1>1, <1>2, <1>3

\* a step of the reader
LEMMA ReaderStep ==
  ASSUME TracesInv, phase # "run", UNCHANGED <<hist, ct, rt, phase>>, rd'.rc \in -1 .. 3,
         NEW K, Followed(K), rd'.rc = -1 => ReaderAt(rd', ct, hist, K),
         rd'.rc # -1 => RoundTrip' /\ KilledPrefix'
  PROVE  TracesInv'
<1>1. Accounted'
  <2>1. Accounted
    BY DEF TracesInv
  <2> QED BY <2>1 DEF Accounted
<1>2. Followed(K)'
  BY DEF Followed
<1>3. RoundTrip' /\ KilledPrefix'
  <2>1. rd'.rc = -1 => RoundTrip' /\ KilledPrefix'
    BY DEF RoundTrip, KilledPrefix, Read
  <2> QED BY <2>1
<1> QED BY <1>1, <1>2, <1>3 DEF TracesInv

\* what the reader has read, wherever it stands
LEMMA ReadExact ==
  ASSUME IsWriter(ct), IsHist(hist), NEW K, Ended(ct, hist, K), ReaderAt(rd, ct, hist, K)
  PROVE  LET full == ChunkRecs * rd.chunks
         IN  /\ rd.recs = SubSeq(hist.recs, 1, IF full < Len(hist.recs) THEN full ELSE Len(hist.recs))
             /\ SparseExact(rd.stores, hist.st) /\ SparseExact(rd.excs, hist.exc)
<1>1. PICK c, n, d : c = rd.chunks /\ n = ct.chunks /\ d = K[c + 1]
  OBVIOUS
<1>2. /\ n \in Nat /\ c \in 0 .. n /\ Chain(K, n, hist) /\ Filled(K, n, hist) /\ Trailing(K[n + 1], hist)
  BY <1>1 DEF IsWriter, ReaderAt, Ended, Written
<1>3. PICK f : f = ChunkRecs * c
  OBVIOUS
<1>4. d.r = IF f < Len(hist.recs) THEN f ELSE Len(hist.recs)
  BY <1>1, <1>2, <1>3, Brought
<1>5. \A i \in 1 .. Len(hist.st) : i <= d.a <=> hist.st[i] < d.r \/ d.r < f
  BY <1>1, <1>2, <1>3, Brought
<1>6. \A i \in 1 .. Len(hist.exc) : i <= d.e <=> hist.exc[i] < d.r \/ d.r < f
  BY <1>1, <1>2, <1>3, Brought
<1>7. /\ rd.recs \in Seq(Rec) /\ Begins(rd.recs, hist.recs, d.r) /\ hist.recs \in Seq(Rec)
      /\ rd.stores \in Seq(Nat) /\ Begins(rd.stores, hist.st, d.a) /\ hist.st \in Seq(Nat)
      /\ rd.excs \in Seq(Nat) /\ Begins(rd.excs, hist.exc, d.e) /\ hist.exc \in Seq(Nat)
  BY <1>1 DEF ReaderAt, IsHist
<1>8. rd.recs = SubSeq(hist.recs, 1, d.r)
  BY <1>7, BeginsPrefix
<1>9. IsPrefix(rd.stores, hist.st)
  BY <1>7, BeginsPrefix
<1>10. IsPrefix(rd.excs, hist.exc)
  BY <1>7, BeginsPrefix
<1>11. Len(rd.recs) = d.r /\ Len(rd.stores) = d.a /\ Len(rd.excs) = d.e
  BY <1>7 DEF Begins
<1>12. SparseExact(rd.stores, hist.st)
  BY <1>1, <1>3, <1>5, <1>9, <1>11 DEF SparseExact
<1>13. SparseExact(rd.excs, hist.exc)
  BY <1>1, <1>3, <1>6, <1>10, <1>11 DEF SparseExact
<1> QED BY <1>1, <1>3, <1>4, <1>8, <1>12, <1>13

\* the file ends with the trailer where it has one
LEMMA EndedFacts ==
  ASSUME IsWriter(ct), NEW K, Ended(ct, hist, K)
  PROVE  /\ ct.chunks \in Nat /\ Chain(K, ct.chunks, hist) /\ FileOf(ct.file, K, ct.chunks)
         /\ ct.file \in Seq(Items) /\ Len(ct.file) \in Nat /\ Len(ct.file) <= K[ct.chunks + 1].at
         /\ Len(ct.file) = K[ct.chunks + 1].at => ct.file[Len(ct.file)].k = "trailer"
<1>1. Trailer(ct.chunks, Len(hist.recs)).k = "trailer"
  BY DEF Trailer, Item
<1> QED BY <1>1, LenProperties DEF IsWriter, Ended, Written

\* the reader stops where the whole chunks end
LEMMA StopsShort ==
  ASSUME IsWriter(ct), IsHist(hist), NEW K, Ended(ct, hist, K), ReaderAt(rd, ct, hist, K),
         rd.pos > 0 \/ ct.file = <<>>,
         rd.chunks < ct.chunks => K[rd.chunks + 1].at + 2 * NCols(K[rd.chunks + 1]) > Len(ct.file)
  PROVE  Salvaged
<1> DEFINE c == rd.chunks
           n == ct.chunks
<1>1. /\ n \in Nat /\ Chain(K, n, hist) /\ FileOf(ct.file, K, n) /\ ct.file \in Seq(Items)
      /\ Len(ct.file) \in Nat /\ Len(ct.file) <= K[n + 1].at
      /\ Len(ct.file) = K[n + 1].at => ct.file[Len(ct.file)].k = "trailer"
  BY EndedFacts
<1>2. c \in 0 .. n /\ rd.pos \in 0 .. Len(ct.file) /\ rd.mism = 0
  BY DEF ReaderAt
<1>3. CASE rd.pos > 0
  <2>1. rd.pos = K[c + 1].at - 1
    <3>1. rd.pos # 0
      BY <1>1, <1>2, <1>3
    <3> QED BY <3>1 DEF ReaderAt
  <2>2. Len(ct.file) >= K[c + 1].at - 1
    BY <1>1, <1>2, <2>1
  <2>3. c < n => K[c + 1].at + 2 * NCols(K[c + 1]) > Len(ct.file)
    OBVIOUS
  <2>4. Cardinality(Whole(ct.file)) = c
    <3> HIDE DEF c, n
    <3> QED BY <1>1, <1>2, <2>2, <2>3, WholeCount
  <2> QED BY <1>2, <2>4, ReadExact DEF Salvaged
<1>4. CASE ct.file = <<>>
  <2>1. Len(ct.file) = 0
    BY <1>4
  <2>2. rd.pos = 0
    BY <1>2, <2>1
  <2>3. c = 0
    BY <2>2 DEF ReaderAt
  <2>4. Whole(ct.file) = {}
    BY <2>1 DEF Whole
  <2>5. Cardinality(Whole(ct.file)) = c
    BY <2>3, <2>4, FS_EmptySet
  <2> QED BY <1>2, <2>5, ReadExact DEF Salvaged
<1> QED BY <1>3, <1>4

\* the reader at the trailer has read everything
LEMMA ReadsAll ==
  ASSUME IsWriter(ct), IsHist(hist), NEW K, Ended(ct, hist, K), ReaderAt(rd, ct, hist, K),
         rd.chunks = ct.chunks
  PROVE  rd.recs = hist.recs
<1> DEFINE d == K[ct.chunks + 1]
<1>1. /\ rd.recs \in Seq(Rec) /\ Begins(rd.recs, hist.recs, d.r) /\ hist.recs \in Seq(Rec)
      /\ Trailing(d, hist)
  BY DEF ReaderAt, IsHist, Ended
<1>2. PICK m : m = d.r
  OBVIOUS
<1>3. Begins(rd.recs, hist.recs, m) /\ m = Len(hist.recs)
  BY <1>1, <1>2 DEF Trailing
<1> QED BY <1>1, <1>3, BeginsPrefix

\* a killed run that the reader gives up or finishes
LEMMA KilledStop ==
  ASSUME TracesInv, Reading, UNCHANGED <<hist, ct, rt, phase>>, phase = "killed",
         NEW K, Followed(K), ReaderAt(rd, ct, hist, K), rd.pos > 0 \/ ct.file = <<>>,
         rd.chunks < ct.chunks => K[rd.chunks + 1].at + 2 * NCols(K[rd.chunks + 1]) > Len(ct.file),
         rd'.rc = IF ct.file = <<>> \/ InHeader(ct.file) THEN 1 ELSE 0,
         rd'.chunks = rd.chunks, rd'.recs = rd.recs, rd'.stores = rd.stores,
         rd'.mism = rd.mism, rd'.trailer => rd.recs = hist.recs
  PROVE  TracesInv'
<1>1. IsWriter(ct) /\ IsHist(hist)
  BY WhileReading
<1>2. Ended(ct, hist, K)
  BY DEF Followed
<1>3. Salvaged
  BY <1>1, <1>2, StopsShort
<1>4. SparseExact(rd.stores, hist.st)'
  BY <1>3 DEF Salvaged, SparseExact
<1>5. Salvaged'
  BY <1>3, <1>4 DEF Salvaged, Whole
<1>6. rd'.rc = (IF ct.file = <<>> \/ InHeader(ct.file) THEN 1 ELSE 0)'
  BY DEF InHeader
<1>7. KilledPrefix'
  BY <1>5, <1>6 DEF KilledPrefix, Read
<1>8. RoundTrip'
  BY DEF RoundTrip, Read
<1>9. rd'.rc \in -1 .. 3 /\ rd'.rc # -1
  <2>1. rd'.rc = 1 \/ rd'.rc = 0
    OBVIOUS
  <2> QED BY <2>1
<1>10. phase # "run"
  OBVIOUS
<1> QED BY <1>7, <1>8, <1>9, <1>10, ReaderStep

\* The reader checks the magic.
LEMMA TracesMagic == TracesInv /\ rd_magic => TracesInv'
<1> SUFFICES ASSUME TracesInv, rd_magic
             PROVE  TracesInv'
  OBVIOUS
<1>1. Reading /\ rd.pos = 0 /\ UNCHANGED <<hist, ct, rt, phase>>
      /\ rd' = IF ct.file = <<>> THEN [rd EXCEPT !.rc = 1] ELSE [rd EXCEPT !.pos = 1]
  BY DEF rd_magic
<1>2. phase \in {"closed", "killed"} /\ IsWriter(ct) /\ IsHist(hist)
  BY <1>1, WhileReading
<1>3. PICK K : Followed(K) /\ Written(ct, hist, K) /\ ReaderAt(rd, ct, hist, K)
  BY <1>1, WhileReading
<1>4. DOMAIN rd = ReaderFields /\ rd.rc = -1 /\ rd.chunks = 0
  BY <1>1, <1>3 DEF ReaderAt, Reading
<1>5. CASE ct.file = <<>>
  <2>1. rd'.rc = 1
    BY <1>1, <1>4, <1>5 DEF ReaderFields
  <2>2. phase # "closed"
    <3> SUFFICES ASSUME phase = "closed"
                 PROVE  FALSE
      OBVIOUS
    <3>1. Len(ct.file) = K[ct.chunks + 1].at
      BY <1>3 DEF Followed, Closed
    <3>2. ct.chunks \in Nat /\ Chain(K, ct.chunks, hist)
      BY <1>2, <1>3 DEF IsWriter, Written
    <3>3. ct.chunks + 1 \in 1 .. ct.chunks + 1
      BY <3>2
    <3>4. K[ct.chunks + 1].at >= 2
      BY <3>2, <3>3, ChainOrder
    <3>5. Len(ct.file) = 0
      BY <1>5
    <3> QED BY <3>1, <3>4, <3>5
  <2>3. /\ rd'.chunks = rd.chunks /\ rd'.recs = rd.recs /\ rd'.stores = rd.stores
        /\ rd'.mism = rd.mism /\ rd'.trailer = rd.trailer
    BY <1>1, <1>4, <1>5 DEF ReaderFields
  <2>4. rd.chunks < ct.chunks => K[rd.chunks + 1].at + 2 * NCols(K[rd.chunks + 1]) > Len(ct.file)
    <3>1. ct.chunks \in Nat /\ Chain(K, ct.chunks, hist)
      BY <1>2, <1>3 DEF IsWriter, Written
    <3>2. 0 + 1 \in 1 .. ct.chunks + 1 /\ K[0 + 1].at = 2
      BY <3>1 DEF Chain
    <3>3. NCols(K[0 + 1]) \in Nat
      BY <3>1, <3>2, ChainTypes
    <3>4. Len(ct.file) = 0
      BY <1>5
    <3>5. \A y \in Nat : 2 + 2 * y > 0
      OBVIOUS
    <3> QED BY <1>4, <3>2, <3>3, <3>4, <3>5
  <2>5. ~rd.trailer
    BY <1>3 DEF ReaderAt
  <2>6. phase = "killed"
    BY <1>2, <2>2
  <2>7. rd'.rc = IF ct.file = <<>> \/ InHeader(ct.file) THEN 1 ELSE 0
    BY <1>5, <2>1
  <2> QED BY <1>1, <1>3, <1>5, <2>3, <2>4, <2>5, <2>6, <2>7, KilledStop
<1>6. CASE ct.file # <<>>
  <2>1. rd' = [rd EXCEPT !.pos = 1]
    BY <1>1, <1>6
  <2>2. /\ DOMAIN rd' = ReaderFields /\ rd'.pos = 1 /\ rd'.chunks = rd.chunks /\ rd'.recs = rd.recs /\ rd'.excs = rd.excs
        /\ rd'.stores = rd.stores /\ rd'.mism = rd.mism /\ rd'.trailer = rd.trailer /\ rd'.rc = rd.rc
    BY <1>4, <2>1 DEF ReaderFields
  <2>3. K[0 + 1].at = 2
    BY <1>3 DEF Written, Chain
  <2>4. 1 \in 0 .. Len(ct.file)
    <3>1. ct.file \in Seq(Items)
      BY <1>2 DEF IsWriter
    <3>2. Len(ct.file) \in Nat /\ Len(ct.file) # 0
      BY <1>6, <3>1, EmptySeq, LenProperties
    <3> QED BY <3>2
  <2>5. 2 - 1 = 1
    OBVIOUS
  <2>6. ReaderAt(rd', ct, hist, K)
    BY <1>3, <1>4, <2>2, <2>3, <2>4, <2>5 DEF ReaderAt
  <2>7. rd'.rc = -1 /\ -1 \in -1 .. 3
    BY <1>4, <2>2
  <2> QED BY <1>1, <1>2, <1>3, <2>6, <2>7, ReaderStep
<1> QED BY <1>5, <1>6

\* The reader meets the end of the file between chunks.
LEMMA TracesEnd == TracesInv /\ rd_end => TracesInv'
<1> SUFFICES ASSUME TracesInv, rd_end
             PROVE  TracesInv'
  OBVIOUS
<1>1. Reading /\ rd.pos = Len(ct.file) /\ rd.pos > 0 /\ UNCHANGED <<hist, ct, rt, phase>>
      /\ rd' = [rd EXCEPT !.rc = Exit(rd)]
  BY DEF rd_end
<1>2. phase \in {"closed", "killed"} /\ IsWriter(ct) /\ IsHist(hist)
  BY <1>1, WhileReading
<1>3. PICK K : Followed(K) /\ Written(ct, hist, K) /\ ReaderAt(rd, ct, hist, K)
  BY <1>1, WhileReading
<1>4. DOMAIN rd = ReaderFields /\ rd.mism = 0 /\ rd.chunks \in 0 .. ct.chunks
  BY <1>3 DEF ReaderAt
<1>5. /\ rd'.rc = 0 /\ rd'.chunks = rd.chunks /\ rd'.recs = rd.recs /\ rd'.stores = rd.stores
      /\ rd'.mism = rd.mism /\ rd'.trailer = rd.trailer
  <2>1. Exit(rd) = 0
    BY <1>4 DEF Exit
  <2> QED BY <1>1, <1>4, <2>1 DEF ReaderFields
<1>6. /\ ct.chunks \in Nat /\ Chain(K, ct.chunks, hist) /\ Len(ct.file) \in Nat
      /\ Len(ct.file) = K[rd.chunks + 1].at - 1
  <2>1. ct.chunks \in Nat /\ Chain(K, ct.chunks, hist) /\ Len(ct.file) \in Nat
    BY <1>2, <1>3, LenProperties DEF IsWriter, Written
  <2>2. rd.pos # 0
    BY <1>1, <2>1
  <2>3. rd.pos = K[rd.chunks + 1].at - 1
    BY <1>3, <2>2 DEF ReaderAt
  <2> QED BY <1>1, <2>1, <2>3
<1>7. rd.chunks + 1 \in 1 .. ct.chunks + 1 /\ ct.chunks + 1 \in 1 .. ct.chunks + 1
  BY <1>4, <1>6
<1>8. K[rd.chunks + 1].at \in Nat /\ NCols(K[rd.chunks + 1]) \in Nat
  BY <1>6, <1>7, ChainTypes
<1>9. phase = "killed"
  <2> SUFFICES ASSUME phase = "closed"
               PROVE  FALSE
    BY <1>2
  <2>1. Len(ct.file) = K[ct.chunks + 1].at
    BY <1>3 DEF Followed, Closed
  <2>2. CASE rd.chunks = ct.chunks
    BY <1>6, <1>8, <2>1, <2>2
  <2>3. CASE rd.chunks # ct.chunks
    <3>1. rd.chunks + 1 \in 1 .. ct.chunks /\ rd.chunks + 1 < ct.chunks + 1
      BY <1>4, <1>6, <2>3
    <3>2. K[rd.chunks + 1].at + 1 + 2 * NCols(K[rd.chunks + 1]) <= K[ct.chunks + 1].at
      BY <1>6, <1>7, <3>1, ChainOrder
    <3>3. PICK x : x = K[rd.chunks + 1].at
      OBVIOUS
    <3>4. PICK y : y = NCols(K[rd.chunks + 1])
      OBVIOUS
    <3>5. x \in Nat /\ y \in Nat /\ Len(ct.file) = x - 1 /\ x + 1 + 2 * y <= Len(ct.file)
      BY <1>6, <1>8, <2>1, <3>2, <3>3, <3>4
    <3> QED BY <3>5
  <2> QED BY <2>2, <2>3
<1>10. K[rd.chunks + 1].at + 2 * NCols(K[rd.chunks + 1]) > Len(ct.file)
  <2>3. PICK x : x = K[rd.chunks + 1].at
    OBVIOUS
  <2>4. PICK y : y = NCols(K[rd.chunks + 1])
    OBVIOUS
  <2>5. x \in Nat /\ y \in Nat /\ Len(ct.file) = x - 1
    BY <1>6, <1>8, <2>3, <2>4
  <2>6. x + 2 * y > x - 1
    BY <2>5
  <2> QED BY <2>3, <2>4, <2>5, <2>6
<1>11. ~InHeader(ct.file)
  <2>1. Ended(ct, hist, K)
    BY <1>3 DEF Followed
  <2>2. /\ FileOf(ct.file, K, ct.chunks) /\ ct.file \in Seq(Items) /\ Len(ct.file) <= K[ct.chunks + 1].at
        /\ Len(ct.file) = K[ct.chunks + 1].at => ct.file[Len(ct.file)].k = "trailer"
    BY <1>2, <2>1, EndedFacts
  <2>3. PICK c : c = rd.chunks
    OBVIOUS
  <2>4. c \in 0 .. ct.chunks /\ Len(ct.file) = K[c + 1].at - 1 /\ Len(ct.file) >= K[c + 1].at - 1
    BY <1>4, <1>6, <2>3
  <2> QED BY <1>6, <2>2, <2>4, NotInHeader
<1>12. ct.file # <<>>
  <2>1. Len(ct.file) # 0
    BY <1>1, <1>6
  <2> QED BY <2>1
<1>13. rd'.rc = IF ct.file = <<>> \/ InHeader(ct.file) THEN 1 ELSE 0
  BY <1>5, <1>11, <1>12
<1>14. ~rd'.trailer
  BY <1>3, <1>5 DEF ReaderAt
<1> QED BY <1>1, <1>3, <1>5, <1>9, <1>10, <1>13, <1>14, KilledStop

\* The reader meets the trailer.
LEMMA TracesTrailer == TracesInv /\ rd_trailer => TracesInv'
<1> SUFFICES ASSUME TracesInv, rd_trailer
             PROVE  TracesInv'
  OBVIOUS
<1>1. Reading /\ rd.pos \in 1 .. (Len(ct.file) - 1) /\ Here.nc = 0 /\ UNCHANGED <<hist, ct, rt, phase>>
  BY DEF rd_trailer
<1>2. phase \in {"closed", "killed"} /\ IsWriter(ct) /\ IsHist(hist)
  BY <1>1, WhileReading
<1>3. PICK K : Followed(K) /\ Written(ct, hist, K) /\ ReaderAt(rd, ct, hist, K)
  BY <1>1, WhileReading
<1>4. DOMAIN rd = ReaderFields /\ rd.mism = 0
  BY <1>3 DEF ReaderAt
<1>5. rd.chunks = ct.chunks
  <2> SUFFICES ASSUME rd.chunks # ct.chunks
               PROVE  FALSE
    OBVIOUS
  <2>1. Here.nc = NCols(K[rd.chunks + 1]) /\ NCols(K[rd.chunks + 1]) \in 1 .. 4
    BY <1>1, <1>2, <1>3, HereIs
  <2>2. 0 \notin 1 .. 4
    OBVIOUS
  <2> QED BY <1>1, <2>1, <2>2
<1>6. /\ K[ct.chunks + 1].at \in Nat /\ K[ct.chunks + 1].at <= Len(ct.file)
      /\ Here = ct.file[K[ct.chunks + 1].at]
  BY <1>1, <1>2, <1>3, <1>5, HereIs
<1>7. Ended(ct, hist, K) /\ Len(ct.file) = K[ct.chunks + 1].at
  <2>1. Ended(ct, hist, K)
    BY <1>3 DEF Followed
  <2>2. Len(ct.file) \in Nat /\ Len(ct.file) <= K[ct.chunks + 1].at
    BY <1>2, <2>1, EndedFacts
  <2> QED BY <1>6, <2>1, <2>2
<1>8. Here = Trailer(ct.chunks, Len(hist.recs))
  BY <1>6, <1>7 DEF Ended
<1>9. rd.recs = hist.recs
  BY <1>2, <1>3, <1>5, <1>7, ReadsAll
<1>10. SparseExact(rd.stores, hist.st) /\ SparseExact(rd.excs, hist.exc)
  BY <1>2, <1>3, <1>7, ReadExact
<1>11. Here.n = rd.chunks /\ Here.data = <<Len(rd.recs)>>
  BY <1>5, <1>8, <1>9 DEF Trailer, Item
<1>12. rd' = [rd EXCEPT !.trailer = TRUE, !.rc = Exit(rd)]
  BY <1>11 DEF rd_trailer
<1>13. /\ rd'.rc = 0 /\ rd'.trailer /\ rd'.recs = rd.recs /\ rd'.stores = rd.stores /\ rd'.excs = rd.excs
       /\ rd'.mism = rd.mism /\ rd'.chunks = rd.chunks
  <2>1. Exit(rd) = 0
    BY <1>4 DEF Exit
  <2> QED BY <1>4, <1>12, <2>1 DEF ReaderFields
<1>14. CASE phase = "closed"
  <2>1. SparseExact(rd.stores, hist.st)' /\ SparseExact(rd.excs, hist.exc)'
    BY <1>1, <1>10, <1>13 DEF SparseExact
  <2>2. RoundTrip'
    BY <1>1, <1>4, <1>9, <1>13, <2>1 DEF RoundTrip
  <2>3. KilledPrefix'
    BY <1>1, <1>14 DEF KilledPrefix, Read
  <2>4. rd'.rc \in -1 .. 3 /\ rd'.rc # -1
    BY <1>13
  <2> QED BY <1>1, <1>2, <1>3, <2>2, <2>3, <2>4, ReaderStep
<1>15. CASE phase = "killed"
  <2>1. /\ ct.chunks \in Nat /\ Chain(K, ct.chunks, hist) /\ FileOf(ct.file, K, ct.chunks)
        /\ ct.file \in Seq(Items) /\ Len(ct.file) \in Nat /\ Len(ct.file) <= K[ct.chunks + 1].at
        /\ Len(ct.file) = K[ct.chunks + 1].at => ct.file[Len(ct.file)].k = "trailer"
    BY <1>2, <1>7, EndedFacts
  <2>2. ~InHeader(ct.file)
    <3>1. PICK c : c = ct.chunks
      OBVIOUS
    <3>2. c \in 0 .. ct.chunks /\ ~(c < ct.chunks) /\ Len(ct.file) >= K[c + 1].at - 1
      BY <1>7, <2>1, <3>1
    <3> QED BY <2>1, <3>2, NotInHeader
  <2>3. ct.file # <<>> /\ rd.pos > 0
    <3>1. Len(ct.file) # 0 /\ rd.pos > 0
      BY <1>1, <2>1
    <3> QED BY <3>1
  <2>4. rd'.rc = IF ct.file = <<>> \/ InHeader(ct.file) THEN 1 ELSE 0
    BY <1>13, <2>2, <2>3
  <2>5. ~(rd.chunks < ct.chunks)
    BY <1>5, <2>1
  <2> QED BY <1>1, <1>3, <1>9, <1>13, <1>15, <2>3, <2>4, <2>5, KilledStop
<1> QED BY <1>2, <1>14, <1>15

\* in a closed file every chunk is whole
LEMMA ClosedWhole ==
  ASSUME IsWriter(ct), IsHist(hist), NEW K, Closed(ct, hist, K), ReaderAt(rd, ct, hist, K),
         rd.chunks # ct.chunks
  PROVE  K[rd.chunks + 1].at + 2 * NCols(K[rd.chunks + 1]) <= Len(ct.file)
<1>1. /\ ct.chunks \in Nat /\ rd.chunks \in 0 .. ct.chunks /\ Chain(K, ct.chunks, hist)
      /\ Len(ct.file) = K[ct.chunks + 1].at
  BY DEF IsWriter, ReaderAt, Closed, Ended, Written
<1>2. /\ rd.chunks + 1 \in 1 .. ct.chunks /\ rd.chunks + 1 < ct.chunks + 1
      /\ rd.chunks + 1 \in 1 .. ct.chunks + 1 /\ ct.chunks + 1 \in 1 .. ct.chunks + 1
  BY <1>1
<1>3. K[rd.chunks + 1].at + 1 + 2 * NCols(K[rd.chunks + 1]) <= K[ct.chunks + 1].at
  BY <1>1, <1>2, ChainOrder
<1>4. K[rd.chunks + 1].at \in Nat /\ NCols(K[rd.chunks + 1]) \in Nat /\ K[ct.chunks + 1].at \in Nat
  BY <1>1, <1>2, ChainTypes
<1>5. \A x, y, z \in Nat : x + 1 + 2 * y <= z => x + 2 * y <= z
  OBVIOUS
<1> QED BY <1>1, <1>3, <1>4, <1>5, Zenon

\* The reader meets a header that was cut short.
LEMMA TracesShort == TracesInv /\ rd_short_header => TracesInv'
<1> SUFFICES ASSUME TracesInv, rd_short_header
             PROVE  TracesInv'
  OBVIOUS
<1>1. /\ Reading /\ rd.pos \in 1 .. (Len(ct.file) - 1) /\ Here.nc > 0 /\ UNCHANGED <<hist, ct, rt, phase>>
      /\ rd.pos + 1 + Here.nc > Len(ct.file) /\ rd' = [rd EXCEPT !.rc = 1]
  BY DEF rd_short_header
<1>2. phase \in {"closed", "killed"} /\ IsWriter(ct) /\ IsHist(hist)
  BY <1>1, WhileReading
<1>3. PICK K : Followed(K) /\ Written(ct, hist, K) /\ ReaderAt(rd, ct, hist, K)
  BY <1>1, WhileReading
<1>4. DOMAIN rd = ReaderFields
  BY <1>3 DEF ReaderAt
<1>5. rd'.rc = 1
  BY <1>1, <1>4 DEF ReaderFields
<1> DEFINE d == K[rd.chunks + 1]
<1>6. rd.pos + 1 = d.at /\ d.at \in Nat /\ d.at >= 2 /\ d.at <= Len(ct.file) /\ Here = ct.file[d.at]
  BY <1>1, <1>2, <1>3, HereIs
<1>7. Len(ct.file) \in Nat
  BY <1>2, LenProperties DEF IsWriter
<1>8. rd.chunks # ct.chunks
  <2> SUFFICES ASSUME rd.chunks = ct.chunks
               PROVE  FALSE
    OBVIOUS
  <2>1. Ended(ct, hist, K)
    BY <1>3 DEF Followed
  <2>2. Len(ct.file) <= d.at
    BY <2>1 DEF Ended
  <2>3. Len(ct.file) = d.at
    <3> HIDE DEF d
    <3> QED BY <1>6, <1>7, <2>2
  <2>4. ct.file[Len(ct.file)] = Trailer(ct.chunks, Len(hist.recs))
    BY <2>1, <2>3 DEF Ended
  <2>5. Here.nc = 0
    BY <1>6, <2>3, <2>4 DEF Trailer, Item
  <2> QED BY <1>1, <2>5
<1>9. Here.nc = NCols(d) /\ NCols(d) \in 1 .. 4 /\ Here = Hdr(d) /\ HasColumns(d)
  BY <1>1, <1>2, <1>3, <1>8, HereIs DEF IsChunk
<1> HIDE DEF d
<1>10. phase # "closed"
  <2> SUFFICES ASSUME phase = "closed"
               PROVE  FALSE
    OBVIOUS
  <2>1. d.at + 2 * NCols(d) <= Len(ct.file)
    BY <1>2, <1>3, <1>8, ClosedWhole DEF Followed, d
  <2>2. PICK y : y = NCols(d)
    OBVIOUS
  <2>3. PICK x : x = d.at
    OBVIOUS
  <2>4. y \in 1 .. 4 /\ x \in Nat /\ x + 2 * y <= Len(ct.file) /\ x + y > Len(ct.file)
    BY <1>1, <1>6, <1>9, <2>1, <2>2, <2>3
  <2> QED BY <1>7, <2>4
<1>11. InHeader(ct.file)
  <2>1. d.at \in 1 .. Len(ct.file)
    BY <1>6, <1>7
  <2>2. ct.file[d.at].k = "hdr"
    BY <1>6, <1>9, ItemTypes
  <2>3. d.at + ct.file[d.at].nc > Len(ct.file)
    BY <1>1, <1>6
  <2> QED BY <2>1, <2>2, <2>3 DEF InHeader
<1>12. d.at + 2 * NCols(d) > Len(ct.file)
  <2>1. PICK x, y : x = d.at /\ y = NCols(d)
    OBVIOUS
  <2>2. y \in 1 .. 4 /\ x \in Nat /\ x + y > Len(ct.file)
    BY <1>1, <1>6, <1>9, <2>1
  <2>3. x + 2 * y > Len(ct.file)
    BY <1>7, <2>2
  <2> QED BY <2>1, <2>3
<1>13. /\ rd'.chunks = rd.chunks /\ rd'.recs = rd.recs /\ rd'.stores = rd.stores
       /\ rd'.mism = rd.mism /\ rd'.trailer = rd.trailer
  BY <1>1, <1>4 DEF ReaderFields
<1>14. ~rd'.trailer
  BY <1>3, <1>13 DEF ReaderAt
<1>15. rd.pos > 0 /\ phase = "killed"
  BY <1>1, <1>2, <1>7, <1>10
<1>16. rd'.rc = IF ct.file = <<>> \/ InHeader(ct.file) THEN 1 ELSE 0
  BY <1>5, <1>11
<1> QED BY <1>1, <1>3, <1>12, <1>13, <1>14, <1>15, <1>16, KilledStop DEF d

\* The reader reads a chunk, whole or cut short.
LEMMA TracesChunk == TracesInv /\ rd_chunk => TracesInv'
<1> SUFFICES ASSUME TracesInv, rd_chunk
             PROVE  TracesInv'
  OBVIOUS
<1>1. /\ Reading /\ rd.pos \in 1 .. (Len(ct.file) - 1) /\ Here.nc > 0 /\ UNCHANGED <<hist, ct, rt, phase>>
      /\ rd.pos + 1 + Here.nc <= Len(ct.file)
  BY DEF rd_chunk
<1>2. phase \in {"closed", "killed"} /\ IsWriter(ct) /\ IsHist(hist)
  BY <1>1, WhileReading
<1>3. PICK K : Followed(K) /\ Written(ct, hist, K) /\ ReaderAt(rd, ct, hist, K)
  BY <1>1, WhileReading
<1>4. DOMAIN rd = ReaderFields /\ rd.mism = 0
  BY <1>3 DEF ReaderAt
<1> DEFINE d == K[rd.chunks + 1]
           bod == Bodies(ct.file, rd.pos + 1)
           x == rd.excs \o [i \in 1 .. Len(DataOf(bod, "eidx")) |-> Len(rd.recs) + DataOf(bod, "eidx")[i]]
           s == [rd EXCEPT !.excs = x]
<1>6. rd.pos + 1 = d.at /\ d.at \in Nat /\ d.at >= 2 /\ d.at <= Len(ct.file) /\ Here = ct.file[d.at] /\ IsChunk(d)
  BY <1>1, <1>2, <1>3, HereIs
<1>7. Len(ct.file) \in Nat /\ ct.file \in Seq(Items)
  BY <1>2, LenProperties DEF IsWriter
<1>8. rd.chunks # ct.chunks
  <2> SUFFICES ASSUME rd.chunks = ct.chunks
               PROVE  FALSE
    OBVIOUS
  <2>1. Ended(ct, hist, K)
    BY <1>3 DEF Followed
  <2>2. Len(ct.file) <= d.at
    BY <2>1 DEF Ended
  <2>3. Len(ct.file) = d.at
    <3> HIDE DEF d
    <3> QED BY <1>6, <1>7, <2>2
  <2>4. ct.file[Len(ct.file)] = Trailer(ct.chunks, Len(hist.recs))
    BY <2>1, <2>3 DEF Ended
  <2>5. Here.nc = 0
    BY <1>6, <2>3, <2>4 DEF Trailer, Item
  <2> QED BY <1>1, <2>5
<1>9. /\ Here.nc = NCols(d) /\ NCols(d) \in 1 .. 4 /\ Here.n = Len(d.rec) /\ HasColumns(d)
      /\ ChunkAt(ct.file, d.at, d)
  BY <1>1, <1>2, <1>3, <1>8, HereIs DEF IsChunk
<1>10. d.at + NCols(d) <= Len(ct.file) /\ d.at >= 1
  BY <1>1, <1>6, <1>9
<1>11. bod = Bodies(ct.file, d.at)
  BY <1>6
<1>5. \/ Len(bod) < Here.nc /\ rd' = [s EXCEPT !.rc = Exit(rd)]
      \/ Len(bod) = Here.nc /\ Len(DataOf(bod, "rec")) # Here.n /\ rd' = [s EXCEPT !.rc = 1]
      \/ /\ Len(bod) = Here.nc
         /\ rd' = [s EXCEPT !.pos = @ + 1 + 2 * Here.nc, !.chunks = @ + 1, !.recs = @ \o DataOf(bod, "rec"),
                            !.stores = @ \o DataOf(bod, "st"),
                            !.mism = @ + Mismatches(Len(rd.recs), DataOf(bod, "rec"))]
  BY DEF rd_chunk
<1>12. PICK X : X = x
  OBVIOUS
<1>13. s = [rd EXCEPT !.excs = X]
  BY <1>12
<1>14. /\ DOMAIN s = ReaderFields /\ s.excs = X /\ s.pos = rd.pos /\ s.chunks = rd.chunks /\ s.recs = rd.recs
       /\ s.stores = rd.stores /\ s.mism = rd.mism /\ s.rc = rd.rc /\ s.trailer = rd.trailer
  BY <1>4, <1>13 DEF ReaderFields
<1> HIDE DEF d, bod, s
<1>15. /\ bod \in Seq(Items) /\ Len(bod) \in Nat
       /\ \A i \in 1 .. Len(bod) : i <= NCols(d) /\ bod[i] = Body(d, i)
       /\ (Len(bod) = NCols(d)) <=> (d.at + 2 * NCols(d) <= Len(ct.file))
  BY <1>6, <1>7, <1>9, <1>10, <1>11, BodiesOf
<1>16. CASE Len(bod) < Here.nc /\ rd' = [s EXCEPT !.rc = Exit(rd)]
  <2>1. Exit(rd) = 0
    BY <1>4 DEF Exit
  <2>2. /\ rd'.rc = 0 /\ rd'.chunks = rd.chunks /\ rd'.recs = rd.recs /\ rd'.stores = rd.stores
        /\ rd'.mism = rd.mism /\ rd'.trailer = rd.trailer
    BY <1>14, <1>16, <2>1 DEF ReaderFields
  <2>3. ~(d.at + 2 * NCols(d) <= Len(ct.file))
    <3>1. Len(bod) # NCols(d)
      BY <1>9, <1>15, <1>16
    <3> QED BY <1>15, <3>1
  <2>4. phase = "killed"
    <3> SUFFICES ASSUME phase = "closed"
                 PROVE  FALSE
      BY <1>2
    <3>1. Closed(ct, hist, K)
      BY <1>3 DEF Followed
    <3> QED BY <1>2, <1>3, <1>8, <2>3, <3>1, ClosedWhole DEF d
  <2>5. d.at + 2 * NCols(d) > Len(ct.file)
    <3>1. \A y \in 1 .. 4, z \in Nat : ~(z + 2 * y <= Len(ct.file)) => z + 2 * y > Len(ct.file)
      BY <1>7
    <3> QED BY <1>6, <1>9, <2>3, <3>1, Zenon
  <2>6. rd.pos > 0
    BY <1>1, <1>7
  <2>7. ~InHeader(ct.file)
    <3>1. Ended(ct, hist, K)
      BY <1>3 DEF Followed
    <3>2. /\ ct.chunks \in Nat /\ Chain(K, ct.chunks, hist) /\ FileOf(ct.file, K, ct.chunks)
          /\ Len(ct.file) <= K[ct.chunks + 1].at
          /\ Len(ct.file) = K[ct.chunks + 1].at => ct.file[Len(ct.file)].k = "trailer"
      BY <1>2, <3>1, EndedFacts
    <3>3. PICK c : c = rd.chunks
      OBVIOUS
    <3>4. d = K[c + 1]
      BY <3>3 DEF d
    <3>5. c \in 0 .. ct.chunks
      BY <1>3, <3>3 DEF ReaderAt
    <3>6. d.at <= Len(ct.file) => Len(ct.file) >= d.at - 1
      BY <1>6, <1>7
    <3>7. Len(ct.file) >= K[c + 1].at - 1
      BY <1>6, <3>4, <3>6
    <3>8. K[c + 1].at + NCols(K[c + 1]) <= Len(ct.file) /\ K[c + 1].at + 2 * NCols(K[c + 1]) > Len(ct.file)
      BY <1>10, <2>5, <3>4
    <3> QED BY <1>7, <3>2, <3>5, <3>7, <3>8, NotInHeader
  <2>8. ct.file # <<>>
    <3>1. Len(ct.file) # 0
      BY <1>6, <1>7
    <3> QED BY <3>1
  <2>9. rd'.rc = IF ct.file = <<>> \/ InHeader(ct.file) THEN 1 ELSE 0
    BY <2>2, <2>7, <2>8
  <2>10. ~rd'.trailer
    BY <1>3, <2>2 DEF ReaderAt
  <2> QED BY <1>1, <1>3, <2>2, <2>4, <2>5, <2>6, <2>9, <2>10, KilledStop DEF d
<1>17. CASE Len(bod) = Here.nc
  <2>1. Len(bod) = NCols(d) /\ \A i \in 1 .. Len(bod) : bod[i] = Body(d, i)
    BY <1>9, <1>15, <1>17
  <2>2. DataOf(bod, "rec") = d.rec /\ DataOf(bod, "eidx") = d.eidx /\ DataOf(bod, "st") = d.st
    <3>1. "rec" \in Ids /\ "eidx" \in Ids /\ "st" \in Ids
      BY DEF Ids
    <3> QED BY <1>9, <1>15, <2>1, <3>1, ChunkData
  <2>3. /\ Len(DataOf(bod, "rec")) = Here.n
        /\ X = rd.excs \o [i \in 1 .. Len(d.eidx) |-> Len(rd.recs) + d.eidx[i]]
    BY <1>9, <1>12, <2>2
  <2>4. PICK m : m = Mismatches(Len(rd.recs), d.rec)
    OBVIOUS
  <2>5. rd' = [s EXCEPT !.pos = @ + 1 + 2 * NCols(d), !.chunks = @ + 1, !.recs = @ \o d.rec,
                        !.stores = @ \o d.st, !.mism = @ + m]
    <3>1. ~(Len(bod) < Here.nc)
      BY <1>15, <1>17
    <3> QED BY <1>5, <1>9, <2>2, <2>3, <2>4, <3>1
  <2>6. /\ DOMAIN rd' = ReaderFields /\ rd'.pos = rd.pos + 1 + 2 * NCols(d) /\ rd'.chunks = rd.chunks + 1
        /\ rd'.recs = rd.recs \o d.rec /\ rd'.stores = rd.stores \o d.st /\ rd'.excs = X
        /\ rd'.mism = rd.mism + m /\ rd'.trailer = rd.trailer /\ rd'.rc = rd.rc
    BY <1>14, <2>5 DEF ReaderFields
  <2>7. d.at + 2 * NCols(d) <= Len(ct.file)
    BY <1>15, <2>1
  <2>8. PICK r : r = rd'
    OBVIOUS
  <2>9. /\ DOMAIN r = ReaderFields /\ r.pos = rd.pos + 1 + 2 * NCols(d) /\ r.chunks = rd.chunks + 1
        /\ r.recs = rd.recs \o d.rec /\ r.stores = rd.stores \o d.st
        /\ r.excs = rd.excs \o [i \in 1 .. Len(d.eidx) |-> Len(rd.recs) + d.eidx[i]]
        /\ r.mism = rd.mism + Mismatches(Len(rd.recs), d.rec) /\ r.trailer = rd.trailer
    BY <2>3, <2>4, <2>6, <2>8
  <2>10. d = K[rd.chunks + 1]
    BY DEF d
  <2>11. ReaderAt(r, ct, hist, K)
    BY <1>1, <1>2, <1>3, <1>8, <2>7, <2>9, <2>10, ReadChunk
  <2>12. rd'.rc = -1 /\ -1 \in -1 .. 3
    BY <1>1, <2>6 DEF Reading
  <2>13. ReaderAt(rd', ct, hist, K)
    BY <2>8, <2>11
  <2> QED BY <1>1, <1>2, <1>3, <2>12, <2>13, ReaderStep
<1> QED BY <1>5, <1>16, <1>17

\* Every step keeps the trace invariant.
LEMMA TracesStep == TracesInv /\ [Next]_vars => TracesInv'
<1> SUFFICES ASSUME TracesInv, [Next]_vars
             PROVE  TracesInv'
  OBVIOUS
<1>1. CASE \E b \in Bundles, st, irq \in BOOLEAN : Cycle(b, st, irq)
  BY <1>1, TracesCycle
<1>2. CASE Close
  BY <1>2, TracesClose
<1>3. CASE \E k \in 0 .. Len(ct_close(ct).file), j \in 0 .. Len(ct.raw) : Kill(k, j)
  BY <1>3, TracesKill
<1>4. CASE rd_magic
  BY <1>4, TracesMagic
<1>5. CASE rd_end
  BY <1>5, TracesEnd
<1>6. CASE rd_trailer
  BY <1>6, TracesTrailer
<1>7. CASE rd_short_header
  BY <1>7, TracesShort
<1>8. CASE rd_chunk
  BY <1>8, TracesChunk
<1>9. CASE UNCHANGED vars
  <2>1. hist' = hist /\ ct' = ct /\ rt' = rt /\ phase' = phase /\ rd' = rd
    BY <1>9 DEF vars
  <2>2. Accounted'
    BY <2>1 DEF TracesInv, Accounted
  <2>3. RoundTrip' /\ KilledPrefix'
    BY <2>1 DEF TracesInv, RoundTrip, KilledPrefix, Read, SparseExact, Salvaged, Whole, InHeader
  <2>4. phase # "run" => \E K : Followed(K)'
    BY <2>1 DEF TracesInv, Followed
  <2> QED BY <2>1, <2>2, <2>3, <2>4 DEF TracesInv
<1>10. CASE Finished
  BY <1>9, <1>10 DEF Finished
<1> QED BY <1>1, <1>2, <1>3, <1>4, <1>5, <1>6, <1>7, <1>8, <1>9, <1>10 DEF Next

\* The trace invariant holds in every reachable state.
LEMMA TracesAlways == Spec => []TracesInv
BY TracesInit, TracesStep, PTL DEF Spec

\* The trace invariant implies type correctness.
LEMMA InvTypes == TracesInv => TypeOK
<1> SUFFICES ASSUME TracesInv
             PROVE  TypeOK
  OBVIOUS
<1>1. phase \in {"run", "closed", "killed"} /\ rd.rc \in -1 .. 3 /\ Accounted
  BY DEF TracesInv
<1>2. /\ IsWriter(ct) /\ Len(ct.rec) < ChunkRecs /\ IndexOk(ct)
      /\ ct.recs + Len(ct.rec) = Len(hist.recs)
  BY <1>1 DEF Accounted
<1>3. Len(ct.eidx) = Len(ct.edat) /\ ct.eidx \in Seq(Nat) /\ Len(ct.rec) \in Nat
  BY <1>2, LenProperties DEF IsWriter, HasColumns
<1>4. ASSUME NEW i \in 1 .. Len(ct.eidx)
      PROVE  ct.eidx[i] \in 0 .. Len(ct.rec)
  <2>1. ct.eidx[i] \in Nat /\ ct.eidx[i] <= Len(ct.rec)
    BY <1>2, <1>3, ElementOfSeq DEF IndexOk
  <2> QED BY <1>3, <2>1
<1> QED BY <1>1, <1>2, <1>3, <1>4 DEF TypeOK

\* Between two calls the writer of ctrace.hh never leaves a full chunk in its columns, its
\* pending exception indices designate a record of the pending chunk or the one after it, and
\* its counters account for every record retired: for every chunk size and every run.
THEOREM TracesTypes == Spec => []TypeOK
<1>1. TracesInv => TypeOK
  BY InvTypes
<1> QED BY <1>1, TracesAlways, PTL

\* A trace that ctrace_writer closed is read back by ctrace_dump with exit code 0 and every
\* record; of the stores and exceptions, exactly those that were logged before the last record
\* of a last chunk that is full, and all of them when it is not: whatever the chunk size and
\* wherever the boundaries fall.
THEOREM RoundTrips == Spec => []RoundTrip
<1>1. TracesInv => RoundTrip
  BY DEF TracesInv
<1> QED BY <1>1, TracesAlways, PTL

\* Wherever a kill cuts the two files, also while close() writes, ctrace_dump has read exactly
\* the records and the stores of the whole chunks when it stops, and it exits 0, except with 1
\* where the cut is inside a chunk's column headers or before the magic.
THEOREM KilledSalvaged == Spec => []KilledPrefix
<1>1. TracesInv => KilledPrefix
  BY DEF TracesInv
<1> QED BY <1>1, TracesAlways, PTL

-----------------------------------------------------------------------------
(* The retire trace with a ring and a stop pc. *)

RtFields == {"c", "recs", "armed", "retired", "stopped", "archive"}

IsRt(t) == /\ DOMAIN t = RtFields /\ t.c \in RtConfigs /\ t.recs \in Seq(Rec) /\ t.retired \in Nat

\* the settings that keep everything up to the stop
KeepsAll(c) == c.hi = 0 /\ c.cap = 0 /\ c.lo <= 1 /\ ~c.useronly /\ c.ring >= 2

\* s is how h ends
Ends(s, h) == \E o \in Nat : o + Len(s) = Len(h) /\ \A i \in 1 .. Len(s) : s[i] = h[o + i]

NoStop(h) == \A i \in 1 .. Len(h) : h[i].cls # "stop"

Numbered(h) == \A i \in 1 .. Len(h) : h[i].id = i

\* the ring before a stop holds the last retires, since the trigger when there is one
Going(t, h) ==
  /\ NoStop(h) /\ Ends(t.recs, h) /\ Len(t.recs) <= t.c.ring
  /\ Len(t.recs) < t.c.ring /\ ~t.c.trig => Len(t.recs) = Len(h)
  /\ t.c.trig /\ ~t.armed => t.recs = <<>>

\* q is the first stop of h
FirstStop(q, h) == q \in 1 .. Len(h) /\ h[q].cls = "stop" /\ \A i \in 1 .. Len(h) : i < q => h[i].cls # "stop"

\* the archive of a stop is the ring, which ends with the first stop
Halted(t, h) ==
  /\ t.archive = t.recs
  /\ \E q : /\ FirstStop(q, h)
            /\ \E i \in {Len(t.recs) - 1, Len(t.recs)} \cap 1 .. Len(t.recs) :
                  t.recs[i].cls = "stop" /\ t.recs[i].id = q
  /\ \A i \in 1 .. (Len(t.recs) - 1) : t.recs[i + 1].id = t.recs[i].id + 1
  /\ Len(t.recs) < t.c.ring /\ ~t.c.trig => t.recs[1].id = 1

RtInv ==
  /\ hist.recs \in Seq(Rec) /\ Numbered(hist.recs) /\ DOMAIN rt = RtFields
  /\ KeepsAll(rt.c) => IsRt(rt)
  /\ KeepsAll(rt.c) /\ rt.stopped => Halted(rt, hist.recs)
  /\ KeepsAll(rt.c) /\ ~rt.stopped => Going(rt, hist.recs)

\* The window, cap and ring of a setting are naturals.
LEMMA ConfigTypes ==
  ASSUME NEW c \in RtConfigs
  PROVE  c.lo \in Nat /\ c.hi \in Nat /\ c.cap \in Nat /\ c.ring \in Nat
  BY TracesAssumption

\* A contiguous end of the records stays one when both get the next record.
LEMMA EndsAppend ==
  ASSUME NEW s \in Seq(Rec), NEW h \in Seq(Rec), NEW r \in Rec, Ends(s, h)
  PROVE  Ends(Append(s, r), Append(h, r))
<1>1. PICK o \in Nat : o + Len(s) = Len(h) /\ \A i \in 1 .. Len(s) : s[i] = h[o + i]
  BY DEF Ends
<1> DEFINE x == Append(s, r)
           y == Append(h, r)
<1>2. /\ Len(s) \in Nat /\ Len(x) = Len(s) + 1 /\ (\A i \in 1 .. Len(s) : x[i] = s[i]) /\ x[Len(s) + 1] = r
  BY AppendFacts
<1>3. /\ Len(h) \in Nat /\ Len(y) = Len(h) + 1 /\ (\A i \in 1 .. Len(h) : y[i] = h[i]) /\ y[Len(h) + 1] = r
  BY AppendFacts
<1> HIDE DEF x, y
<1>4. /\ o + (Len(s) + 1) = Len(h) + 1 /\ \A i \in 1 .. Len(s) : o + i \in 1 .. Len(h)
  BY <1>1, <1>2, <1>3, AtEnd, Zenon
<1>5. ASSUME NEW i \in 1 .. Len(x)
      PROVE  x[i] = y[o + i]
  <2>1. i \in 1 .. Len(s) \/ i = Len(s) + 1
    BY <1>2, AtEnd, Zenon
  <2>2. CASE i \in 1 .. Len(s)
    BY <1>1, <1>2, <1>3, <1>4, <2>2, Zenon
  <2>3. CASE i = Len(s) + 1
    BY <1>2, <1>3, <1>4, <2>3, Zenon
  <2> QED BY <2>1, <2>2, <2>3
<1>6. o + Len(x) = Len(y)
  BY <1>2, <1>3, <1>4
<1> QED BY <1>5, <1>6 DEF Ends, x, y

\* Dropping the oldest record of a contiguous end leaves one.
LEMMA EndsTail ==
  ASSUME NEW s \in Seq(Rec), s # <<>>, NEW h, Ends(s, h)
  PROVE  Tail(s) \in Seq(Rec) /\ Ends(Tail(s), h) /\ Len(Tail(s)) = Len(s) - 1
<1>1. PICK o \in Nat : o + Len(s) = Len(h) /\ \A i \in 1 .. Len(s) : s[i] = h[o + i]
  BY DEF Ends
<1> DEFINE x == Tail(s)
<1>2. /\ x \in Seq(Rec) /\ Len(x) = Len(s) - 1 /\ Len(s) \in Nat /\ Len(s) >= 1
      /\ \A i \in 1 .. Len(x) : x[i] = s[i + 1]
  <2>1. x \in Seq(Rec) /\ Len(x) = Len(s) - 1 /\ \A i \in 1 .. Len(x) : x[i] = s[i + 1]
    BY HeadTailProperties
  <2>2. Len(s) \in Nat /\ Len(s) # 0
    BY EmptySeq, LenProperties
  <2> QED BY <2>1, <2>2
<1> HIDE DEF x
<1>3. ASSUME NEW i \in 1 .. Len(x)
      PROVE  x[i] = h[(o + 1) + i]
  <2>1. i + 1 \in 1 .. Len(s) /\ o + (i + 1) = (o + 1) + i
    BY <1>2
  <2>2. x[i] = s[i + 1] /\ s[i + 1] = h[o + (i + 1)]
    BY <1>1, <1>2, <2>1
  <2> QED BY <2>1, <2>2
<1>4. (o + 1) + Len(x) = Len(h) /\ o + 1 \in Nat
  <2>1. \A a, b, c \in Nat : a + b = c /\ b >= 1 => (a + 1) + (b - 1) = c /\ a + 1 \in Nat
    OBVIOUS
  <2>2. Len(h) \in Nat
    BY <1>1, <1>2
  <2>3. (o + 1) + (Len(s) - 1) = Len(h) /\ o + 1 \in Nat
    BY <1>1, <1>2, <2>1, <2>2, Zenon
  <2> QED BY <1>2, <2>3
<1>5. Ends(x, h)
  BY <1>3, <1>4 DEF Ends
<1> QED BY <1>2, <1>5 DEF x

\* the fields that rt_emit does not touch
SameRt(u, t) ==
  /\ DOMAIN u = RtFields /\ u.c = t.c /\ u.armed = t.armed /\ u.retired = t.retired
  /\ u.stopped = t.stopped /\ u.archive = t.archive

\* rt_emit pushes one record and pops the oldest of a full ring.
LEMMA EmitOk ==
  ASSUME NEW t, IsRt(t), KeepsAll(t.c), NEW h \in Seq(Rec), NEW r \in Rec,
         Ends(t.recs, h), Len(t.recs) <= t.c.ring
  PROVE  LET u == rt_emit(t, r)
         IN  /\ SameRt(u, t) /\ IsRt(u) /\ Ends(u.recs, Append(h, r)) /\ Len(u.recs) <= t.c.ring
             /\ Len(u.recs) >= 1 /\ (Len(t.recs) >= 1 => Len(u.recs) >= 2)
             /\ Len(u.recs) < t.c.ring => Len(u.recs) = Len(t.recs) + 1
<1> DEFINE s == Append(t.recs, r)
           g == IF t.c.ring # 0 /\ Len(s) > t.c.ring THEN Tail(s) ELSE s
           u == rt_emit(t, r)
<1>1. t.recs \in Seq(Rec) /\ t.c \in RtConfigs /\ t.retired \in Nat /\ DOMAIN t = RtFields
  BY DEF IsRt
<1>2. t.c.ring \in Nat /\ t.c.ring >= 2 /\ ~t.c.useronly
  BY <1>1, ConfigTypes DEF KeepsAll
<1>3. u = [t EXCEPT !.recs = g]
  BY <1>2 DEF rt_emit
<1>4. s \in Seq(Rec) /\ Len(t.recs) \in Nat /\ Len(s) = Len(t.recs) + 1
  BY <1>1, AppendFacts
<1>5. Ends(s, Append(h, r))
  BY <1>1, EndsAppend
<1> HIDE DEF s
<1>6. /\ g \in Seq(Rec) /\ Ends(g, Append(h, r)) /\ Len(g) <= t.c.ring
      /\ Len(g) >= 1 /\ (Len(t.recs) >= 1 => Len(g) >= 2)
      /\ Len(g) < t.c.ring => Len(g) = Len(t.recs) + 1
  <2>1. CASE Len(s) > t.c.ring
    <3>1. g = Tail(s)
      BY <1>2, <2>1
    <3>2. s # <<>>
      BY <1>4
    <3> HIDE DEF g
    <3>3. g \in Seq(Rec) /\ Ends(g, Append(h, r)) /\ Len(g) = Len(s) - 1
      BY <1>4, <1>5, <3>1, <3>2, EndsTail
    <3>4. Len(g) = t.c.ring
      BY <1>2, <1>4, <2>1, <3>3
    <3> QED BY <1>2, <3>3, <3>4
  <2>2. CASE ~(Len(s) > t.c.ring)
    <3>1. g = s
      BY <2>2
    <3> HIDE DEF g
    <3>2. Len(g) <= t.c.ring /\ Len(g) = Len(t.recs) + 1
      BY <1>2, <1>4, <2>2, <3>1
    <3>3. Len(g) >= 1 /\ (Len(t.recs) >= 1 => Len(g) >= 2)
      BY <1>4, <3>2
    <3> QED BY <1>4, <1>5, <3>1, <3>2, <3>3
  <2> QED BY <2>1, <2>2
<1> HIDE DEF g, u
<1>7. SameRt(u, t) /\ u.recs = g
  BY <1>1, <1>3 DEF SameRt, RtFields
<1>8. IsRt(u)
  BY <1>1, <1>6, <1>7 DEF IsRt, SameRt
<1> QED BY <1>6, <1>7, <1>8 DEF u

\* The records of one bundle, pushed one after another.
LEMMA EmitsOk ==
  ASSUME NEW t, IsRt(t), KeepsAll(t.c), NEW h \in Seq(Rec), NEW rs \in Seq(Rec), Len(rs) \in 0 .. 2,
         Ends(t.recs, h), Len(t.recs) <= t.c.ring
  PROVE  LET u == FoldLeft(rt_emit, t, rs)
         IN  /\ SameRt(u, t) /\ IsRt(u) /\ Ends(u.recs, h \o rs) /\ Len(u.recs) <= t.c.ring
             /\ Len(u.recs) >= Len(rs)
             /\ Len(u.recs) < t.c.ring => Len(u.recs) = Len(t.recs) + Len(rs)
<1> DEFINE u == FoldLeft(rt_emit, t, rs)
<1>0. Len(rs) <= 2 /\ t.recs \in Seq(Rec) /\ Len(t.recs) \in Nat
  <2>1. \A z \in 0 .. 2 : z <= 2
    OBVIOUS
  <2> QED BY <2>1, LenProperties DEF IsRt
<1>1. /\ Len(rs) = 0 => u = t
      /\ Len(rs) = 1 => u = rt_emit(t, rs[1])
      /\ Len(rs) = 2 => u = rt_emit(rt_emit(t, rs[1]), rs[2])
  BY <1>0, EmitsFold
<1>2. /\ Len(rs) = 0 => h \o rs = h
      /\ Len(rs) = 1 => h \o rs = Append(h, rs[1])
      /\ Len(rs) = 2 => h \o rs = Append(Append(h, rs[1]), rs[2])
  BY ConcatTwo
<1>3. \A i \in 1 .. Len(rs) : rs[i] \in Rec
  BY ElementOfSeq
<1>4. t.c.ring \in Nat
  BY ConfigTypes DEF IsRt
<1> HIDE DEF u
<1>5. CASE Len(rs) = 0
  <2>1. u = t /\ h \o rs = h
    BY <1>1, <1>2, <1>5
  <2>2. SameRt(t, t)
    BY DEF SameRt, IsRt
  <2>3. Len(t.recs) >= 0 /\ Len(t.recs) + 0 = Len(t.recs)
    BY <1>0
  <2> QED BY <1>5, <2>1, <2>2, <2>3 DEF u
<1>6. CASE Len(rs) = 1
  <2>1. u = rt_emit(t, rs[1]) /\ h \o rs = Append(h, rs[1])
    BY <1>1, <1>2, <1>6
  <2>2. 1 \in 1 .. 1
    OBVIOUS
  <2>3. rs[1] \in Rec
    BY <1>3, <1>6, <2>2
  <2>4. /\ SameRt(u, t) /\ IsRt(u) /\ Ends(u.recs, Append(h, rs[1])) /\ Len(u.recs) <= t.c.ring
        /\ Len(u.recs) >= 1
        /\ Len(u.recs) < t.c.ring => Len(u.recs) = Len(t.recs) + 1
    BY <2>1, <2>3, EmitOk
  <2> QED BY <1>6, <2>1, <2>4 DEF u
<1>7. CASE Len(rs) = 2
  <2>1. PICK v : v = rt_emit(t, rs[1])
    OBVIOUS
  <2>2. PICK g : g = Append(h, rs[1])
    OBVIOUS
  <2>3. u = rt_emit(v, rs[2]) /\ h \o rs = Append(g, rs[2])
    BY <1>1, <1>2, <1>7, <2>1, <2>2
  <2>4. 1 \in 1 .. 2 /\ 2 \in 1 .. 2
    OBVIOUS
  <2>5. rs[1] \in Rec /\ rs[2] \in Rec
    BY <1>3, <1>7, <2>4
  <2>6. /\ SameRt(v, t) /\ IsRt(v) /\ Ends(v.recs, g) /\ Len(v.recs) <= t.c.ring
        /\ Len(v.recs) >= 1
        /\ Len(v.recs) < t.c.ring => Len(v.recs) = Len(t.recs) + 1
    BY <2>1, <2>2, <2>5, EmitOk
  <2>7. v.c = t.c /\ KeepsAll(v.c) /\ Len(v.recs) <= v.c.ring /\ g \in Seq(Rec)
    BY <2>2, <2>5, <2>6, AppendFacts DEF SameRt
  <2>8. /\ SameRt(u, v) /\ IsRt(u) /\ Ends(u.recs, Append(g, rs[2])) /\ Len(u.recs) <= v.c.ring
        /\ (Len(v.recs) >= 1 => Len(u.recs) >= 2)
        /\ Len(u.recs) < v.c.ring => Len(u.recs) = Len(v.recs) + 1
    BY <2>3, <2>5, <2>6, <2>7, EmitOk
  <2>9. SameRt(u, t)
    BY <2>6, <2>8 DEF SameRt
  <2>10. Len(u.recs) < t.c.ring => Len(u.recs) = Len(t.recs) + 2
    <3>1. Len(u.recs) \in Nat /\ Len(v.recs) \in Nat
      BY <2>6, <2>8, LenProperties DEF IsRt
    <3>3. Len(u.recs) < t.c.ring => Len(u.recs) = Len(v.recs) + 1
      BY <2>7, <2>8
    <3>4. Len(v.recs) < t.c.ring => Len(v.recs) = Len(t.recs) + 1
      BY <2>6
    <3>5. PICK a, b, c, z : a = Len(t.recs) /\ b = Len(v.recs) /\ c = Len(u.recs) /\ z = t.c.ring
      OBVIOUS
    <3>6. a \in Nat /\ b \in Nat /\ c \in Nat /\ z \in Nat
      BY <1>0, <1>4, <3>1, <3>5
    <3>7. (c < z => c = b + 1) /\ (b < z => b = a + 1)
      BY <3>3, <3>4, <3>5
    <3>8. c < z => c = a + 2
      BY <3>6, <3>7
    <3> QED BY <3>5, <3>8
  <2> QED BY <1>7, <2>3, <2>6, <2>7, <2>8, <2>9, <2>10 DEF u
<1>8. \A z \in 0 .. 2 : z = 0 \/ z = 1 \/ z = 2
  OBVIOUS
<1> QED BY <1>5, <1>6, <1>7, <1>8, Zenon

\* what rt_cycle makes of the counters before it looks at the window
Counted(t, rs) == [t EXCEPT !.retired = IF rs # <<>> THEN @ + 1 ELSE @]
Armed(t, rs)   == [Counted(t, rs) EXCEPT !.armed = @ \/ (t.c.trig /\ \E i \in 1 .. Len(rs) : rs[i].cls # "kern")]
Hits(rs)       == \E i \in 1 .. Len(rs) : rs[i].cls = "stop"

\* Counting the retired records and arming the trigger leave the ring alone.
LEMMA CountedArmed ==
  ASSUME NEW t, IsRt(t), NEW rs \in Seq(Rec)
  PROVE  LET u == Counted(t, rs)
             v == Armed(t, rs)
         IN  /\ IsRt(u) /\ u.c = t.c /\ u.recs = t.recs /\ u.archive = t.archive /\ u.stopped = t.stopped
             /\ IsRt(v) /\ v.c = t.c /\ v.recs = t.recs /\ v.archive = t.archive /\ v.stopped = t.stopped
             /\ v.armed = (t.armed \/ (t.c.trig /\ \E i \in 1 .. Len(rs) : rs[i].cls # "kern"))
             /\ rs # <<>> => v.retired >= 1
<1> DEFINE u == Counted(t, rs)
           v == Armed(t, rs)
<1>1. PICK k : k = IF rs # <<>> THEN t.retired + 1 ELSE t.retired
  OBVIOUS
<1>2. k \in Nat /\ (rs # <<>> => k >= 1) /\ DOMAIN t = RtFields /\ t.c \in RtConfigs /\ t.recs \in Seq(Rec)
  BY <1>1 DEF IsRt
<1>3. u = [t EXCEPT !.retired = k]
  BY <1>1, <1>2 DEF Counted, RtFields
<1> HIDE DEF u, v
<1>4. /\ DOMAIN u = RtFields /\ u.c = t.c /\ u.recs = t.recs /\ u.archive = t.archive /\ u.stopped = t.stopped
      /\ u.armed = t.armed /\ u.retired = k
  BY <1>2, <1>3 DEF RtFields
<1>5. IsRt(u)
  BY <1>2, <1>4 DEF IsRt
<1>6. PICK a : a = (u.armed \/ (t.c.trig /\ \E i \in 1 .. Len(rs) : rs[i].cls # "kern"))
  OBVIOUS
<1>7. v = [u EXCEPT !.armed = a]
  BY <1>4, <1>6, Zenon DEF Armed, u, v
<1>8. /\ DOMAIN v = RtFields /\ v.c = u.c /\ v.recs = u.recs /\ v.archive = u.archive /\ v.stopped = u.stopped
      /\ v.armed = a /\ v.retired = u.retired
  BY <1>4, <1>7 DEF RtFields
<1>9. IsRt(v)
  BY <1>5, <1>8 DEF IsRt
<1>10. v.armed = (t.armed \/ (t.c.trig /\ \E i \in 1 .. Len(rs) : rs[i].cls # "kern"))
  BY <1>4, <1>6, <1>8, Zenon
<1> QED BY <1>2, <1>4, <1>5, <1>8, <1>9, <1>10, Zenon DEF u, v

\* what is retired in a cycle comes after what was retired before
LEMMA RetiredConcat ==
  ASSUME NEW h \in Seq(Rec), Numbered(h), NEW b \in Bundles, NEW rs, rs = Retired(Len(h), b)
  PROVE  /\ rs \in Seq(Rec) /\ Len(rs) \in 0 .. 2 /\ h \o rs \in Seq(Rec) /\ Numbered(h \o rs)
         /\ Len(h) \in Nat /\ Len(h \o rs) = Len(h) + Len(rs)
         /\ \A i \in 1 .. Len(h) : (h \o rs)[i] = h[i]
         /\ \A i \in 1 .. Len(rs) : (h \o rs)[Len(h) + i] = rs[i]
<1> DEFINE n == Len(h)
           g == h \o rs
<1>1. n \in Nat
  BY LenProperties
<1>2. /\ rs \in Seq(Rec) /\ Len(rs) = Len(b) /\ Len(b) \in 0 .. 2
      /\ \A i \in 1 .. Len(b) : rs[i].id = n + i
  BY <1>1, RetiredFacts
<1>3. /\ g \in Seq(Rec) /\ Len(g) = n + Len(rs) /\ Len(rs) \in Nat
      /\ \A i \in 1 .. n + Len(rs) : g[i] = IF i <= n THEN h[i] ELSE rs[i - n]
  BY <1>2, ConcatProperties, LenProperties
<1> HIDE DEF n, g
<1>4. \A i \in 1 .. n : g[i] = h[i]
  BY <1>1, <1>3
<1>5. ASSUME NEW i \in 1 .. Len(rs)
      PROVE  g[n + i] = rs[i]
  <2>1. PICK j : j = n + i
    OBVIOUS
  <2>2. j \in 1 .. n + Len(rs) /\ ~(j <= n) /\ j - n = i
    BY <1>1, <1>3, <2>1
  <2>3. g[j] = rs[i]
    BY <1>3, <2>2, Zenon
  <2> QED BY <2>1, <2>3
<1>6. ASSUME NEW i \in 1 .. Len(g)
      PROVE  g[i].id = i
  <2>1. CASE i \in 1 .. n
    BY <1>4, <2>1 DEF Numbered, n
  <2>2. CASE i \notin 1 .. n
    <3>1. PICK j : j = i - n
      OBVIOUS
    <3>2. j \in 1 .. Len(rs) /\ n + j = i
      BY <1>1, <1>3, <2>2, <3>1
    <3>3. g[n + j] = rs[j] /\ rs[j].id = n + j
      BY <1>2, <1>5, <3>2
    <3> QED BY <3>2, <3>3
  <2> QED BY <2>1, <2>2
<1>7. Numbered(g)
  BY <1>6 DEF Numbered
<1> QED BY <1>1, <1>2, <1>3, <1>4, <1>5, <1>7 DEF n, g

\* what has halted stays so
LEMMA HaltedStays ==
  ASSUME NEW t, NEW h, Halted(t, h), Len(h) \in Nat, NEW u, u.c = t.c, u.recs = t.recs, u.archive = t.archive,
         NEW g, Len(g) \in Nat, Len(h) <= Len(g), \A i \in 1 .. Len(h) : g[i] = h[i]
  PROVE  Halted(u, g)
<1>1. PICK q : /\ FirstStop(q, h)
               /\ \E i \in {Len(t.recs) - 1, Len(t.recs)} \cap 1 .. Len(t.recs) :
                     t.recs[i].cls = "stop" /\ t.recs[i].id = q
  BY DEF Halted
<1>2. FirstStop(q, g)
  <2>1. q \in 1 .. Len(h) /\ h[q].cls = "stop" /\ \A i \in 1 .. Len(h) : i < q => h[i].cls # "stop"
    BY <1>1 DEF FirstStop
  <2>2. q \in 1 .. Len(g) /\ g[q].cls = "stop"
    BY <2>1
  <2>3. ASSUME NEW i \in 1 .. Len(g), i < q
        PROVE  g[i].cls # "stop"
    <3>1. i \in 1 .. Len(h)
      BY <2>1, <2>3
    <3> QED BY <2>1, <2>3, <3>1
  <2> QED BY <2>2, <2>3 DEF FirstStop
<1>3. \E x : /\ FirstStop(x, g)
             /\ \E i \in {Len(u.recs) - 1, Len(u.recs)} \cap 1 .. Len(u.recs) :
                  u.recs[i].cls = "stop" /\ u.recs[i].id = x
  BY <1>1, <1>2
<1> QED BY <1>3 DEF Halted

\* the ring when the stop pc retires
LEMMA HaltsAt ==
  ASSUME NEW h \in Seq(Rec), NEW rs \in Seq(Rec), NEW g \in Seq(Rec), Len(rs) \in 0 .. 2, Numbered(g),
         NoStop(h), Len(g) = Len(h) + Len(rs), \A i \in 1 .. Len(h) : g[i] = h[i],
         \A i \in 1 .. Len(rs) : g[Len(h) + i] = rs[i], Hits(rs),
         NEW u, u.recs \in Seq(Rec), u.archive = u.recs, Ends(u.recs, g), Len(u.recs) >= Len(rs),
         Len(u.recs) < u.c.ring /\ ~u.c.trig => Len(u.recs) = Len(g)
  PROVE  Halted(u, g)
<1> DEFINE n == Len(h)
           m == Len(rs)
           r == u.recs
           l == Len(r)
<1>1. n \in Nat /\ m \in 0 .. 2 /\ l \in Nat /\ Len(g) = n + m /\ l >= m
  BY LenProperties
<1>2. PICK o \in Nat : o + l = n + m /\ \A i \in 1 .. l : r[i] = g[o + i]
  BY DEF Ends
<1> HIDE DEF n, l
<1>3. PICK j \in 1 .. m : rs[j].cls = "stop" /\ \A i \in 1 .. m : i < j => rs[i].cls # "stop"
  <2> DEFINE T == {i \in 1 .. m : rs[i].cls = "stop"}
  <2>1. T \subseteq Nat /\ T # {}
    BY DEF Hits
  <2>2. PICK x \in T : \A y \in T : x <= y
    BY <2>1, LeastNat
  <2>3. ASSUME NEW i \in 1 .. m, i < x
        PROVE  rs[i].cls # "stop"
    <3>1. i \notin T
      BY <2>2, <2>3
    <3> QED BY <3>1
  <2> QED BY <2>2, <2>3
<1> HIDE DEF m
<1>4. PICK q : q = n + j
  OBVIOUS
<1>5. q \in 1 .. n + m /\ q \in Nat
  BY <1>1, <1>3, <1>4
<1>6. g[q] = rs[j]
  BY <1>4 DEF n, m
<1>7. FirstStop(q, g)
  <2>1. ASSUME NEW i \in 1 .. Len(g), i < q
        PROVE  g[i].cls # "stop"
    <3>1. CASE i \in 1 .. n
      BY <3>1 DEF NoStop, n
    <3>2. CASE i \notin 1 .. n
      <4>1. PICK k : k = i - n
        OBVIOUS
      <4>2. k \in 1 .. m /\ k < j /\ n + k = i
        BY <1>1, <1>3, <1>4, <2>1, <3>2, <4>1
      <4>3. rs[k].cls # "stop" /\ g[n + k] = rs[k]
        BY <1>3, <4>2 DEF n, m
      <4> QED BY <4>2, <4>3
    <3> QED BY <3>1, <3>2
  <2> QED BY <1>1, <1>3, <1>5, <1>6, <2>1 DEF FirstStop
<1>8. \A i \in 1 .. l : o + i \in 1 .. n + m /\ r[i].id = o + i
  <2> TAKE i \in 1 .. l
  <2>1. o + i \in 1 .. n + m
    BY <1>1, <1>2
  <2>2. g[o + i].id = o + i
    BY <1>1, <2>1 DEF Numbered
  <2> QED BY <1>2, <2>1, <2>2
<1>9. PICK e : e = q - o
  OBVIOUS
<1>10. e \in {l - 1, l} \cap 1 .. l /\ o + e = q /\ e \in 1 .. l
  <2>1. m = 1 \/ m = 2
    BY <1>1, <1>3
  <2> QED BY <1>1, <1>2, <1>3, <1>4, <1>9, <2>1
<1>11. r[e].cls = "stop" /\ r[e].id = q
  <2>1. r[e] = g[o + e]
    BY <1>2, <1>10
  <2>2. r[e].id = o + e
    BY <1>8, <1>10
  <2> QED BY <1>3, <1>6, <1>10, <2>1, <2>2
<1>12. \A i \in 1 .. (l - 1) : r[i + 1].id = r[i].id + 1
  <2> TAKE i \in 1 .. (l - 1)
  <2>1. i \in 1 .. l /\ i + 1 \in 1 .. l /\ o + (i + 1) = (o + i) + 1
    BY <1>1
  <2> QED BY <1>8, <2>1
<1>13. Len(r) < u.c.ring /\ ~u.c.trig => r[1].id = 1
  <2> SUFFICES ASSUME l < u.c.ring, ~u.c.trig
               PROVE  r[1].id = 1
    BY DEF l
  <2>1. l = n + m
    BY <1>1 DEF l
  <2>2. o + 1 = 1 /\ 1 \in 1 .. l
    BY <1>1, <1>2, <1>10, <2>1
  <2> QED BY <1>8, <2>2
<1>14. /\ \E x : /\ FirstStop(x, g)
                 /\ \E i \in {l - 1, l} \cap 1 .. l : r[i].cls = "stop" /\ r[i].id = x
  BY <1>7, <1>10, <1>11
<1> QED BY <1>12, <1>13, <1>14 DEF Halted, l

\* one cycle of the retire trace
LEMMA RtCycleOk ==
  ASSUME NEW t, IsRt(t), NEW h \in Seq(Rec), Numbered(h), NEW b \in Bundles, NEW rs, rs = Retired(Len(h), b),
         KeepsAll(t.c) /\ t.stopped => Halted(t, h),
         KeepsAll(t.c) /\ ~t.stopped => Going(t, h)
  PROVE  LET u == rt_cycle(t, rs)
         IN  /\ KeepsAll(t.c) => IsRt(u)
             /\ KeepsAll(t.c) /\ u.stopped => Halted(u, h \o rs)
             /\ KeepsAll(t.c) /\ ~u.stopped => Going(u, h \o rs)
<1> SUFFICES ASSUME KeepsAll(t.c)
             PROVE  LET u == rt_cycle(t, rs)
                    IN  /\ IsRt(u)
                        /\ u.stopped => Halted(u, h \o rs)
                        /\ ~u.stopped => Going(u, h \o rs)
  BY Zenon
<1> DEFINE g == h \o rs
           u == Counted(t, rs)
           v == Armed(t, rs)
           win == /\ v.retired >= v.c.lo
                  /\ v.c.hi = 0 \/ v.retired < v.c.hi
                  /\ v.c.cap = 0 \/ Len(v.recs) < v.c.cap
           fed == IF win /\ (~v.c.trig \/ v.armed) THEN FoldLeft(rt_emit, v, rs) ELSE v
           x == rt_cycle(t, rs)
<1>1. x = IF t.stopped THEN u
          ELSE IF Hits(rs) THEN [fed EXCEPT !.stopped = TRUE, !.archive = fed.recs] ELSE fed
  BY DEF rt_cycle, Counted, Armed, Hits
<1>2. /\ rs \in Seq(Rec) /\ Len(rs) \in 0 .. 2 /\ g \in Seq(Rec) /\ Numbered(g)
      /\ Len(h) \in Nat /\ Len(g) = Len(h) + Len(rs)
      /\ \A i \in 1 .. Len(h) : g[i] = h[i]
      /\ \A i \in 1 .. Len(rs) : g[Len(h) + i] = rs[i]
  BY RetiredConcat
<1>3. /\ IsRt(u) /\ u.c = t.c /\ u.recs = t.recs /\ u.archive = t.archive /\ u.stopped = t.stopped
      /\ IsRt(v) /\ v.c = t.c /\ v.recs = t.recs /\ v.archive = t.archive /\ v.stopped = t.stopped
      /\ rs # <<>> => v.retired >= 1
  BY <1>2, CountedArmed
<1>4. v.armed = (t.armed \/ (t.c.trig /\ \E i \in 1 .. Len(rs) : rs[i].cls # "kern"))
  BY <1>2, CountedArmed
<1>5. t.c.lo \in Nat /\ t.c.ring \in Nat /\ t.c \in RtConfigs
  BY ConfigTypes DEF IsRt
<1> HIDE DEF g, u, v, x
<1>6. CASE t.stopped
  <2>1. x = u
    BY <1>1, <1>6
  <2>2. Halted(t, h)
    BY <1>6
  <2>3. Len(g) \in Nat /\ Len(h) <= Len(g)
    BY <1>2
  <2>4. Halted(u, g)
    BY <1>2, <1>3, <2>2, <2>3, HaltedStays
  <2> QED BY <1>3, <1>6, <2>1, <2>4 DEF x, g
<1>7. CASE ~t.stopped
  <2>0. NoStop(h) /\ Ends(t.recs, h) /\ Len(t.recs) <= t.c.ring
        /\ (Len(t.recs) < t.c.ring /\ ~t.c.trig => Len(t.recs) = Len(h))
        /\ (t.c.trig /\ ~t.armed => t.recs = <<>>)
    BY <1>7 DEF Going
  <2>1. CASE ~v.c.trig \/ v.armed
    <3> DEFINE y == FoldLeft(rt_emit, v, rs)
    <3>1. /\ SameRt(y, v) /\ IsRt(y) /\ Ends(y.recs, g) /\ Len(y.recs) <= t.c.ring
          /\ Len(y.recs) >= Len(rs)
          /\ Len(y.recs) < t.c.ring => Len(y.recs) = Len(t.recs) + Len(rs)
      <4>1. KeepsAll(v.c) /\ Ends(v.recs, h) /\ Len(v.recs) <= v.c.ring /\ IsRt(v)
        BY <1>3, <2>0
      <4>2. /\ SameRt(y, v) /\ IsRt(y) /\ Ends(y.recs, h \o rs) /\ Len(y.recs) <= v.c.ring
            /\ Len(y.recs) >= Len(rs)
            /\ Len(y.recs) < v.c.ring => Len(y.recs) = Len(v.recs) + Len(rs)
        BY <1>2, <4>1, EmitsOk
      <4> QED BY <1>3, <4>2 DEF g
    <3>2. fed = y
      <4>1. CASE rs = <<>>
        <5>1. Len(rs) = 0 /\ Len(rs) <= 2
          BY <4>1
        <5>2. y = v
          BY <1>2, <5>1, EmitsFold
        <5> QED BY <5>2
      <4>2. CASE rs # <<>>
        <5>1. v.retired \in Nat /\ v.retired >= 1
          BY <1>3, <4>2 DEF IsRt
        <5>2. v.c.lo \in Nat /\ v.c.lo <= 1 /\ v.c.hi = 0 /\ v.c.cap = 0
          BY <1>3, <1>5 DEF KeepsAll
        <5>3. v.retired >= v.c.lo
          BY <5>1, <5>2
        <5>4. win
          BY <5>2, <5>3
        <5> QED BY <2>1, <5>4
      <4> QED BY <4>1, <4>2
    <3> HIDE DEF y, fed
    <3>3. y.c = t.c /\ y.armed = v.armed /\ y.stopped = t.stopped /\ DOMAIN y = RtFields
      BY <1>3, <3>1 DEF SameRt
    <3>4. Len(y.recs) < t.c.ring /\ ~t.c.trig => Len(y.recs) = Len(g)
      <4> SUFFICES ASSUME Len(y.recs) < t.c.ring, ~t.c.trig
                   PROVE  Len(y.recs) = Len(g)
        OBVIOUS
      <4>1. Len(y.recs) \in Nat /\ Len(t.recs) \in Nat
        BY <3>1, LenProperties DEF IsRt
      <4>2. Len(y.recs) = Len(t.recs) + Len(rs)
        BY <3>1
      <4>3. Len(t.recs) < t.c.ring
        BY <1>2, <1>5, <4>1, <4>2
      <4>4. Len(t.recs) = Len(h)
        BY <2>0, <4>3
      <4> QED BY <1>2, <4>2, <4>4
    <3>5. CASE Hits(rs)
      <4>1. x = [y EXCEPT !.stopped = TRUE, !.archive = y.recs]
        BY <1>1, <1>7, <3>2, <3>5
      <4>2. DOMAIN x = RtFields /\ x.recs = y.recs /\ x.archive = y.recs /\ x.c = y.c /\ x.retired = y.retired /\ x.stopped
        BY <3>3, <4>1 DEF RtFields
      <4>3. IsRt(x) /\ x.recs \in Seq(Rec)
        BY <3>1, <4>2 DEF IsRt
      <4>4. Halted(x, g)
        <5>1. /\ x.archive = x.recs /\ Ends(x.recs, g) /\ Len(x.recs) >= Len(rs)
              /\ Len(x.recs) < x.c.ring /\ ~x.c.trig => Len(x.recs) = Len(g)
          BY <3>1, <3>3, <3>4, <4>2
        <5> QED BY <1>2, <2>0, <3>5, <4>3, <5>1, HaltsAt
      <4> QED BY <3>3, <4>2, <4>3, <4>4 DEF x, g
    <3>6. CASE ~Hits(rs)
      <4>1. x = y
        BY <1>1, <1>7, <3>2, <3>6
      <4>2. NoStop(g)
        <5>1. ASSUME NEW i \in 1 .. Len(g)
              PROVE  g[i].cls # "stop"
          <6>1. CASE i \in 1 .. Len(h)
            BY <1>2, <2>0, <6>1 DEF NoStop
          <6>2. CASE i \notin 1 .. Len(h)
            <7>1. PICK k : k = i - Len(h)
              OBVIOUS
            <7>2. k \in 1 .. Len(rs) /\ Len(h) + k = i
              BY <1>2, <6>2, <7>1
            <7>3. g[Len(h) + k] = rs[k] /\ rs[k].cls # "stop"
              BY <1>2, <3>6, <7>2 DEF Hits
            <7> QED BY <7>2, <7>3
          <6> QED BY <6>1, <6>2
        <5> QED BY <5>1 DEF NoStop
      <4>3. y.c.trig /\ ~y.armed => y.recs = <<>>
        BY <1>3, <2>1, <3>3
      <4>4. Going(y, g)
        BY <3>1, <3>3, <3>4, <4>2, <4>3 DEF Going
      <4> QED BY <1>7, <3>1, <3>3, <4>1, <4>4 DEF x, g
    <3> QED BY <3>5, <3>6
  <2>2. CASE v.c.trig /\ ~v.armed
    <3>1. fed = v
      BY <2>2
    <3>2. ~t.armed /\ \A i \in 1 .. Len(rs) : rs[i].cls = "kern"
      <4>1. ~(t.armed \/ (t.c.trig /\ \E i \in 1 .. Len(rs) : rs[i].cls # "kern"))
        BY <1>4, <2>2, Zenon
      <4>2. t.c.trig
        BY <1>3, <2>2
      <4> QED BY <4>1, <4>2, Zenon
    <3> HIDE DEF fed
    <3>3. ~Hits(rs)
      BY <3>2 DEF Hits
    <3>4. x = v
      BY <1>1, <1>7, <3>1, <3>3
    <3>5. t.c.trig /\ t.recs = <<>> /\ v.recs = <<>>
      BY <1>3, <2>0, <2>2, <3>2
    <3>6. NoStop(g)
      <4>1. ASSUME NEW i \in 1 .. Len(g)
            PROVE  g[i].cls # "stop"
        <5>1. CASE i \in 1 .. Len(h)
          BY <1>2, <2>0, <5>1 DEF NoStop
        <5>2. CASE i \notin 1 .. Len(h)
          <6>1. PICK k : k = i - Len(h)
            OBVIOUS
          <6>2. k \in 1 .. Len(rs) /\ Len(h) + k = i
            BY <1>2, <5>2, <6>1
          <6>3. g[Len(h) + k] = rs[k] /\ rs[k].cls # "stop"
            BY <1>2, <3>2, <6>2
          <6> QED BY <6>2, <6>3
        <5> QED BY <5>1, <5>2
      <4> QED BY <4>1 DEF NoStop
    <3>7. Ends(<<>>, g)
      <4>1. Len(g) \in Nat /\ Len(g) + 0 = Len(g)
        BY <1>2
      <4>2. Len(<<>>) = 0 /\ \A i \in 1 .. 0 : FALSE
        OBVIOUS
      <4>3. Len(g) + Len(<<>>) = Len(g) /\ \A i \in 1 .. Len(<<>>) : <<>>[i] = g[Len(g) + i]
        BY <4>1, <4>2, Zenon
      <4> QED BY <4>1, <4>3, Zenon DEF Ends
    <3>8. Going(v, g)
      <4>1. Len(v.recs) <= v.c.ring
        BY <1>3, <2>0
      <4> QED BY <1>3, <3>5, <3>6, <3>7, <4>1 DEF Going
    <3> QED BY <1>3, <1>7, <3>4, <3>8 DEF x, g
  <2> QED BY <2>1, <2>2
<1> QED BY <1>6, <1>7

\* the settings never change
LEMMA EmitConfig ==
  ASSUME NEW t, DOMAIN t = RtFields, NEW r
  PROVE  DOMAIN rt_emit(t, r) = RtFields /\ rt_emit(t, r).c = t.c
<1> DEFINE s == Append(t.recs, r)
<1>1. PICK g : g = IF t.c.ring # 0 /\ Len(s) > t.c.ring THEN Tail(s) ELSE s
  OBVIOUS
<1>2. rt_emit(t, r) = t \/ rt_emit(t, r) = [t EXCEPT !.recs = g]
  BY <1>1 DEF rt_emit
<1> QED BY <1>2 DEF RtFields

\* rt_cycle never changes the setting.
LEMMA CycleConfig ==
  ASSUME NEW t, DOMAIN t = RtFields, NEW rs \in Seq(Rec), Len(rs) \in 0 .. 2
  PROVE  DOMAIN rt_cycle(t, rs) = RtFields /\ rt_cycle(t, rs).c = t.c
<1> DEFINE Ok(u) == DOMAIN u = RtFields /\ u.c = t.c
           v == Armed(t, rs)
           y == FoldLeft(rt_emit, v, rs)
<1>1. Ok(Counted(t, rs))
  <2>1. PICK k : k = IF rs # <<>> THEN t.retired + 1 ELSE t.retired
    OBVIOUS
  <2>2. Counted(t, rs) = [t EXCEPT !.retired = k]
    BY <2>1 DEF Counted, RtFields
  <2> QED BY <2>2 DEF RtFields
<1>2. Ok(v)
  <2>1. PICK a : a = (Counted(t, rs).armed \/ (t.c.trig /\ \E i \in 1 .. Len(rs) : rs[i].cls # "kern"))
    OBVIOUS
  <2>2. v = [Counted(t, rs) EXCEPT !.armed = a]
    BY <2>1, Zenon DEF Armed
  <2> QED BY <1>1, <2>2 DEF RtFields
<1> HIDE DEF v
<1>3. Ok(y)
  <2>1. Len(rs) <= 2 /\ (Len(rs) = 0 \/ Len(rs) = 1 \/ Len(rs) = 2)
    OBVIOUS
  <2>2. /\ Len(rs) = 0 => y = v
        /\ Len(rs) = 1 => y = rt_emit(v, rs[1])
        /\ Len(rs) = 2 => y = rt_emit(rt_emit(v, rs[1]), rs[2])
    BY <2>1, EmitsFold
  <2> HIDE DEF y
  <2>3. Ok(rt_emit(v, rs[1]))
    BY <1>2, EmitConfig
  <2>4. Ok(rt_emit(rt_emit(v, rs[1]), rs[2]))
    <3>1. PICK z : z = rt_emit(v, rs[1])
      OBVIOUS
    <3>2. Ok(rt_emit(z, rs[2]))
      BY <2>3, <3>1, EmitConfig
    <3> QED BY <3>1, <3>2
  <2> QED BY <1>2, <2>1, <2>2, <2>3, <2>4
<1> HIDE DEF y
<1>4. PICK fed : /\ fed = v \/ fed = y
                 /\ rt_cycle(t, rs) = IF t.stopped THEN Counted(t, rs)
                      ELSE IF Hits(rs) THEN [fed EXCEPT !.stopped = TRUE, !.archive = fed.recs] ELSE fed
  <2> DEFINE win == /\ v.retired >= v.c.lo
                    /\ v.c.hi = 0 \/ v.retired < v.c.hi
                    /\ v.c.cap = 0 \/ Len(v.recs) < v.c.cap
             fed == IF win /\ (~v.c.trig \/ v.armed) THEN y ELSE v
  <2>1. rt_cycle(t, rs) = IF t.stopped THEN Counted(t, rs)
                      ELSE IF Hits(rs) THEN [fed EXCEPT !.stopped = TRUE, !.archive = fed.recs] ELSE fed
    BY DEF rt_cycle, Counted, Armed, Hits, v, y
  <2>2. fed = v \/ fed = y
    OBVIOUS
  <2> HIDE DEF fed
  <2> QED BY <2>1, <2>2
<1>5. Ok(fed)
  BY <1>2, <1>3, <1>4
<1>6. Ok([fed EXCEPT !.stopped = TRUE, !.archive = fed.recs])
  BY <1>5 DEF RtFields
<1> QED BY <1>1, <1>4, <1>5, <1>6

\* The retire-trace invariant holds before the first cycle.
LEMMA RtInit == Init => RtInv
<1> SUFFICES ASSUME Init
             PROVE  RtInv
  OBVIOUS
<1>1. PICK c \in RtConfigs : rt = rt_open(c)
  BY DEF Init
<1>2. /\ DOMAIN rt = RtFields /\ rt.c = c /\ rt.recs = <<>> /\ rt.retired = 0 /\ ~rt.stopped
  BY <1>1 DEF rt_open, RtFields
<1>3. hist.recs = <<>>
  BY DEF Init
<1>4. <<>> \in Seq(Rec) /\ Len(<<>>) = 0
  OBVIOUS
<1>5. IsRt(rt)
  BY <1>2, <1>4 DEF IsRt
<1>6. Numbered(hist.recs) /\ NoStop(hist.recs)
  BY <1>3, <1>4 DEF Numbered, NoStop
<1>7. Ends(<<>>, <<>>)
  <2>1. 0 \in Nat /\ 0 + 0 = 0 /\ \A i \in 1 .. 0 : FALSE
    OBVIOUS
  <2> QED BY <1>4, <2>1, Zenon DEF Ends
<1>8. 0 <= rt.c.ring
  <2>1. rt.c.ring \in Nat
    BY <1>2, ConfigTypes
  <2> QED BY <2>1
<1>9. Going(rt, hist.recs)
  BY <1>2, <1>3, <1>4, <1>6, <1>7, <1>8 DEF Going
<1> QED BY <1>2, <1>3, <1>4, <1>5, <1>6, <1>9 DEF RtInv

\* Every step keeps the retire-trace invariant.
LEMMA RtStep == RtInv /\ [Next]_vars => RtInv'
<1> SUFFICES ASSUME RtInv, [Next]_vars
             PROVE  RtInv'
  OBVIOUS
<1>1. ASSUME NEW b \in Bundles, NEW st \in BOOLEAN, NEW irq \in BOOLEAN, Cycle(b, st, irq)
      PROVE  RtInv'
  <2> DEFINE rs == Retired(Len(hist.recs), b)
  <2>1. hist'.recs = hist.recs \o rs /\ rt' = rt_cycle(rt, rs)
    BY <1>1 DEF Cycle, Retired
  <2>2. hist.recs \in Seq(Rec) /\ Numbered(hist.recs) /\ DOMAIN rt = RtFields
    BY DEF RtInv
  <2>3. rs \in Seq(Rec) /\ Len(rs) \in 0 .. 2 /\ hist.recs \o rs \in Seq(Rec) /\ Numbered(hist.recs \o rs)
    BY <2>2, RetiredConcat
  <2>4. DOMAIN rt' = RtFields /\ rt'.c = rt.c
    BY <2>1, <2>2, <2>3, CycleConfig
  <2>5. CASE KeepsAll(rt.c)
    <3>1. /\ IsRt(rt) /\ (KeepsAll(rt.c) /\ rt.stopped => Halted(rt, hist.recs))
          /\ (KeepsAll(rt.c) /\ ~rt.stopped => Going(rt, hist.recs))
      BY <2>5 DEF RtInv
    <3>2. PICK u : u = rt_cycle(rt, rs)
      OBVIOUS
    <3>3. /\ IsRt(u) /\ (u.stopped => Halted(u, hist.recs \o rs))
          /\ (~u.stopped => Going(u, hist.recs \o rs))
      BY <2>2, <2>5, <3>1, <3>2, RtCycleOk
    <3>4. rt' = u
      BY <2>1, <3>2
    <3> QED BY <2>1, <2>3, <2>4, <3>3, <3>4 DEF RtInv
  <2>6. CASE ~KeepsAll(rt.c)
    BY <2>1, <2>3, <2>4, <2>6 DEF RtInv
  <2> QED BY <2>5, <2>6
<1>2. CASE Close
  <2>1. hist' = hist /\ rt' = IF rt.recs = <<>> THEN rt ELSE [rt EXCEPT !.archive = rt.recs]
    BY <1>2 DEF Close, rt_close
  <2>2. DOMAIN rt = RtFields
    BY DEF RtInv
  <2>3. /\ DOMAIN rt' = RtFields /\ rt'.c = rt.c /\ rt'.recs = rt.recs /\ rt'.armed = rt.armed
        /\ rt'.retired = rt.retired /\ rt'.stopped = rt.stopped
        /\ rt'.archive = rt.archive \/ rt'.archive = rt.recs
    BY <2>1, <2>2 DEF RtFields
  <2>4. KeepsAll(rt.c) => IsRt(rt')
    BY <2>3 DEF RtInv, IsRt
  <2>5. KeepsAll(rt.c) /\ rt.stopped => Halted(rt', hist.recs)
    <3> SUFFICES ASSUME KeepsAll(rt.c), rt.stopped
                 PROVE  Halted(rt', hist.recs)
      OBVIOUS
    <3>1. Halted(rt, hist.recs)
      BY DEF RtInv
    <3>2. rt.archive = rt.recs
      BY <3>1 DEF Halted
    <3> QED BY <2>3, <3>1, <3>2 DEF Halted
  <2>6. KeepsAll(rt.c) /\ ~rt.stopped => Going(rt', hist.recs)
    BY <2>3 DEF RtInv, Going
  <2> QED BY <2>1, <2>3, <2>4, <2>5, <2>6 DEF RtInv
<1>3. CASE UNCHANGED <<hist, rt>>
  BY <1>3 DEF RtInv
<1>4. CASE \E k \in 0 .. Len(ct_close(ct).file), j \in 0 .. Len(ct.raw) : Kill(k, j)
  BY <1>3, <1>4 DEF Kill
<1>5. CASE rd_magic \/ rd_end \/ rd_trailer
  BY <1>3, <1>5 DEF rd_magic, rd_end, rd_trailer
<1>6. CASE rd_short_header \/ rd_chunk
  BY <1>3, <1>6 DEF rd_short_header, rd_chunk
<1>7. CASE Finished \/ UNCHANGED vars
  BY <1>3, <1>7 DEF Finished, vars
<1> QED BY <1>1, <1>2, <1>4, <1>5, <1>6, <1>7 DEF Next

\* the first stop is the least one
LEMMA FirstStopMin ==
  ASSUME NEW h, NEW q, FirstStop(q, h)
  PROVE  Min({i \in 1 .. Len(h) : h[i].cls = "stop"}) = q
<1> DEFINE s == {i \in 1 .. Len(h) : h[i].cls = "stop"}
<1>1. q \in s /\ \A y \in s : q <= y
  <2>1. q \in 1 .. Len(h) /\ h[q].cls = "stop" /\ \A i \in 1 .. Len(h) : i < q => h[i].cls # "stop"
    BY DEF FirstStop
  <2> QED BY <2>1
<1>2. \A z \in s : (\A y \in s : z <= y) => z = q
  <2> SUFFICES ASSUME NEW z \in s, \A y \in s : z <= y
               PROVE  z = q
    OBVIOUS
  <2>1. z <= q /\ q <= z
    BY <1>1
  <2>2. z \in Int /\ q \in Int
    BY <1>1
  <2> QED BY <2>1, <2>2
<1>3. Min(s) = CHOOSE z \in s : \A y \in s : z <= y
  BY DEF Min
<1> HIDE DEF s
<1> QED BY <1>1, <1>2, <1>3 DEF s

\* What a halted trace archived is the lead-up to the stop.
LEMMA RtLeadUp == RtInv => CrashLeadUp
<1> SUFFICES ASSUME RtInv, rt.stopped, KeepsAll(rt.c)
             PROVE  CrashLeadUp
  BY DEF CrashLeadUp, KeepsAll
<1>1. Halted(rt, hist.recs)
  BY DEF RtInv
<1>2. PICK q : /\ FirstStop(q, hist.recs)
               /\ \E i \in {Len(rt.recs) - 1, Len(rt.recs)} \cap 1 .. Len(rt.recs) :
                     rt.recs[i].cls = "stop" /\ rt.recs[i].id = q
  BY <1>1 DEF Halted
<1>3. Min({i \in 1 .. Len(hist.recs) : hist.recs[i].cls = "stop"}) = q
  BY <1>2, FirstStopMin
<1>4. rt.archive = rt.recs
  BY <1>1 DEF Halted
<1>5. /\ \E i \in {Len(rt.archive) - 1, Len(rt.archive)} \cap 1 .. Len(rt.archive) :
            /\ rt.archive[i].cls = "stop"
            /\ rt.archive[i].id = Min({j \in 1 .. Len(hist.recs) : hist.recs[j].cls = "stop"})
      /\ \A i \in 1 .. (Len(rt.archive) - 1) : rt.archive[i + 1].id = rt.archive[i].id + 1
      /\ Len(rt.archive) < rt.c.ring /\ ~rt.c.trig => rt.archive[1].id = 1
  BY <1>1, <1>2, <1>3, <1>4 DEF Halted
<1> QED BY <1>5 DEF CrashLeadUp

\* The archive that RETIRETRACE_STOP writes, and the one of the end of the run after it, ends
\* with the stop pc and holds the retires before it without a gap, for every ring of two or more
\* records, every bundle and both uses of the trigger.
THEOREM LeadUpKept == Spec => []CrashLeadUp
<1>1. Init => RtInv
  BY RtInit
<1>2. RtInv /\ [Next]_vars => RtInv'
  BY RtStep
<1>3. RtInv => CrashLeadUp
  BY RtLeadUp
<1> QED BY <1>1, <1>2, <1>3, PTL DEF Spec
====
