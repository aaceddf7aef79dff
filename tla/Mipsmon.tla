------------------------------ MODULE Mipsmon -------------------------------
(***************************************************************************)
(* mipsmon, the curses client of the TCP monitor: one loop that takes a    *)
(* key, reads what the server has sent and redraws.  It keeps a bounded    *)
(* scrollback, of which draw wraps only a tail, and in LINE mode a bounded *)
(* history of the lines sent.                                              *)
(*                                                                         *)
(* A line is a sequence of characters.  The line <<"q">> stands for the    *)
(* two commands that quit, "ctl" for any other control byte.               *)
(***************************************************************************)
EXTENDS Integers, Sequences, SequencesExt

CONSTANTS
  Rows, Cols,      \* the size of the output window
  Tab,             \* distance of the tab stops
  MAX_SCROLLBACK, MAX_HISTORY,
  Sessions,        \* what is tried: [keys, bytes, chunk, nbytes] the keys, the bytes
                   \* the server sends, how many at once and in all
  MaxInput         \* bound: characters of the edited line

ASSUME MipsmonAssumption ==
  /\ {Rows, Cols, Tab, MAX_SCROLLBACK, MAX_HISTORY} \subseteq Nat \ {0}
  /\ MaxInput \in Nat /\ \A s \in Sessions : s.chunk \in Nat

VARIABLES
  ui,      \* g_input, g_hist, g_hist_idx (0: off), g_saved_input, g_scroll, g_raw,
           \* running, and what this turn of the loop has written to the socket
  out,     \* g_lines and g_partial
  peer,    \* "open" or "closed"
  stash,   \* the line that was being edited when the browsing of the history began
  session, nbytes

vars == <<ui, out, peer, stash, session, nbytes>>

Banner  == <<"banner">>
Goodbye == <<"disconnected">>

Init ==
  /\ ui = [input |-> <<>>, hist |-> <<>>, hist_idx |-> 0, saved |-> <<>>, scroll |-> 0,
           raw |-> FALSE, running |-> TRUE, sent |-> <<>>]
  /\ out = [lines |-> <<Banner>>, partial |-> <<>>]
  /\ peer = "open" /\ stash = <<>> /\ session \in Sessions /\ nbytes = 0
-----------------------------------------------------------------------------
(* Output *)
LastN(s, n) == IF Len(s) > n THEN SubSeq(s, Len(s) - n + 1, Len(s)) ELSE s

push_line(o, l) == [o EXCEPT !.lines = LastN(Append(@, l), MAX_SCROLLBACK)]

Blanks(n) == [i \in 1..n |-> "blank"]

feed_byte(o, c) ==
  CASE c \in {"cr", "ctl"} -> o
    [] c = "lf"  -> [push_line(o, o.partial) EXCEPT !.partial = <<>>]
    [] c = "tab" -> [o EXCEPT !.partial = @ \o Blanks(Tab - (Len(@) % Tab))]
    [] c = "bs"  -> [o EXCEPT !.partial = IF @ = <<>> THEN @ ELSE Front(@)]
    [] OTHER     -> [o EXCEPT !.partial = Append(@, c)]

feed_output(o, bytes) == FoldLeft(feed_byte, o, bytes)

\* the screen rows of a line
wrap(l) ==
  IF l = <<>> THEN <<<<>>>>
  ELSE [i \in 1..(Len(l) + Cols - 1) \div Cols |->
          SubSeq(l, (i - 1) * Cols + 1, IF i * Cols < Len(l) THEN i * Cols ELSE Len(l))]

Wrapped(ls) == FlattenSeq([i \in 1..Len(ls) |-> wrap(ls[i])])

\* Rows rows of screen, s rows above its end, and the s that is left after the clamp
Window(screen, s) ==
  LET total == Len(screen)
      most  == IF total > Rows THEN total - Rows ELSE 0
      sc    == IF s > most THEN most ELSE s
      start == IF total - Rows - sc < 0 THEN 0 ELSE total - Rows - sc
  IN  [scroll |-> sc, rows |-> SubSeq(screen, start + 1, IF start + Rows < total THEN start + Rows ELSE total)]

\* a tail that forgets how far the user has scrolled
draw_page(o, s) == Window(Wrapped(LastN(Append(o.lines, o.partial), Rows + 4)), s)

\* enough lines to fill the window and what is scrolled past
draw(o, s) == Window(Wrapped(LastN(Append(o.lines, o.partial), Rows + s + 4)), s)
-----------------------------------------------------------------------------
(* Keys *)
Page == Rows \div 2

\* ^C and a stray SIGINT: passed on, and the edited line is dropped
interrupt(u) == [u EXCEPT !.sent = Append(@, "^C"), !.input = <<>>, !.hist_idx = 0, !.scroll = 0]

press_raw(u, k) ==
  CASE k = "enter" -> [u EXCEPT !.sent = Append(@, "cr")]
    [] k = "bs"    -> [u EXCEPT !.sent = Append(@, "del")]
    [] k \in {"up", "down"} -> u
    [] OTHER       -> [u EXCEPT !.sent = Append(@, k)]

press_enter(u) ==
  LET l == u.input
      h == IF l = <<>> \/ (u.hist # <<>> /\ Last(u.hist) = l) THEN u.hist ELSE Append(u.hist, l)
      v == [u EXCEPT !.input = <<>>, !.hist_idx = 0]
  IN  IF l = <<"q">> THEN [v EXCEPT !.running = FALSE]
      ELSE [v EXCEPT !.sent = @ \o l \o <<"cr">>, !.hist = LastN(h, MAX_HISTORY)]

\* saving the line at every step back
press_up_always(u) ==
  LET i == IF u.hist_idx = 0 THEN Len(u.hist) + 1 ELSE u.hist_idx
      v == [u EXCEPT !.saved = u.input, !.hist_idx = i]
  IN  IF u.hist = <<>> THEN u
      ELSE IF i > 1 THEN [v EXCEPT !.hist_idx = i - 1, !.input = u.hist[i - 1]] ELSE v

press_up(u) ==
  LET i == IF u.hist_idx = 0 THEN Len(u.hist) + 1 ELSE u.hist_idx
      v == [u EXCEPT !.saved = IF u.hist_idx = 0 THEN u.input ELSE @, !.hist_idx = i]
  IN  IF u.hist = <<>> THEN u
      ELSE IF i > 1 THEN [v EXCEPT !.hist_idx = i - 1, !.input = u.hist[i - 1]] ELSE v

\* one entry too far
press_down_past(u) ==
  IF u.hist_idx = 0 THEN u
  ELSE IF u.hist_idx > Len(u.hist) THEN [u EXCEPT !.hist_idx = 0, !.input = u.saved]
  ELSE [u EXCEPT !.hist_idx = @ + 1]

press_down(u) ==
  IF u.hist_idx = 0 THEN u
  ELSE IF u.hist_idx + 1 > Len(u.hist) THEN [u EXCEPT !.hist_idx = 0, !.input = u.saved]
  ELSE [u EXCEPT !.hist_idx = @ + 1, !.input = u.hist[u.hist_idx + 1]]

press_line(u, k) ==
  CASE k = "enter" -> press_enter(u)
    [] k = "bs"    -> [u EXCEPT !.input = IF @ = <<>> THEN @ ELSE Front(@)]
    [] k = "^U"    -> [u EXCEPT !.input = <<>>]
    [] k = "up"    -> press_up(u)
    [] k = "down"  -> press_down(u)
    [] OTHER       -> [u EXCEPT !.input = Append(@, k)]

press(u, k) ==
  LET live == [u EXCEPT !.scroll = 0]
  IN  CASE k = "none" -> u
        [] k = "pgup" -> [u EXCEPT !.scroll = @ + Page]
        [] k = "pgdn" -> [u EXCEPT !.scroll = IF @ > Page THEN @ - Page ELSE 0]
        [] k = "^\\"  -> [live EXCEPT !.running = FALSE]
        [] k = "^]"   -> [live EXCEPT !.sent = Append(@, "^]")]
        [] k = "^R"   -> [live EXCEPT !.raw = ~@]
        [] k = "^L"   -> live
        [] k = "^C"   -> interrupt(live)
        [] OTHER      -> IF u.raw THEN press_raw(live, k) ELSE press_line(live, k)
-----------------------------------------------------------------------------
Chunks == UNION {[1..n -> session.bytes] : n \in 0..session.chunk}

\* one turn of the loop: a pending SIGINT, a key or none, what has arrived, the redraw
Turn(sig, k, bytes) ==
  LET idle == [ui EXCEPT !.sent = <<>>]
      w == IF sig THEN interrupt(idle) ELSE idle
      u == press(w, k)
      end == bytes = <<>> /\ peer = "closed"
      o == IF end THEN push_line(out, Goodbye) ELSE feed_output(out, bytes)
  IN  /\ ui.running /\ Len(u.input) <= MaxInput /\ nbytes + Len(bytes) <= session.nbytes
      /\ out' = o
      /\ ui' = [u EXCEPT !.scroll = draw(o, u.scroll).scroll, !.running = @ /\ ~end]
      /\ stash' = IF w.hist_idx = 0 /\ u.hist_idx # 0 THEN w.input ELSE stash
      /\ nbytes' = nbytes + Len(bytes)
      /\ UNCHANGED <<peer, session>>

ServerClose == peer = "open" /\ peer' = "closed" /\ UNCHANGED <<ui, out, stash, session, nbytes>>

Ended == ~ui.running /\ UNCHANGED vars

Next ==
  \/ \E sig \in BOOLEAN, k \in session.keys \cup {"none"}, bytes \in Chunks :
       (sig => "^C" \in session.keys) /\ Turn(sig, k, bytes)
  \/ ServerClose \/ Ended

Spec == Init /\ [][Next]_vars
-----------------------------------------------------------------------------
(* Properties *)

\* Type invariant; the two rings keep their limits and the history index names an entry.
TypeOK ==
  /\ ui.hist_idx \in 0..Len(ui.hist) /\ Len(ui.hist) <= MAX_HISTORY
  /\ Len(out.lines) <= MAX_SCROLLBACK /\ Len(ui.input) <= MaxInput
  /\ ui.scroll \in Nat /\ {ui.raw, ui.running} \subseteq BOOLEAN /\ peer \in {"open", "closed"}

\* Wrapping only a tail of the scrollback shows the rows, and stops the scrolling where,
\* wrapping all of it would: at any scroll, with lines of any length and the ring full (draw).
DrawFaithful ==
  \A s \in ui.scroll..ui.scroll + Page :
    draw(out, s) = Window(Wrapped(Append(out.lines, out.partial)), s)

\* However far the user goes back and forth, editing recalled lines on the way, Down past
\* the newest entry gives back the line that was being edited when the browsing began.
StashReturned ==
  [][ui.hist_idx # 0 /\ ui'.hist_idx = 0 /\ ui'.sent = <<>> /\ ui'.running => ui'.input = stash]_vars
=============================================================================
