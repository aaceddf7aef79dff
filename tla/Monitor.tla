------------------------------ MODULE Monitor -------------------------------
(***************************************************************************)
(* The TCP monitor of henry_tb: one client at a time may halt, run or step *)
(* the simulation, and in console mode sees the guest's output.  The main  *)
(* loop polls the socket every PollEvery cycles, or all the time while it  *)
(* is frozen; one poll accepts a client, or reads what has arrived and     *)
(* handles it byte by byte.  The peer is any TCP client: it may send bytes *)
(* in any order, close, or reset the connection with bytes still unread.   *)
(*                                                                         *)
(* A byte is one character.  The commands that only print ("?", pc, regs,  *)
(* mem, ...) are the byte "?"; "^]" is 0x1d and "bs" is 0x7f.              *)
(***************************************************************************)
EXTENDS Integers, Sequences

CONSTANTS
  Bytes,      \* what a client may send
  LineMax,    \* sizeof(g_mon_line) - 1
  PollEvery,  \* cycles between two polls of a running simulation
  MaxIcnt,    \* --maxicnt: the run ends after this many retirements
  MaxBytes,   \* bound: bytes sent in a run
  MaxUnread,  \* bound: bytes in flight
  MaxConn     \* bound: connections in a run

ASSUME MonitorAssumption ==
  /\ LineMax \in Nat \ {0} /\ PollEvery \in Nat \ {0} /\ MaxIcnt \in Nat
  /\ MaxBytes \in Nat /\ MaxUnread \in Nat /\ MaxConn \in Nat

VARIABLES
  sock,      \* the peer: "none", "pending" (in the backlog), "open", "closed", "reset"
  stream,    \* bytes sent and not read
  client,    \* g_mon_client >= 0
  cmd_mode,  \* g_mon_cmd_mode
  paused,    \* g_mon_paused
  step_to,   \* g_mon_step_to
  line,      \* g_mon_line
  rb,        \* the bytes of this poll that are still to be handled
  at,        \* the main loop: "top", "poll", "gate", "exit"
  cyc, retired,
  wrote,     \* something was written since the peer went away
  alive,     \* FALSE once SIGPIPE has ended the simulator
  asked,     \* what the client last asked for: to run, to halt, or n steps; for a step,
             \* the instructions that have run since, those of slot 1 too
  nbytes, nconn

net    == <<sock, stream, nbytes, nconn>>
loop   == <<at, cyc, retired>>
server == <<client, cmd_mode, paused, step_to, line, asked>>
vars   == <<net, loop, server, rb, wrote, alive>>

Gone == sock \in {"closed", "reset"}

Order(cmd, n) == [cmd |-> cmd, n |-> n, ran |-> 0]

Init ==
  /\ sock = "none" /\ stream = <<>> /\ nbytes = 0 /\ nconn = 0
  /\ client = FALSE /\ cmd_mode = TRUE /\ paused = FALSE /\ step_to = 0 /\ line = <<>>
  /\ rb = <<>> /\ at = "top" /\ cyc = 0 /\ retired = 0
  /\ wrote = FALSE /\ alive = TRUE /\ asked = Order("run", 0)
-----------------------------------------------------------------------------
(* The peer *)
Connect ==
  /\ sock = "none" /\ nconn < MaxConn
  /\ sock' = "pending" /\ nconn' = nconn + 1
  /\ UNCHANGED <<stream, nbytes, loop, server, rb, wrote, alive>>

Send(c) ==
  /\ sock = "open" /\ Len(stream) < MaxUnread /\ nbytes < MaxBytes
  /\ stream' = Append(stream, c) /\ nbytes' = nbytes + 1
  /\ UNCHANGED <<sock, nconn, loop, server, rb, wrote, alive>>

Close ==
  /\ sock = "open" /\ sock' = "closed"
  /\ UNCHANGED <<stream, nbytes, nconn, loop, server, rb, wrote, alive>>

Reset ==
  /\ sock = "open" /\ sock' = "reset" /\ stream' = <<>>
  /\ UNCHANGED <<nbytes, nconn, loop, server, rb, wrote, alive>>
-----------------------------------------------------------------------------
(***************************************************************************)
(* mon_send.  The first write after the peer is gone succeeds; a later one *)
(* raises SIGPIPE once the peer's reset has come back (fast), and nothing  *)
(* ignores that signal.  n is the number of writes a handler makes.        *)
(***************************************************************************)
mon_send(n, fast) ==
  /\ wrote' = (wrote \/ (client /\ Gone /\ n > 0))
  /\ alive' = (alive /\ ~(client /\ Gone /\ fast /\ (n > 1 \/ (wrote /\ n > 0))))

Digit(c) == CASE c = "0" -> 0 [] c = "2" -> 2 [] OTHER -> -1

StepCount(l) == IF Len(l) > 1 /\ Digit(l[2]) >= 0 THEN Digit(l[2]) ELSE 1

\* a line is dispatched on its first letter; an empty line or a lone "c" leaves the monitor
IsConsole(l) == l = <<>> \/ l = <<"c">>

mon_console(l, fast) ==
  /\ IsConsole(l)
  /\ cmd_mode' = FALSE
  /\ UNCHANGED <<paused, step_to, asked>>
  /\ mon_send(2, fast)

mon_halt(l, fast) ==
  /\ ~IsConsole(l) /\ l[1] = "h"
  /\ paused' = TRUE /\ step_to' = 0 /\ asked' = Order("halt", 0)
  /\ UNCHANGED cmd_mode
  /\ mon_send(3, fast)

\* leaving a step pending
mon_go_only(l, fast) ==
  /\ ~IsConsole(l) /\ l[1] = "g"
  /\ paused' = FALSE /\ asked' = Order("run", 0)
  /\ UNCHANGED <<cmd_mode, step_to>>
  /\ mon_send(3, fast)

mon_go(l, fast) ==
  /\ ~IsConsole(l) /\ l[1] = "g"
  /\ paused' = FALSE /\ step_to' = 0 /\ asked' = Order("run", 0)
  /\ UNCHANGED cmd_mode
  /\ mon_send(3, fast)

mon_step(l, fast) ==
  /\ ~IsConsole(l) /\ l[1] = "s"
  /\ step_to' = retired + StepCount(l) /\ asked' = Order("step", StepCount(l))
  /\ paused' = FALSE
  /\ UNCHANGED cmd_mode
  /\ mon_send(2, fast)

\* the commands that print, and what is not a command
mon_print(l, fast) ==
  /\ ~IsConsole(l) /\ l[1] \notin {"h", "g", "s"}
  /\ UNCHANGED <<cmd_mode, paused, step_to, asked>>
  /\ mon_send(3, fast)

mon_cmd(l, fast) ==
  \/ mon_console(l, fast) \/ mon_halt(l, fast) \/ mon_go(l, fast)
  \/ mon_step(l, fast) \/ mon_print(l, fast)
-----------------------------------------------------------------------------
(* mon_poll *)
PollDue == paused \/ cyc = 0

EnterPoll ==
  /\ alive /\ at = "top"
  /\ at' = IF PollDue THEN "poll" ELSE "gate"
  /\ UNCHANGED <<net, cyc, retired, server, rb, wrote, alive>>

PollAccept ==
  /\ alive /\ at = "poll" /\ ~client /\ sock = "pending"
  /\ sock' = "open" /\ client' = TRUE /\ cmd_mode' = TRUE /\ line' = <<>>
  /\ wrote' = FALSE /\ at' = "gate"
  /\ UNCHANGED <<stream, nbytes, nconn, cyc, retired, paused, step_to, asked, rb, alive>>

PollNone ==
  /\ alive /\ at = "poll" /\ rb = <<>>
  /\ \/ ~client /\ sock # "pending"
     \/ client /\ sock = "open" /\ stream = <<>>
  /\ at' = "gate"
  /\ UNCHANGED <<net, cyc, retired, server, rb, wrote, alive>>

PollRead(k) ==
  /\ alive /\ at = "poll" /\ client /\ rb = <<>> /\ k \in 1..Len(stream)
  /\ rb' = SubSeq(stream, 1, k) /\ stream' = SubSeq(stream, k + 1, Len(stream))
  /\ UNCHANGED <<sock, nbytes, nconn, loop, server, wrote, alive>>

\* keeping the freeze of the client that left
PollEof_stuck ==
  /\ alive /\ at = "poll" /\ client /\ rb = <<>> /\ stream = <<>> /\ sock = "closed"
  /\ client' = FALSE /\ step_to' = 0 /\ asked' = Order("run", 0)
  /\ sock' = "none" /\ at' = "gate"
  /\ UNCHANGED <<stream, nbytes, nconn, cyc, retired, cmd_mode, paused, line, rb, wrote, alive>>

\* read returns 0
PollEof ==
  /\ alive /\ at = "poll" /\ client /\ rb = <<>> /\ stream = <<>> /\ sock = "closed"
  /\ client' = FALSE /\ paused' = FALSE /\ step_to' = 0
  /\ asked' = Order("run", 0)
  /\ sock' = "none" /\ at' = "gate"
  /\ UNCHANGED <<stream, nbytes, nconn, cyc, retired, cmd_mode, line, rb, wrote, alive>>

\* the error of a reset is taken for EWOULDBLOCK; the next read returns 0
PollReset ==
  /\ alive /\ at = "poll" /\ client /\ rb = <<>> /\ sock = "reset"
  /\ sock' = "closed" /\ at' = "gate"
  /\ UNCHANGED <<stream, nbytes, nconn, cyc, retired, server, rb, wrote, alive>>

Room_full(l) == Len(l) <= LineMax

\* room for one more character and the final NUL
Room(l) == Len(l) < LineMax

PollByte(fast) ==
  /\ alive /\ at = "poll" /\ rb # <<>>
  /\ rb' = Tail(rb)
  /\ at' = IF Tail(rb) = <<>> THEN "gate" ELSE "poll"
  /\ LET c == Head(rb)
     IN  \/ /\ c = "^]"
            /\ cmd_mode' = ~cmd_mode /\ mon_send(1, fast)
            /\ UNCHANGED <<paused, step_to, asked, line>>
         \/ /\ c # "^]" /\ ~cmd_mode
            /\ UNCHANGED <<cmd_mode, paused, step_to, asked, line, wrote, alive>>
         \/ /\ c = "cr" /\ cmd_mode
            /\ line' = <<>> /\ mon_cmd(line, fast)
         \/ /\ c = "bs" /\ cmd_mode
            /\ line' = IF line = <<>> THEN line ELSE SubSeq(line, 1, Len(line) - 1)
            /\ mon_send(IF line = <<>> THEN 0 ELSE 1, fast)
            /\ UNCHANGED <<cmd_mode, paused, step_to, asked>>
         \/ /\ c \notin {"^]", "cr", "bs"} /\ cmd_mode
            /\ line' = IF Room(line) THEN Append(line, c) ELSE line
            /\ mon_send(IF Room(line) THEN 1 ELSE 0, fast)
            /\ UNCHANGED <<cmd_mode, paused, step_to, asked>>
  /\ UNCHANGED <<net, cyc, retired, client>>
-----------------------------------------------------------------------------
(* The main loop: frozen while paused, else one cycle *)
Freeze_deaf ==
  /\ alive /\ at = "gate" /\ paused
  /\ UNCHANGED vars

Freeze ==
  /\ alive /\ at = "gate" /\ paused
  /\ at' = "poll"
  /\ UNCHANGED <<net, cyc, retired, server, rb, wrote, alive>>

StepDone_late(r) == step_to # 0 /\ r > step_to

StepDone(r) == step_to # 0 /\ r >= step_to

\* r: the instructions that retire, of which only that of slot 0 is counted; out: the guest
\* prints a character
Tick(r, out, fast) ==
  /\ alive /\ at = "gate" /\ ~paused
  /\ retired' = IF r > 0 THEN retired + 1 ELSE retired
  /\ asked' = IF step_to = 0 THEN asked ELSE [asked EXCEPT !.ran = @ + r]
  /\ cyc' = (cyc + 1) % PollEvery
  /\ at' = IF retired' >= MaxIcnt THEN "exit" ELSE "top"
  /\ paused' = StepDone(retired')
  /\ step_to' = IF StepDone(retired') THEN 0 ELSE step_to
  /\ mon_send((IF out /\ ~cmd_mode THEN 1 ELSE 0) + (IF StepDone(retired') THEN 1 ELSE 0), fast)
  /\ UNCHANGED <<net, client, cmd_mode, line, rb>>

Ended == (~alive \/ at = "exit") /\ UNCHANGED vars

Server ==
  \/ EnterPoll \/ PollAccept \/ PollNone \/ PollEof \/ PollReset \/ Freeze
  \/ \E k \in 1..MaxUnread : PollRead(k)
  \/ \E fast \in BOOLEAN : PollByte(fast)
  \/ \E r \in 0..2, out, fast \in BOOLEAN : Tick(r, out, fast)

Next ==
  \/ Connect \/ Close \/ Reset
  \/ \E c \in Bytes : Send(c)
  \/ Server \/ Ended

\* the loop never stops by itself
Spec == Init /\ [][Next]_vars /\ WF_vars(Server)
-----------------------------------------------------------------------------
(* Properties *)
\* Type invariant; the line buffer keeps room for its NUL.
TypeOK ==
  /\ sock \in {"none", "pending", "open", "closed", "reset"}
  /\ stream \in Seq(Bytes) /\ rb \in Seq(Bytes)
  /\ line \in Seq(Bytes) /\ Len(line) <= LineMax
  /\ {client, cmd_mode, paused, wrote, alive} \subseteq BOOLEAN
  /\ at \in {"top", "poll", "gate", "exit"}
  /\ cyc \in 0..(PollEvery - 1) /\ retired \in Nat
  /\ step_to \in Nat /\ asked \in [cmd : {"run", "halt", "step"}, n : Nat, ran : Nat]
  /\ nbytes \in Nat /\ nconn \in Nat

\* Only a client that the server still holds can have the simulation frozen or a step
\* pending: otherwise nobody could ever release it.
HeldByClient == paused \/ step_to # 0 => client

\* step n stops the simulation after exactly n cycles in which slot 0 retired, which is
\* after n to 2n instructions: slot 1 is not counted (2289), although the comment (2663) and
\* the answer to the client (1750) speak of n instructions.  Only `step 0`, which still runs
\* a cycle, may overshoot, by that cycle's instructions.
StepExact ==
  [][ \A r \in 0..2, out, fast \in BOOLEAN : Tick(r, out, fast) /\ paused' =>
        \/ retired' = step_to /\ asked'.ran \in asked.n..2 * asked.n
        \/ asked.n = 0 /\ retired' - step_to \in {0, 1} /\ asked'.ran \in 0..2 ]_vars

\* The loop freezes the simulation by itself only when the last thing the client asked
\* for was a step: a go or a halt typed while a step is pending takes it back, and so
\* does a client that leaves.
NoSpuriousHalt == [][ at = "gate" /\ ~paused /\ paused' => asked.cmd = "step" ]_vars

\* A client that goes away, with a halt or a step in force or a command half typed,
\* never leaves the simulation frozen (unless SIGPIPE ends it).
Released == Gone ~> (~paused \/ ~alive \/ at = "exit")
=============================================================================
