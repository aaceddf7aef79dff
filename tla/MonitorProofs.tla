--------------------------- MODULE MonitorProofs ----------------------------
(***************************************************************************)
(* Who may hold the simulation and where a step ends, for every set of     *)
(* bytes, line length, poll interval and bound.  HeldByClient is inductive *)
(* only with Handling, which says that the bytes of a poll are handled     *)
(* while their sender is still there; the two action properties need that  *)
(* a pending step is the client's last order and still lies ahead.         *)
(***************************************************************************)
EXTENDS Monitor, TLAPS

\* bytes are only handled for a client that is connected
Handling == rb # <<>> => client

\* a pending step is what the client asked for last, and its count is not yet reached,
\* except by step 0, which starts at its own end
Pending ==
  step_to # 0 => /\ asked.cmd = "step" /\ asked.n \in Nat /\ asked.ran \in Nat
                 /\ DOMAIN asked = {"cmd", "n", "ran"}
                 /\ retired < step_to \/ (asked.n = 0 /\ retired = step_to)
                 /\ retired + asked.n - step_to <= asked.ran
                 /\ asked.ran <= 2 * (retired + asked.n - step_to)

Types == client \in BOOLEAN /\ paused \in BOOLEAN /\ step_to \in Nat /\ retired \in Nat

Held == Types /\ HeldByClient /\ Handling /\ Pending

LEMMA HeldInit == Init => Held
<1> SUFFICES ASSUME Init PROVE Held
  OBVIOUS
<1>1. /\ client = FALSE /\ paused = FALSE /\ rb = <<>>
      /\ step_to = 0 /\ retired = 0
  BY DEF Init
<1>2. Types
  BY <1>1 DEF Types
<1> QED BY <1>1, <1>2 DEF Held, HeldByClient, Handling, Pending

LEMMA StepCountType == \A l : StepCount(l) \in Nat
<1>1. \A c : Digit(c) \in {0, 2, -1}
  BY DEF Digit
<1> QED BY <1>1 DEF StepCount

\* a command leaves at most one of the two orders
LEMMA CmdStep ==
  ASSUME NEW l, NEW fast, Types, Pending, mon_cmd(l, fast), retired' = retired
  PROVE  paused' \in BOOLEAN /\ step_to' \in Nat /\ Pending'
<1>1. CASE mon_console(l, fast) \/ mon_print(l, fast)
  <2>1. paused' = paused /\ step_to' = step_to /\ asked' = asked
    BY <1>1 DEF mon_console, mon_print
  <2> QED BY <2>1 DEF Types, Pending
<1>2. CASE mon_halt(l, fast) \/ mon_go(l, fast)
  <2>1. paused' \in BOOLEAN /\ step_to' = 0
    BY <1>2 DEF mon_halt, mon_go
  <2> QED BY <2>1 DEF Pending
<1>3. CASE mon_step(l, fast)
  <2>1. /\ paused' = FALSE /\ step_to' = retired + StepCount(l)
        /\ asked'.cmd = "step" /\ asked'.n = StepCount(l)
        /\ asked'.ran = 0 /\ DOMAIN asked' = {"cmd", "n", "ran"}
    BY <1>3 DEF mon_step, Order
  <2>2. StepCount(l) \in Nat
    BY StepCountType
  <2>3. step_to' \in Nat
    BY <2>1, <2>2 DEF Types
  <2>4. retired' < step_to' \/ (asked'.n = 0 /\ retired' = step_to')
    BY <2>1, <2>2 DEF Types
  <2>5. /\ retired' + asked'.n - step_to' <= asked'.ran
        /\ asked'.ran <= 2 * (retired' + asked'.n - step_to')
        /\ asked'.n \in Nat /\ asked'.ran \in Nat
    BY <2>1, <2>2 DEF Types
  <2> QED BY <2>1, <2>2, <2>3, <2>4, <2>5 DEF Pending
<1> QED BY <1>1, <1>2, <1>3 DEF mon_cmd

LEMMA ByteStep ==
  ASSUME NEW fast, Held, PollByte(fast)
  PROVE  Held'
<1>1. client /\ client' = client /\ retired' = retired
  BY DEF PollByte, Held, Handling
<1>2. paused' \in BOOLEAN /\ step_to' \in Nat /\ Pending'
  <2>1. CASE mon_cmd(line, fast)
    BY <2>1, <1>1, CmdStep DEF Held
  <2>2. CASE UNCHANGED <<paused, step_to, asked>>
    BY <1>1, <2>2 DEF Held, Types, Pending
  <2> QED BY <2>1, <2>2 DEF PollByte
<1> QED BY <1>1, <1>2 DEF Held, Types, HeldByClient, Handling

LEMMA TickStep ==
  ASSUME NEW r \in 0..2, NEW o, NEW fast, Held, Tick(r, o, fast)
  PROVE  Held'
<1>1. /\ client' = client /\ rb' = rb
      /\ retired' \in Nat /\ retired' = IF r > 0 THEN retired + 1 ELSE retired
  BY DEF Tick, Held, Types
<1>2. CASE StepDone(retired')
  <2>1. paused' = TRUE /\ step_to' = 0 /\ step_to # 0
    BY <1>2 DEF Tick, StepDone
  <2> QED BY <1>1, <2>1 DEF Held, Types, HeldByClient, Handling, Pending
<1>3. CASE ~StepDone(retired')
  <2>1. paused' = FALSE /\ step_to' = step_to
    BY <1>3 DEF Tick
  <2>2. step_to # 0 => retired' < step_to
    BY <1>1, <1>3 DEF StepDone, Held, Types
  <2>3. Pending'
    <3> SUFFICES ASSUME step_to # 0 PROVE Pending'
      BY <2>1 DEF Pending
    <3>1. /\ asked'.cmd = "step" /\ asked'.n = asked.n /\ asked'.ran = asked.ran + r
          /\ DOMAIN asked' = {"cmd", "n", "ran"}
      BY DEF Tick, Held, Pending
    <3> QED BY <1>1, <2>1, <2>2, <3>1 DEF Held, Types, Pending
  <2> QED BY <1>1, <2>1, <2>3 DEF Held, Types, HeldByClient, Handling
<1> QED BY <1>2, <1>3

LEMMA HeldStep == Held /\ [Next]_vars => Held'
<1> SUFFICES ASSUME Held, [Next]_vars PROVE Held'
  OBVIOUS
<1> USE DEF Held, Types, HeldByClient, Handling, Pending
<1>1. CASE Connect \/ Close \/ Reset \/ \E c \in Bytes : Send(c)
  BY <1>1 DEF Connect, Close, Reset, Send, server, loop
<1>2. CASE EnterPoll \/ PollNone \/ PollReset \/ Freeze
  BY <1>2 DEF EnterPoll, PollNone, PollReset, Freeze, server
<1>3. CASE PollAccept
  BY <1>3 DEF PollAccept
<1>4. CASE \E k \in 1..MaxUnread : PollRead(k)
  BY <1>4 DEF PollRead, server, loop
<1>5. CASE PollEof
  BY <1>5 DEF PollEof
<1>6. CASE \E fast \in BOOLEAN : PollByte(fast)
  BY <1>6, ByteStep
<1>7. CASE \E r \in 0..2, o, fast \in BOOLEAN : Tick(r, o, fast)
  BY <1>7, TickStep
<1>8. CASE Ended \/ UNCHANGED vars
  BY <1>8 DEF Ended, vars, server, loop
<1> QED BY <1>1, <1>2, <1>3, <1>4, <1>5, <1>6, <1>7, <1>8 DEF Next, Server

\* Whatever clients do, and for every line length, poll interval and bound: the
\* simulation is frozen, or has a step pending, only for a client that the server holds.
THEOREM OnlyClientsHold == Spec => []HeldByClient
<1>1. Held => HeldByClient
  BY DEF Held
<1> QED BY <1>1, HeldInit, HeldStep, PTL DEF Spec

\* The loop freezes the simulation by itself (Tick) only when the client's last order was a
\* step: go, halt and a client that leaves have taken every older step back.
THEOREM HaltsOnlyForStep == Spec => NoSpuriousHalt
<1>1. Held /\ [Next]_vars => [at = "gate" /\ ~paused /\ paused' => asked.cmd = "step"]_vars
  <2> SUFFICES ASSUME Held, Next, at = "gate", ~paused, paused'
               PROVE  asked.cmd = "step"
    OBVIOUS
  <2>1. CASE \E r \in 0..2, o, fast \in BOOLEAN : Tick(r, o, fast)
    BY <2>1 DEF Tick, StepDone, Held, Pending
  <2>2. CASE ~\E r \in 0..2, o, fast \in BOOLEAN : Tick(r, o, fast)
    BY <2>2 DEF Next, Server, Connect, Close, Reset, Send, EnterPoll, PollNone, PollReset, Freeze,
                PollAccept, PollRead, PollEof, PollByte, Ended, vars, server
  <2> QED BY <2>1, <2>2
<1> QED BY <1>1, HeldInit, HeldStep, PTL DEF Spec, NoSpuriousHalt

\* A step of n ends after exactly n cycles in which slot 0 retired, and so after n to 2n
\* instructions; step 0 alone runs one cycle and may overshoot by its instructions.
THEOREM StepsExact == Spec => StepExact
<1>1. Held => [ \A r \in 0..2, out, fast \in BOOLEAN : Tick(r, out, fast) /\ paused' =>
                  \/ retired' = step_to /\ asked'.ran \in asked.n..2 * asked.n
                  \/ asked.n = 0 /\ retired' - step_to \in {0, 1} /\ asked'.ran \in 0..2 ]_vars
  <2> SUFFICES ASSUME Held, NEW r \in 0..2, NEW o \in BOOLEAN, NEW fast \in BOOLEAN,
                      Tick(r, o, fast), paused'
               PROVE  \/ retired' = step_to /\ asked'.ran \in asked.n..2 * asked.n
                      \/ asked.n = 0 /\ retired' - step_to \in {0, 1} /\ asked'.ran \in 0..2
    OBVIOUS
  <2>1. step_to # 0 /\ retired' >= step_to
    BY DEF Tick, StepDone
  <2>2. retired' = IF r > 0 THEN retired + 1 ELSE retired
    BY DEF Tick
  <2>3. step_to \in Nat /\ retired \in Nat /\ asked.n \in Nat /\ asked.ran \in Nat
    BY <2>1 DEF Held, Types, Pending
  <2>4. /\ retired < step_to \/ (asked.n = 0 /\ retired = step_to)
        /\ retired + asked.n - step_to <= asked.ran
        /\ asked.ran <= 2 * (retired + asked.n - step_to)
    BY <2>1 DEF Held, Pending
  <2>5. asked'.ran = asked.ran + r
    BY <2>1 DEF Tick, Held, Pending
  <2> QED BY <2>1, <2>2, <2>3, <2>4, <2>5
<1> QED BY <1>1, HeldInit, HeldStep, PTL DEF Spec, StepExact
-----------------------------------------------------------------------------
(* Type correctness *)

LEMMA TypeInit == Init => TypeOK
<1> SUFFICES ASSUME Init PROVE TypeOK
  OBVIOUS
<1> USE DEF Init
<1>1. stream \in Seq(Bytes) /\ rb \in Seq(Bytes) /\ line \in Seq(Bytes) /\ Len(line) <= LineMax
  BY MonitorAssumption
<1>2. cyc \in 0..(PollEvery - 1)
  BY MonitorAssumption
<1>3. asked \in [cmd : {"run", "halt", "step"}, n : Nat, ran : Nat]
  BY DEF Order
<1> QED BY <1>1, <1>2, <1>3 DEF TypeOK

\* a dispatched line only touches the orders of the client
LEMMA CmdTypes ==
  ASSUME TypeOK, NEW l, NEW fast \in BOOLEAN, mon_cmd(l, fast)
  PROVE  /\ {cmd_mode', paused', wrote', alive'} \subseteq BOOLEAN
         /\ step_to' \in Nat /\ asked' \in [cmd : {"run", "halt", "step"}, n : Nat, ran : Nat]
<1>1. StepCount(l) \in Nat
  BY StepCountType
<1>2. wrote' \in BOOLEAN /\ alive' \in BOOLEAN
  BY DEF mon_cmd, mon_console, mon_halt, mon_go, mon_step, mon_print, mon_send
<1>3. cmd_mode' \in BOOLEAN /\ paused' \in BOOLEAN
  BY DEF mon_cmd, mon_console, mon_halt, mon_go, mon_step, mon_print, TypeOK
<1>4. step_to' \in Nat
  BY <1>1 DEF mon_cmd, mon_console, mon_halt, mon_go, mon_step, mon_print, TypeOK
<1>5. asked' \in [cmd : {"run", "halt", "step"}, n : Nat, ran : Nat]
  BY <1>1 DEF mon_cmd, mon_console, mon_halt, mon_go, mon_step, mon_print, TypeOK, Order
<1> QED BY <1>2, <1>3, <1>4, <1>5

\* one byte; only the editing characters touch the line
LEMMA ByteTypes ==
  ASSUME TypeOK, NEW fast \in BOOLEAN, PollByte(fast)
  PROVE  TypeOK'
<1> DEFINE c == Head(rb)
<1>1. /\ rb \in Seq(Bytes) /\ rb # <<>> /\ line \in Seq(Bytes) /\ Len(line) <= LineMax
      /\ rb' = Tail(rb) /\ at' \in {"gate", "poll"}
      /\ UNCHANGED <<sock, stream, nbytes, nconn, cyc, retired, client>>
  BY DEF PollByte, TypeOK, net
<1>2. c \in Bytes /\ rb' \in Seq(Bytes)
  BY <1>1
<1>3. line' \in Seq(Bytes) /\ Len(line') <= LineMax
  <2>1. CASE line' = line
    BY <1>1, <2>1
  <2>2. CASE line' = <<>>
    BY <2>2, MonitorAssumption
  <2>3. CASE line # <<>> /\ line' = SubSeq(line, 1, Len(line) - 1)
    BY <1>1, <2>3, MonitorAssumption
  <2>4. CASE Room(line) /\ line' = Append(line, c)
    BY <1>1, <1>2, <2>4, MonitorAssumption DEF Room
  <2> QED BY <2>1, <2>2, <2>3, <2>4 DEF PollByte
<1>4. /\ {cmd_mode', paused', wrote', alive'} \subseteq BOOLEAN
      /\ step_to' \in Nat /\ asked' \in [cmd : {"run", "halt", "step"}, n : Nat, ran : Nat]
  <2>1. CASE mon_cmd(line, fast)
    BY <2>1, CmdTypes
  <2>2. CASE UNCHANGED <<paused, step_to, asked>>
    <3>1. cmd_mode' \in BOOLEAN
      BY DEF PollByte, TypeOK, mon_cmd, mon_console, mon_halt, mon_go, mon_step, mon_print
    <3>2. wrote' \in BOOLEAN /\ alive' \in BOOLEAN
      BY DEF PollByte, TypeOK, mon_cmd, mon_console, mon_halt, mon_go, mon_step, mon_print, mon_send
    <3> QED BY <2>2, <3>1, <3>2 DEF TypeOK
  <2> QED BY <2>1, <2>2 DEF PollByte
<1> QED BY <1>1, <1>2, <1>3, <1>4 DEF TypeOK

LEMMA TickTypes ==
  ASSUME TypeOK, NEW r \in 0..2, NEW o \in BOOLEAN, NEW fast \in BOOLEAN, Tick(r, o, fast)
  PROVE  TypeOK'
<1>1. cyc' \in 0..(PollEvery - 1)
  <2>1. cyc' = (cyc + 1) % PollEvery /\ cyc \in 0..(PollEvery - 1)
    BY DEF Tick, TypeOK
  <2> QED BY <2>1, MonitorAssumption
<1>2. retired' \in Nat /\ step_to' \in Nat /\ at' \in {"top", "exit"}
  BY DEF Tick, TypeOK
<1>3. paused' \in BOOLEAN /\ wrote' \in BOOLEAN /\ alive' \in BOOLEAN
  BY DEF Tick, StepDone, mon_send
<1>4. UNCHANGED <<sock, stream, nbytes, nconn, client, cmd_mode, line, rb>>
  BY DEF Tick, net
<1>5. asked' \in [cmd : {"run", "halt", "step"}, n : Nat, ran : Nat]
  <2>1. asked' = IF step_to = 0 THEN asked ELSE [asked EXCEPT !.ran = @ + r]
    BY DEF Tick
  <2>2. asked \in [cmd : {"run", "halt", "step"}, n : Nat, ran : Nat]
    BY DEF TypeOK
  <2>3. asked.ran + r \in Nat
    BY <2>2
  <2> QED BY <2>1, <2>2, <2>3, Zenon
<1> QED BY <1>1, <1>2, <1>3, <1>4, <1>5 DEF TypeOK

LEMMA TypeStep == TypeOK /\ [Next]_vars => TypeOK'
<1> SUFFICES ASSUME TypeOK, [Next]_vars PROVE TypeOK'
  OBVIOUS
<1> USE DEF TypeOK
<1>0. <<>> \in Seq(Bytes) /\ Len(<<>>) <= LineMax
  BY MonitorAssumption
<1>1. CASE Connect \/ Close \/ Reset
  <2>1. stream' \in Seq(Bytes)
    BY <1>0, <1>1 DEF Connect, Close, Reset
  <2>2. sock' \in {"none", "pending", "open", "closed", "reset"} /\ nbytes' \in Nat /\ nconn' \in Nat
    BY <1>1 DEF Connect, Close, Reset
  <2>3. UNCHANGED <<loop, server, rb, wrote, alive>>
    BY <1>1 DEF Connect, Close, Reset
  <2> QED BY <2>1, <2>2, <2>3 DEF server, loop
<1>2. CASE \E c \in Bytes : Send(c)
  BY <1>2 DEF Send, server, loop
<1>3. CASE EnterPoll \/ PollNone \/ PollReset \/ Freeze
  BY <1>3 DEF EnterPoll, PollNone, PollReset, Freeze, server, net
<1>4. CASE PollAccept
  <2>1. line' = <<>>
    BY <1>4 DEF PollAccept
  <2>2. line' \in Seq(Bytes) /\ Len(line') <= LineMax
    BY <1>0, <2>1
  <2> QED BY <1>4, <2>2 DEF PollAccept
<1>5. CASE \E k \in 1..MaxUnread : PollRead(k)
  <2>1. PICK k \in 1..MaxUnread : PollRead(k)
    BY <1>5
  <2>2. k \in 1..Len(stream) /\ stream \in Seq(Bytes)
    BY <2>1 DEF PollRead
  <2>3. rb' \in Seq(Bytes) /\ stream' \in Seq(Bytes)
    BY <2>1, <2>2 DEF PollRead
  <2> QED BY <2>1, <2>3 DEF PollRead, server, loop
<1>6. CASE PollEof
  BY <1>6 DEF PollEof, Order
<1>7. CASE \E fast \in BOOLEAN : PollByte(fast)
  BY <1>7, ByteTypes
<1>8. CASE \E r \in 0..2, o, fast \in BOOLEAN : Tick(r, o, fast)
  BY <1>8, TickTypes
<1>9. CASE Ended \/ UNCHANGED vars
  BY <1>9 DEF Ended, vars, server, loop, net
<1> QED BY <1>1, <1>2, <1>3, <1>4, <1>5, <1>6, <1>7, <1>8, <1>9 DEF Next, Server

\* Every state of the monitor is well typed, and the line buffer always keeps room for its
\* final NUL, whatever the clients send (mon_poll).
THEOREM MonitorTypes == Spec => []TypeOK
BY TypeInit, TypeStep, PTL DEF Spec
=============================================================================
