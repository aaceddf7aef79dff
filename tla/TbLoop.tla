------------------------------- MODULE TbLoop -------------------------------
(***************************************************************************)
(* The main loop of henry_tb around the RTL model: the two DRAM lanes it   *)
(* serves, the SCSI servicer it carries in static variables, the watchdog, *)
(* and the checkpoint that saves the model, the memory and the disk at a   *)
(* cycle boundary and lets a later process go on from there.               *)
(*                                                                         *)
(* core is what Verilator saves: the SoC with the ports the testbench      *)
(* drives.  tb is what dies with the process.  The SoC is modelled by what *)
(* the loop relies on: a request is held until it is answered and then     *)
(* drops for a cycle, the core passes a bounded number of cycles of its    *)
(* own between two retirements, and a SCSI command moves one block per     *)
(* chain.                                                                  *)
(***************************************************************************)
EXTENDS Integers, Sequences, FiniteSets

CONSTANTS
  Addrs,         \* DRAM lines
  HaltA,         \* the line of the magic halt store
  LatMax,        \* MEM_LAT_MAX; MEM_LAT_MIN is 1
  Limit,         \* NO_RETIRE_LIMIT
  Blocks,        \* disk blocks 0..n
  Budgets,       \* what guest and core do: [lanes, slack, pre, post, lens, restores] the lanes
                 \* in use, the cycles the core may pass between two retirements in which
                 \* lane 0 owes it nothing, the SCSI commands before and after the save,
                 \* their lengths in blocks, and how often the checkpoint is restored
  MaxReq         \* bound: requests of a lane

Lanes == 0..1
Bad   == -1      \* an address past the DRAM
LoadA == CHOOSE a \in Addrs : TRUE

ASSUME TbLoopAssumption ==
  /\ LatMax \in Nat \ {0} /\ Limit \in Nat
  /\ Addrs \subseteq Nat /\ HaltA \notin Addrs \cup {Bad}
  /\ Blocks \subseteq Nat /\ \A x, y \in Blocks : x..y \subseteq Blocks
  /\ \A b \in Budgets : b.slack \in Nat /\ b.lens \subseteq Nat

VARIABLES
  core, mem, disk,
  tb,
  snap,      \* the files of the checkpoint; <<>> before there is one
  phase,     \* "run", "saved", "halted", "wedged"
  restores, budget

vars == <<core, mem, disk, tb, snap, phase, restores, budget>>
-----------------------------------------------------------------------------
(* Requests *)
NoReq == [v |-> FALSE, op |-> "ld", a |-> Bad, d |-> 0]

\* lane 1 also moves 64-byte bursts, lane 0 may make the halt store; the lanes store
\* different values
Requests(l) ==
  [v : {TRUE}, op : {"ld"} \cup (IF l = 1 THEN {"bld"} ELSE {}), a : {LoadA}, d : {0}]
    \cup [v : {TRUE}, op : {"st"}, a : Addrs \cup {Bad} \cup (IF l = 0 THEN {HaltA} ELSE {}), d : {l + 1}]
    \cup (IF l = 1 THEN [v : {TRUE}, op : {"bst"}, a : {LoadA}, d : {l + 1}] ELSE {})

IsBurst(r) == r.op \in {"bld", "bst"}
IsStore(r) == r.op \in {"st", "bst"}
Covers(r)  == IF r.a = Bad THEN {} ELSE IF IsBurst(r) THEN Addrs ELSE {r.a} \cap Addrs

Write(m, r) == [a \in Addrs |-> IF IsStore(r) /\ a \in Covers(r) THEN r.d ELSE m[a]]

\* stores take twice the drawn latency
Cost_long(r, lat) == (IF IsStore(r) THEN 2 * lat ELSE lat) + (IF IsStore(r) THEN 3 ELSE 0)

Cost(r, lat) == (IF IsStore(r) THEN 2 * lat ELSE lat) + (IF IsBurst(r) THEN 3 ELSE 0)

NoScsi == [st |-> "idle", seq |-> 0, rd |-> TRUE, lba |-> 0, n |-> 0, k |-> 0, posted |-> FALSE]

\* the statics of a new process
FreshTb ==
  [prev |-> [l \in Lanes |-> FALSE], reply |-> [l \in Lanes |-> -1], req |-> [l \in Lanes |-> NoReq],
   idle |-> -1, armed |-> FALSE,
   last |-> 0, active |-> FALSE, wait |-> FALSE, wseq |-> 0, todev |-> FALSE, lba |-> 0,
   pos |-> 0, total |-> 0, buf |-> <<>>, cqc |-> 0]

Init ==
  /\ core = [lane |-> [l \in Lanes |-> NoReq], rsp |-> [l \in Lanes |-> FALSE], made |-> [l \in Lanes |-> 0],
             slack |-> 0, view |-> [a \in Addrs |-> 0], gdisk |-> [b \in Blocks |-> 0],
             scsi |-> NoScsi, cmds |-> 0, cq |-> <<>>, ans |-> [seq |-> 0, more |-> FALSE],
             stg |-> [seq |-> 0, blk |-> <<>>], wr |-> 0, own |-> TRUE]
  /\ mem = [a \in Addrs |-> 0] /\ disk = [b \in Blocks |-> 0]
  /\ tb = FreshTb /\ snap = <<>> /\ phase = "run" /\ restores = 0 /\ budget \in Budgets
-----------------------------------------------------------------------------
(* The posedge: what the SoC may do, one result each *)

\* an answered request drops; a lane without one may raise the next
LaneEdge(c, l) ==
  IF c.rsp[l] THEN {NoReq} ELSE IF c.lane[l].v THEN {c.lane[l]}
  ELSE {NoReq} \cup (IF l \in budget.lanes /\ c.made[l] < MaxReq THEN Requests(l) ELSE {})

View(c) == LET v0 == IF c.rsp[0] THEN Write(c.view, c.lane[0]) ELSE c.view
           IN  IF c.rsp[1] THEN Write(v0, c.lane[1]) ELSE v0

Quota == IF snap = <<>> THEN budget.pre ELSE budget.pre + budget.post

\* the guest selects, the chain moves its block and posts an entry, the answer arrives
Selected(c, rd, n, b) ==
  [c EXCEPT !.scsi = [st |-> "busy", seq |-> c.scsi.seq + 1, rd |-> rd, lba |-> b, n |-> n, k |-> 0,
                      posted |-> FALSE], !.cmds = @ + 1]

Select(c) ==
  {Selected(c, rd, n, b) : rd \in BOOLEAN, n \in budget.lens,
                           b \in {x \in Blocks : \A y \in budget.lens : y = 0 \/ x + y - 1 \in Blocks}}

Chain(c) ==
  LET s == c.scsi
      d == [c EXCEPT !.scsi.posted = TRUE, !.cq = Append(@, s.seq)]
  IN  IF ~s.rd THEN [d EXCEPT !.wr = s.seq]
      ELSE [d EXCEPT !.own = @ /\ s.k < s.n /\ Head(c.stg.blk) = c.gdisk[s.lba + s.k]]

Answer(c) ==
  LET s == c.scsi
      d == [c EXCEPT !.gdisk = IF s.rd \/ s.n = 0 THEN @ ELSE [@ EXCEPT ![s.lba + s.k] = s.seq],
                     !.scsi.k = IF s.n = 0 THEN 0 ELSE @ + 1, !.scsi.posted = FALSE]
  IN  IF c.ans.more THEN [d EXCEPT !.scsi.seq = @ + 1] ELSE [d EXCEPT !.scsi.st = "idle"]

ScsiEdge(c) ==
  LET s == c.scsi
  IN  {c} \cup (IF s.st = "idle" /\ c.cmds < Quota THEN Select(c) ELSE {})
          \cup (IF s.st = "busy" /\ ~s.posted /\ s.n > 0 /\ (~s.rd \/ c.stg.seq = s.seq)
                THEN {Chain(c)} ELSE {})
          \cup (IF s.st = "busy" /\ c.ans.seq = s.seq THEN {Answer(c)} ELSE {})

\* The core retires or not: it need not while it waits for lane 0, nor before it has used up
\* the cycles of its own, and every request it makes in between costs one of those.  Without
\* any, it is a core that stalls on each request.
Owed(c) == c.lane[0].v /\ ~c.rsp[0]

Retire(c) ==
  {r \in BOOLEAN : IF r THEN ~Owed(c) \/ budget.slack > 0 ELSE Owed(c) \/ c.slack < budget.slack}

Spent(c, retire_valid) == IF retire_valid THEN 0 ELSE IF Owed(c) THEN c.slack ELSE c.slack + 1

Edged(c, x, r0, r1, retire_valid) ==
  [x EXCEPT !.view = View(c), !.rsp = [l \in Lanes |-> FALSE], !.slack = Spent(c, retire_valid),
            !.lane = [l \in Lanes |-> IF l = 0 THEN r0 ELSE r1],
            !.made = [l \in Lanes |-> IF (IF l = 0 THEN r0 ELSE r1).v /\ ~c.lane[l].v THEN @[l] + 1 ELSE @[l]]]

Posedge(c, retire_valid) ==
  {Edged(c, x, r0, r1, retire_valid) : x \in ScsiEdge(c), r0 \in LaneEdge(c, 0), r1 \in LaneEdge(c, 1)}

\* the no-retire watchdog; -1 until the first cycle of a process has been counted
Wedged(idle) == idle > Limit
-----------------------------------------------------------------------------
(* The SCSI servicer: t is tb, c the core, d the disk *)
ServState(t, c, d) == [t |-> t, c |-> c, d |-> d]

\* a doorbell: a new command is decoded and its data read, unless one is in mid-transfer
Doorbell(s) ==
  LET q      == s.c.scsi
      resume == s.t.active /\ s.t.pos < s.t.total
      t1 == IF resume THEN s.t
            ELSE [s.t EXCEPT !.buf = [j \in 1..q.n |-> s.d[q.lba + j - 1]], !.todev = ~q.rd, !.lba = q.lba,
                             !.total = q.n, !.pos = 0, !.active = q.n > 0]
  IN  IF q.seq = s.t.last THEN s
      ELSE IF ~t1.active
      THEN ServState([t1 EXCEPT !.last = q.seq], [s.c EXCEPT !.ans = [seq |-> q.seq, more |-> FALSE]], s.d)
      ELSE ServState([t1 EXCEPT !.last = q.seq, !.wait = TRUE, !.wseq = q.seq],
                     IF t1.todev THEN s.c
                     ELSE [s.c EXCEPT !.stg = [seq |-> q.seq, blk |-> SubSeq(t1.buf, t1.pos + 1, t1.total)]],
                     s.d)

\* the completion ring is read from the cursor up to the entry waited for
Found(s) == {j \in s.t.cqc + 1..Len(s.c.cq) : s.c.cq[j] = s.t.wseq}

Poll(s) ==
  LET t   == s.t
      pos == t.pos + 1
  IN  IF ~t.wait THEN s
      ELSE IF Found(s) = {} THEN ServState([t EXCEPT !.cqc = Len(s.c.cq)], s.c, s.d)
      ELSE ServState([t EXCEPT !.cqc = CHOOSE j \in Found(s) : \A i \in Found(s) : j <= i,
                               !.wait = FALSE, !.pos = pos, !.active = pos < t.total],
                     [s.c EXCEPT !.ans = [seq |-> t.last, more |-> pos < t.total]],
                     IF t.todev THEN [s.d EXCEPT ![t.lba + t.pos] = s.c.wr] ELSE s.d)

scsi_quiescent(t) == ~t.active /\ ~t.wait

\* the save waits for a quiescent servicer and idle lanes
Arm(t) == /\ snap = <<>> /\ scsi_quiescent(t)
          /\ \A l \in Lanes : t.reply[l] = -1 /\ ~t.prev[l]
-----------------------------------------------------------------------------
(* A DRAM lane in one cycle: a request is taken on the rising edge of its valid, its
   effect and its answer come together when its latency is over. *)
Accepts(t, c, l) == c.lane[l].v /\ ~t.prev[l] /\ t.reply[l] = -1

Lane(m, l, lat) ==
  LET t == [m.t EXCEPT
              !.req[l]   = IF Accepts(m.t, m.c, l) THEN m.c.lane[l] ELSE @,
              !.reply[l] = IF Accepts(m.t, m.c, l) THEN Cost(m.c.lane[l], lat)
                           ELSE IF @ > 0 THEN @ - 1 ELSE @,
              !.prev[l]  = m.c.lane[l].v]
      r == t.req[l]
  IN  IF t.reply[l] # 0 THEN [m EXCEPT !.t = t]
      ELSE [t |-> [t EXCEPT !.reply[l] = -1, !.req[l] = NoReq],
            c |-> [m.c EXCEPT !.rsp[l] = TRUE],
            g_mem |-> Write(m.g_mem, r),
            halted |-> m.halted \/ (l = 0 /\ IsStore(r) /\ r.a = HaltA /\ r.d # 0)]

\* the second lane keeps the same contract with latches of its own
Lane1(m, lat) == Lane(m, 1, lat)

\* only an accepted request draws one
Latency(c, l) == IF Accepts(tb, c, l) THEN 1..LatMax ELSE {1}

\* A cycle: the posedge, the watchdog's count, the servicer, the arming of a save that is
\* due, lane 0, lane 1.  The ring is not polled in every cycle.
Cycle ==
  /\ phase = "run" /\ ~tb.armed
  /\ \E retire_valid \in Retire(core) :
     \E c1 \in Posedge(core, retire_valid), idle \in {IF retire_valid THEN 0 ELSE tb.idle + 1} :
     \E s1 \in {Doorbell(ServState([tb EXCEPT !.idle = idle], c1, disk))} :
     \E s2 \in {s1, Poll(s1)} :
     \E t2 \in {[s2.t EXCEPT !.armed = x] : x \in {FALSE, Arm(s2.t)}} :
     \E l0 \in Latency(s2.c, 0), l1 \in Latency(s2.c, 1) :
     \E m1 \in {Lane([t |-> t2, c |-> s2.c, g_mem |-> mem, halted |-> FALSE], 0, l0)} :
     \E m2 \in {Lane1(m1, l1)} :
       /\ core' = m2.c /\ tb' = m2.t /\ mem' = m2.g_mem /\ disk' = s2.d
       /\ phase' = IF Wedged(idle) THEN "wedged" ELSE IF m2.halted THEN "halted" ELSE "run"
  /\ UNCHANGED <<snap, restores, budget>>

\* at the top of the next cycle; the process ends
Save ==
  /\ phase = "run" /\ tb.armed
  /\ snap' = [core |-> core, mem |-> mem, disk |-> disk]
  /\ phase' = "saved"
  /\ UNCHANGED <<core, mem, disk, tb, restores, budget>>

RestoreWith(t, m, d) ==
  /\ snap # <<>> /\ restores < budget.restores
  /\ core' = snap.core /\ mem' = m /\ disk' = d /\ tb' = t
  /\ phase' = "run" /\ restores' = restores + 1
  /\ UNCHANGED <<snap, budget>>

\* leaving out one part each: the disk copy, the memory, the watchdog's base, and taking
\* the held valid for an old one
Restore_future == RestoreWith(FreshTb, snap.mem, disk)
Restore_nomem  == RestoreWith(FreshTb, [a \in Addrs |-> 0], snap.disk)
Restore_clock  == RestoreWith([FreshTb EXCEPT !.idle = Limit], snap.mem, snap.disk)
Restore_prev   == RestoreWith([FreshTb EXCEPT !.prev = [l \in Lanes |-> snap.core.lane[l].v]],
                              snap.mem, snap.disk)

\* a new process, the one before it finished or killed: the disk is rewound, the model and
\* the memory are read back, everything else starts afresh
Restore == RestoreWith(FreshTb, snap.mem, snap.disk)

Ended == phase # "run" /\ UNCHANGED vars

Next == Cycle \/ Save \/ Restore \/ Ended

\* the loop goes on by itself; a restart is the user's choice
Spec == Init /\ [][Next]_vars /\ WF_vars(Cycle \/ Save)
-----------------------------------------------------------------------------
(* Properties *)

\* Lanes, latencies and the watchdog's count stay in their ranges.
TypeOK ==
  /\ phase \in {"run", "saved", "halted", "wedged"} /\ tb.idle \in -1..Limit + 1
  /\ \A l \in Lanes : tb.reply[l] \in -1..(2 * LatMax + 3 * l) /\ core.lane[l] \in {NoReq} \cup Requests(l)
  /\ mem \in [Addrs -> 0..2] /\ DOMAIN disk = Blocks

\* DRAM holds what the SoC has been told it holds: no store is lost, repeated over a later
\* one or made visible before its answer, across a save and its restores (3044-3244).
MemFaithful ==
  phase = "run" => \A a \in Addrs :
    (\A l \in Lanes : core.rsp[l] => a \notin Covers(core.lane[l])) => mem[a] = core.view[a]

\* While no command is in flight the disk image holds what the guest has been told it wrote,
\* and a read returned it: a restore rewinds the image with the model (ckpt_copy), and the
\* servicer restarts from scratch, which is "safe" (2967-2968).
DiskMatches ==
  /\ core.own
  /\ phase = "run" /\ core.scsi.st = "idle" => disk = core.gdisk

\* the process was not restored, or from a checkpoint whose last command moved no data
Undisturbed == restores = 0 \/ snap.core.scsi.n = 0

\* The image follows the guest over any number of saves and restores, with commands before and
\* after each, unless the process was restored from a checkpoint whose last command moved data:
\* then the fresh g_last_scsi_req_seq takes that command up again (2858, 2870), and a doorbell
\* that meets it unfinished is a RESUME of it, whatever the guest asked for.
DiskFollows == Undisturbed => DiskMatches

\* The watchdog does not call a core wedged that goes on retiring, however DRAM latency and the
\* core's own pauses add up: an eviction and the refill behind it come without a retirement
\* between them, and a restore starts the count anew in the middle of that (2114, 2325).
NoFalseWedge == phase # "wedged"

\* A request is answered as long as the loop runs, also one that was held over a save.
Answered ==
  \A l \in Lanes : core.lane[l].v ~> ~core.lane[l].v \/ phase # "run"
=============================================================================
