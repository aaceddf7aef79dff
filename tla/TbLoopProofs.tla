---------------------------- MODULE TbLoopProofs ----------------------------
(***************************************************************************)
(* The testbench loop for every DRAM size, latency bound, watchdog limit,  *)
(* disk and guest: memory is what the SoC was told across any number of    *)
(* restores, the watchdog never fires for DRAM latency, and the disk image *)
(* follows the guest.                                                      *)
(***************************************************************************)
EXTENDS TbLoop, WellFoundedInduction, SequenceTheorems, TLAPS

LaneReq(l) == {NoReq} \cup Requests(l)

\* the parts of the SoC's and of the testbench's record that the lanes use
CoreOk(c) ==
  /\ DOMAIN c = {"lane", "rsp", "made", "slack", "view", "gdisk", "scsi", "cmds", "cq", "ans", "stg",
                 "wr", "own"}
  /\ DOMAIN c.lane = Lanes /\ DOMAIN c.rsp = Lanes
  /\ \A l \in Lanes : c.lane[l] \in LaneReq(l)
  /\ c.view \in [Addrs -> 0..2] /\ c.slack \in Nat

TbOk(t) ==
  /\ DOMAIN t = {"prev", "reply", "req", "idle", "armed", "last", "active", "wait", "wseq",
                 "todev", "lba", "pos", "total", "buf", "cqc"}
  /\ DOMAIN t.prev = Lanes /\ DOMAIN t.reply = Lanes /\ DOMAIN t.req = Lanes
  /\ \A l \in Lanes : t.reply[l] \in -1..(2 * LatMax + 3 * l)

\* Lane l at the end of a cycle: an answered request is still held; one that was seen is
\* latched and counts down; one that was not (after a restore) waits to be seen.
LaneOk(t, c, l) ==
  /\ c.rsp[l] => c.lane[l].v /\ t.reply[l] = -1 /\ t.prev[l]
  /\ ~c.lane[l].v => t.reply[l] = -1 /\ ~t.prev[l]
  /\ c.lane[l].v /\ ~c.rsp[l] /\ t.prev[l] => t.reply[l] >= 1 /\ t.req[l] = c.lane[l]
  /\ c.lane[l].v /\ ~t.prev[l] => t.reply[l] = -1

\* the same between the posedge and the lanes
MidOk(t, c, l) ==
  /\ ~c.rsp[l]
  /\ ~c.lane[l].v \/ ~t.prev[l] => t.reply[l] = -1
  /\ c.lane[l].v /\ t.prev[l] => t.reply[l] >= 1 /\ t.req[l] = c.lane[l]

LEMMA RequestFacts ==
  ASSUME NEW l \in Lanes, NEW r \in LaneReq(l)
  PROVE  /\ r.d \in 0..2
         /\ r.v <=> r # NoReq
         /\ l = 0 => ~IsBurst(r)
         /\ l \in {0, 1}
<1>1. l \in {0, 1}
  BY DEF Lanes
<1>2. CASE r = NoReq
  BY <1>1, <1>2 DEF NoReq, IsBurst
<1>3. CASE r \in Requests(l)
  <2>1. /\ r.v = TRUE /\ r.d \in {0, l + 1}
        /\ r.op \in {"ld", "st"} \cup (IF l = 1 THEN {"bld", "bst"} ELSE {})
    <3>1. CASE r \in [v : {TRUE}, op : {"ld"} \cup (IF l = 1 THEN {"bld"} ELSE {}), a : {LoadA}, d : {0}]
      BY <3>1
    <3>2. CASE r \in [v : {TRUE}, op : {"st"}, a : Addrs \cup {Bad} \cup (IF l = 0 THEN {HaltA} ELSE {}), d : {l + 1}]
      BY <3>2
    <3>3. CASE l = 1 /\ r \in [v : {TRUE}, op : {"bst"}, a : {LoadA}, d : {l + 1}]
      BY <3>3
    <3> QED BY <1>3, <3>1, <3>2, <3>3 DEF Requests
  <2>2. r.v /\ r # NoReq
    BY <2>1 DEF NoReq
  <2> QED BY <2>1, <2>2, <1>1 DEF IsBurst
<1> QED BY <1>2, <1>3 DEF LaneReq

LEMMA CostBounds ==
  ASSUME NEW l \in Lanes, NEW r \in LaneReq(l), NEW lat \in 1..LatMax
  PROVE  Cost(r, lat) \in 1..(2 * LatMax + 3 * l)
<1>1. LatMax \in Nat
  BY TbLoopAssumption
<1>2. l \in {0, 1} /\ (l = 0 => ~IsBurst(r))
  BY RequestFacts
<1> QED BY <1>1, <1>2 DEF Cost

LEMMA WriteType ==
  ASSUME NEW m \in [Addrs -> 0..2], NEW l \in Lanes, NEW r \in LaneReq(l)
  PROVE  Write(m, r) \in [Addrs -> 0..2]
BY RequestFacts DEF Write

\* what the lanes leave alone
SameCore(c, d) ==
  /\ c.lane = d.lane /\ c.made = d.made /\ c.slack = d.slack /\ c.view = d.view /\ c.gdisk = d.gdisk /\ c.scsi = d.scsi
  /\ c.cmds = d.cmds /\ c.cq = d.cq /\ c.ans = d.ans /\ c.stg = d.stg /\ c.wr = d.wr /\ c.own = d.own

SameServ(t, u) ==
  /\ t.last = u.last /\ t.active = u.active /\ t.wait = u.wait /\ t.wseq = u.wseq /\ t.todev = u.todev
  /\ t.lba = u.lba /\ t.pos = u.pos /\ t.total = u.total /\ t.buf = u.buf /\ t.cqc = u.cqc

SameTb(t, u) == SameServ(t, u) /\ t.idle = u.idle /\ t.armed = u.armed

SameLatch(t, u, l) == t.prev[l] = u.prev[l] /\ t.reply[l] = u.reply[l] /\ t.req[l] = u.req[l]

\* A lane in one cycle: the request is seen, counts down, or is performed and answered.
LEMMA LaneStep ==
  ASSUME NEW m, NEW l \in Lanes, NEW lat \in 1..LatMax,
         DOMAIN m = {"t", "c", "g_mem", "halted"},
         CoreOk(m.c), TbOk(m.t), MidOk(m.t, m.c, l), m.g_mem \in [Addrs -> 0..2],
         NEW n, n = Lane(m, l, lat)
  PROVE  /\ DOMAIN n = {"t", "c", "g_mem", "halted"}
         /\ CoreOk(n.c) /\ TbOk(n.t) /\ LaneOk(n.t, n.c, l)
         /\ n.g_mem = IF n.c.rsp[l] THEN Write(m.g_mem, m.c.lane[l]) ELSE m.g_mem
         /\ n.g_mem \in [Addrs -> 0..2]
         /\ \A k \in Lanes \ {l} : n.c.rsp[k] = m.c.rsp[k] /\ SameLatch(n.t, m.t, k)
         /\ SameCore(n.c, m.c) /\ SameTb(n.t, m.t)
         /\ n.t.prev[l] = m.c.lane[l].v
         /\ m.t.prev[l] /\ ~n.c.rsp[l] /\ m.c.lane[l].v => n.t.reply[l] = m.t.reply[l] - 1
         /\ ~m.t.prev[l] => ~n.c.rsp[l]
<1> DEFINE acc == Accepts(m.t, m.c, l)
           cost == Cost(m.c.lane[l], lat)
           t == [m.t EXCEPT
                   !.req[l]   = IF acc THEN m.c.lane[l] ELSE @,
                   !.reply[l] = IF acc THEN cost ELSE IF @ > 0 THEN @ - 1 ELSE @,
                   !.prev[l]  = m.c.lane[l].v]
           done == [t |-> [t EXCEPT !.reply[l] = -1, !.req[l] = NoReq],
                    c |-> [m.c EXCEPT !.rsp[l] = TRUE],
                    g_mem |-> Write(m.g_mem, t.req[l]),
                    halted |-> m.halted \/ (l = 0 /\ IsStore(t.req[l]) /\ t.req[l].a = HaltA /\ t.req[l].d # 0)]
<1>1. LatMax \in Nat /\ l \in {0, 1}
  BY TbLoopAssumption DEF Lanes
<1>2. cost \in 1..(2 * LatMax + 3 * l)
  BY CostBounds DEF CoreOk
<1>3. acc <=> m.c.lane[l].v /\ ~m.t.prev[l]
  BY DEF Accepts, MidOk
<1>4. n = IF t.reply[l] # 0 THEN [m EXCEPT !.t = t] ELSE done
  BY DEF Lane
<1> HIDE DEF acc, cost
<1>5. /\ TbOk(t) /\ t.prev[l] = m.c.lane[l].v /\ SameTb(t, m.t)
      /\ \A k \in Lanes \ {l} : SameLatch(t, m.t, k)
  BY <1>1, <1>2 DEF TbOk, SameTb, SameServ, SameLatch
<1>6. /\ acc => t.reply[l] = cost /\ t.req[l] = m.c.lane[l]
      /\ ~acc => t.req[l] = m.t.req[l] /\ t.reply[l] = IF m.t.reply[l] > 0 THEN m.t.reply[l] - 1 ELSE m.t.reply[l]
  BY DEF TbOk
<1> HIDE DEF t
<1>7. m.c.lane[l].v => t.req[l] = m.c.lane[l]
  BY <1>3, <1>6 DEF MidOk
<1>8. CASE t.reply[l] # 0
  <2>1. n = [m EXCEPT !.t = t]
    BY <1>4, <1>8
  <2>2. DOMAIN n = {"t", "c", "g_mem", "halted"} /\ n.t = t /\ n.c = m.c /\ n.g_mem = m.g_mem
    BY <2>1
  <2>3. LaneOk(t, m.c, l)
    BY <1>1, <1>2, <1>3, <1>5, <1>6, <1>7, <1>8 DEF LaneOk, MidOk, TbOk
  <2>4. m.t.prev[l] /\ m.c.lane[l].v => t.reply[l] = m.t.reply[l] - 1
    BY <1>1, <1>3, <1>6 DEF MidOk, TbOk
  <2> QED BY <2>2, <2>3, <2>4, <1>5 DEF MidOk, SameCore
<1>9. CASE t.reply[l] = 0
  <2>1. m.c.lane[l].v /\ m.t.prev[l]
    BY <1>1, <1>2, <1>3, <1>6, <1>9 DEF MidOk, TbOk
  <2>2. n = done
    BY <1>4, <1>9
  <2>3. /\ DOMAIN n = {"t", "c", "g_mem", "halted"} /\ n.c = [m.c EXCEPT !.rsp[l] = TRUE]
        /\ n.t = [t EXCEPT !.reply[l] = -1, !.req[l] = NoReq] /\ n.g_mem = Write(m.g_mem, m.c.lane[l])
    BY <2>1, <2>2, <1>7
  <2>4. /\ CoreOk(n.c) /\ n.c.rsp[l] /\ SameCore(n.c, m.c)
        /\ \A k \in Lanes \ {l} : n.c.rsp[k] = m.c.rsp[k]
    BY <2>3 DEF CoreOk, SameCore
  <2>5. /\ TbOk(n.t) /\ SameTb(n.t, m.t) /\ n.t.reply[l] = -1 /\ n.t.prev[l] = t.prev[l]
        /\ \A k \in Lanes \ {l} : SameLatch(n.t, m.t, k)
    BY <2>3, <1>1, <1>5 DEF TbOk, SameTb, SameServ, SameLatch
  <2>6. n.g_mem \in [Addrs -> 0..2]
    BY <2>3, WriteType DEF CoreOk
  <2>7. LaneOk(n.t, n.c, l)
    BY <2>1, <2>4, <2>5, <1>5 DEF LaneOk, SameCore
  <2> QED BY <2>1, <2>3, <2>4, <2>5, <2>6, <2>7, <1>5
<1> QED BY <1>8, <1>9
-----------------------------------------------------------------------------
(* The lanes, the memory and the watchdog *)

LoopOk ==
  /\ CoreOk(core) /\ TbOk(tb) /\ \A l \in Lanes : LaneOk(tb, core, l)
  /\ mem \in [Addrs -> 0..2] /\ mem = View(core) /\ DOMAIN disk = Blocks
  /\ tb.armed => \A l \in Lanes : ~core.rsp[l]

\* a checkpoint is taken in a cycle without an answer, so nothing of it is in flight
SnapOk ==
  snap # <<>> =>
    /\ CoreOk(snap.core) /\ \A l \in Lanes : ~snap.core.rsp[l]
    /\ snap.mem = snap.core.view /\ DOMAIN snap.disk = Blocks /\ snap.core.slack <= budget.slack

\* The cycles that s cycles of the core's own can lead to: every second of them may raise a
\* request, the other being the one in which the request before it drops.
Most(s) == s + (s \div 2) * (2 * LatMax)

\* The watchdog's count never exceeds what the core's own cycles since the last retirement
\* account for, with what lane 0 still owes.
IdleOk ==
  /\ tb.idle \in Int /\ tb.idle >= -1 /\ core.slack <= budget.slack
  /\ Owed(core) => IF tb.prev[0] THEN tb.idle + tb.reply[0] <= Most(core.slack) + 2 * LatMax
                   ELSE tb.idle = -1
  /\ core.rsp[0] => tb.idle <= Most(core.slack) + 2 * LatMax
  /\ ~core.lane[0].v => tb.idle < Most(core.slack + 1)

PhaseOk ==
  /\ phase \in {"run", "saved", "halted", "wedged"}
  /\ phase = "run" => tb.idle <= Limit
  /\ phase = "wedged" => tb.idle > Limit
  /\ tb.idle <= Limit + 1

LoopInv == budget \in Budgets /\ LoopOk /\ SnapOk /\ IdleOk /\ PhaseOk

LEMMA MostSteps ==
  /\ \A s \in Nat : Most(s) \in Nat /\ Most(s) < Most(s + 1) /\ Most(s + 2) = Most(s) + 2 + 2 * LatMax
  /\ Most(0) = 0 /\ Most(0 + 1) = 1
<1>1. LatMax \in Nat
  BY TbLoopAssumption
<1> DEFINE L == 2 * LatMax
<1>2. L \in Nat
  BY <1>1
<1> HIDE DEF L
<1>3. ASSUME NEW s \in Nat
      PROVE  Most(s) \in Nat /\ Most(s) < Most(s + 1) /\ Most(s + 2) = Most(s) + 2 + L
  <2>1. \A a, b \in Nat : a * b \in Nat /\ (a + 1) * b = a * b + b
    OBVIOUS
  <2>2. PICK d \in Nat : d = s \div 2
    OBVIOUS
  <2>3. (s + 2) \div 2 = d + 1 /\ (s + 1) \div 2 \in {d, d + 1}
    BY <2>2
  <2>4. d * L \in Nat /\ (d + 1) * L = d * L + L
    BY <2>1, <1>2
  <2>5. /\ Most(s) = s + d * L /\ Most(s + 2) = (s + 2) + (d + 1) * L
        /\ Most(s + 1) \in {(s + 1) + d * L, (s + 1) + (d + 1) * L}
    BY <2>2, <2>3 DEF Most, L
  <2>6. PICK e \in Nat : e = d * L
    BY <2>4
  <2> QED BY <2>4, <2>5, <2>6, <1>2
<1>4. Most(0) = 0 /\ Most(0 + 1) = 1
  BY <1>1 DEF Most
<1> QED BY <1>3, <1>4 DEF L

LEMMA MostGrows ==
  ASSUME NEW s \in Nat, NEW u \in Nat, s <= u
  PROVE  Most(s) <= Most(u)
<1>1. PICK L \in Nat : L = 2 * LatMax
  BY TbLoopAssumption
<1>2. PICK d \in Nat, e \in Nat : d = s \div 2 /\ e = (u \div 2) - d
  OBVIOUS
<1>3. (d + e) * L = d * L + e * L /\ d * L \in Nat /\ e * L \in Nat
  BY <1>1, <1>2
<1>4. u \div 2 = d + e
  BY <1>2
<1>5. Most(s) = s + d * L /\ Most(u) = u + (d + e) * L
  BY <1>1, <1>2, <1>4 DEF Most
<1>6. PICK x \in Nat, y \in Nat : x = d * L /\ y = e * L
  BY <1>3
<1> QED BY <1>3, <1>5, <1>6

LEMMA ViewType ==
  ASSUME NEW c, CoreOk(c)
  PROVE  View(c) \in [Addrs -> 0..2]
<1> DEFINE v0 == IF c.rsp[0] THEN Write(c.view, c.lane[0]) ELSE c.view
<1>1. 0 \in Lanes /\ 1 \in Lanes
  BY DEF Lanes
<1>2. v0 \in [Addrs -> 0..2]
  BY <1>1, WriteType DEF CoreOk
<1>3. View(c) = IF c.rsp[1] THEN Write(v0, c.lane[1]) ELSE v0
  BY DEF View
<1> HIDE DEF v0
<1> QED BY <1>1, <1>2, <1>3, WriteType DEF CoreOk

\* A request leaves a lane only when it is answered, and one comes only to an empty lane.
LEMMA LaneEdgeTypes ==
  ASSUME NEW c, CoreOk(c), NEW l \in Lanes, NEW r \in LaneEdge(c, l)
  PROVE  /\ r \in LaneReq(l)
         /\ c.rsp[l] => r = NoReq
         /\ ~c.rsp[l] /\ c.lane[l].v => r = c.lane[l]
BY DEF LaneEdge, LaneReq, CoreOk

LEMMA SelectForm ==
  ASSUME NEW c, NEW x \in Select(c)
  PROVE  \E r \in BOOLEAN, n \in budget.lens, b \in Blocks :
           /\ \A y \in budget.lens : y = 0 \/ b + y - 1 \in Blocks
           /\ x = Selected(c, r, n, b)
<1> DEFINE B == {z \in Blocks : \A y \in budget.lens : y = 0 \/ z + y - 1 \in Blocks}
<1>1. Select(c) = {Selected(c, r, n, b) : r \in BOOLEAN, n \in budget.lens, b \in B}
  BY DEF Select
<1>2. PICK r \in BOOLEAN, n \in budget.lens, b \in B : x = Selected(c, r, n, b)
  BY <1>1
<1> QED BY <1>2

LEMMA PosedgeForm ==
  ASSUME NEW c, NEW r, NEW y \in Posedge(c, r)
  PROVE  \E x \in ScsiEdge(c), r0 \in LaneEdge(c, 0), r1 \in LaneEdge(c, 1) : y = Edged(c, x, r0, r1, r)
<1>1. Posedge(c, r) = {Edged(c, x, r0, r1, r) : x \in ScsiEdge(c), r0 \in LaneEdge(c, 0), r1 \in LaneEdge(c, 1)}
  BY DEF Posedge
<1> QED BY <1>1

LEMMA ScsiEdgeCore ==
  ASSUME NEW c, CoreOk(c), NEW x \in ScsiEdge(c)
  PROVE  CoreOk(x) /\ x.lane = c.lane /\ x.rsp = c.rsp /\ x.view = c.view /\ x.slack = c.slack
<1>1. CASE x = c
  BY <1>1
<1>2. CASE x \in Select(c)
  <2>1. PICK r, n, b : x = Selected(c, r, n, b)
    BY <1>2, SelectForm
  <2> QED BY <2>1 DEF CoreOk, Selected
<1>3. CASE x = Chain(c)
  BY <1>3 DEF Chain, CoreOk
<1>4. CASE x = Answer(c)
  BY <1>4 DEF Answer, CoreOk
<1> QED BY <1>1, <1>2, <1>3, <1>4 DEF ScsiEdge

LEMMA PosedgeCore ==
  ASSUME NEW c, CoreOk(c), NEW r, NEW y \in Posedge(c, r)
  PROVE  /\ CoreOk(y) /\ y.view = View(c) /\ y.slack = Spent(c, r)
         /\ \A l \in Lanes : ~y.rsp[l] /\ y.lane[l] \in LaneEdge(c, l)
         /\ \E x \in ScsiEdge(c) :
              /\ y.gdisk = x.gdisk /\ y.scsi = x.scsi /\ y.cmds = x.cmds /\ y.cq = x.cq
              /\ y.ans = x.ans /\ y.stg = x.stg /\ y.wr = x.wr /\ y.own = x.own
<1>1. PICK x \in ScsiEdge(c), r0 \in LaneEdge(c, 0), r1 \in LaneEdge(c, 1) :
        y = Edged(c, x, r0, r1, r)
  BY PosedgeForm
<1>2. CoreOk(x)
  BY ScsiEdgeCore
<1>3. Lanes = {0, 1}
  BY DEF Lanes
<1>4. r0 \in LaneReq(0) /\ r1 \in LaneReq(1)
  BY <1>3, LaneEdgeTypes
<1>5. View(c) \in [Addrs -> 0..2]
  BY ViewType
<1>6. /\ DOMAIN y = DOMAIN x /\ y.view = View(c) /\ y.slack = Spent(c, r) /\ y.rsp = [l \in Lanes |-> FALSE]
      /\ y.lane = [l \in Lanes |-> IF l = 0 THEN r0 ELSE r1]
      /\ y.gdisk = x.gdisk /\ y.scsi = x.scsi /\ y.cmds = x.cmds /\ y.cq = x.cq
      /\ y.ans = x.ans /\ y.stg = x.stg /\ y.wr = x.wr /\ y.own = x.own
  BY <1>1, <1>2 DEF CoreOk, Edged
<1>7. Spent(c, r) \in Nat
  BY DEF Spent, CoreOk
<1>8. CoreOk(y)
  BY <1>2, <1>3, <1>4, <1>5, <1>6, <1>7 DEF CoreOk
<1> QED BY <1>3, <1>6, <1>8

\* The servicer touches neither the lanes nor the watchdog.
ServFrame(s, u) ==
  /\ CoreOk(u.c) /\ TbOk(u.t) /\ DOMAIN u.d = DOMAIN s.d
  /\ u.t.prev = s.t.prev /\ u.t.reply = s.t.reply /\ u.t.req = s.t.req
  /\ u.t.idle = s.t.idle /\ u.t.armed = s.t.armed
  /\ u.c.lane = s.c.lane /\ u.c.rsp = s.c.rsp /\ u.c.view = s.c.view
  /\ u.c.slack = s.c.slack

LEMMA DoorbellFrame ==
  ASSUME NEW t, NEW c, NEW d, TbOk(t), CoreOk(c)
  PROVE  ServFrame(ServState(t, c, d), Doorbell(ServState(t, c, d)))
<1> DEFINE s == ServState(t, c, d)
           q == c.scsi
           t1 == IF t.active /\ t.pos < t.total THEN t
                 ELSE [t EXCEPT !.buf = [j \in 1..q.n |-> d[q.lba + j - 1]], !.todev = ~q.rd, !.lba = q.lba,
                                !.total = q.n, !.pos = 0, !.active = q.n > 0]
           c1 == IF t1.todev THEN c
                 ELSE [c EXCEPT !.stg = [seq |-> q.seq, blk |-> SubSeq(t1.buf, t1.pos + 1, t1.total)]]
           c0 == [c EXCEPT !.ans = [seq |-> q.seq, more |-> FALSE]]
<1>1. s.t = t /\ s.c = c /\ s.d = d
  BY DEF ServState
<1>2. Doorbell(s) = IF q.seq = t.last THEN s
                    ELSE IF ~t1.active THEN ServState([t1 EXCEPT !.last = q.seq], c0, d)
                    ELSE ServState([t1 EXCEPT !.last = q.seq, !.wait = TRUE, !.wseq = q.seq], c1, d)
  BY <1>1 DEF Doorbell
<1>3. /\ TbOk(t1) /\ t1.prev = t.prev /\ t1.reply = t.reply /\ t1.req = t.req
      /\ t1.idle = t.idle /\ t1.armed = t.armed
  BY DEF TbOk
<1>4. /\ CoreOk(c0) /\ c0.lane = c.lane /\ c0.rsp = c.rsp /\ c0.view = c.view /\ c0.slack = c.slack
      /\ CoreOk(c1) /\ c1.lane = c.lane /\ c1.rsp = c.rsp /\ c1.view = c.view /\ c1.slack = c.slack
  BY DEF CoreOk
<1> HIDE DEF t1, c1, c0
<1>5. CASE q.seq = t.last
  BY <1>1, <1>2, <1>5 DEF ServFrame
<1>6. CASE q.seq # t.last /\ ~t1.active
  BY <1>1, <1>2, <1>3, <1>4, <1>6 DEF ServFrame, ServState, TbOk
<1>7. CASE q.seq # t.last /\ t1.active
  <2> DEFINE t2 == [t1 EXCEPT !.last = q.seq, !.wait = TRUE, !.wseq = q.seq]
  <2>1. Doorbell(s) = ServState(t2, c1, d)
    BY <1>2, <1>7
  <2>2. /\ TbOk(t2) /\ t2.prev = t.prev /\ t2.reply = t.reply /\ t2.req = t.req
        /\ t2.idle = t.idle /\ t2.armed = t.armed
    BY <1>3 DEF TbOk
  <2> HIDE DEF t2
  <2> QED BY <2>1, <2>2, <1>1, <1>4 DEF ServFrame, ServState
<1> QED BY <1>5, <1>6, <1>7

LEMMA PollFrame ==
  ASSUME NEW s, TbOk(s.t), CoreOk(s.c)
  PROVE  ServFrame(s, Poll(s))
<1>1. CASE ~s.t.wait
  BY <1>1 DEF Poll, ServFrame
<1>2. CASE s.t.wait /\ Found(s) = {}
  BY <1>2 DEF Poll, ServFrame, ServState, TbOk
<1>3. CASE s.t.wait /\ Found(s) # {}
  <2> DEFINE j == CHOOSE i \in Found(s) : \A k \in Found(s) : i <= k
             t1 == [s.t EXCEPT !.cqc = j, !.wait = FALSE, !.pos = s.t.pos + 1, !.active = s.t.pos + 1 < s.t.total]
             c1 == [s.c EXCEPT !.ans = [seq |-> s.t.last, more |-> s.t.pos + 1 < s.t.total]]
             d1 == IF s.t.todev THEN [s.d EXCEPT ![s.t.lba + s.t.pos] = s.c.wr] ELSE s.d
  <2>1. Poll(s) = ServState(t1, c1, d1)
    BY <1>3, Zenon DEF Poll
  <2> HIDE DEF j
  <2>2. /\ TbOk(t1) /\ t1.prev = s.t.prev /\ t1.reply = s.t.reply /\ t1.req = s.t.req
        /\ t1.idle = s.t.idle /\ t1.armed = s.t.armed
    BY DEF TbOk
  <2>3. CoreOk(c1) /\ c1.lane = s.c.lane /\ c1.rsp = s.c.rsp /\ c1.view = s.c.view /\ c1.slack = s.c.slack
    BY DEF CoreOk
  <2>4. DOMAIN d1 = DOMAIN s.d
    OBVIOUS
  <2> HIDE DEF t1, c1, d1
  <2> QED BY <2>1, <2>2, <2>3, <2>4 DEF ServFrame, ServState
<1> QED BY <1>1, <1>2, <1>3

\* The steps of a cycle, one name each.
CycleSteps(r, c1, idle, s1, s2, t2, l0, l1, m1, m2) ==
  /\ phase = "run" /\ ~tb.armed
  /\ r \in Retire(core) /\ c1 \in Posedge(core, r) /\ idle = (IF r THEN 0 ELSE tb.idle + 1)
  /\ s1 = Doorbell(ServState([tb EXCEPT !.idle = idle], c1, disk)) /\ s2 \in {s1, Poll(s1)}
  /\ t2 \in {[s2.t EXCEPT !.armed = x] : x \in {FALSE, Arm(s2.t)}}
  /\ l0 \in 1..LatMax /\ l1 \in 1..LatMax
  /\ m1 = Lane([t |-> t2, c |-> s2.c, g_mem |-> mem, halted |-> FALSE], 0, l0) /\ m2 = Lane1(m1, l1)
  /\ core' = m2.c /\ tb' = m2.t /\ mem' = m2.g_mem /\ disk' = s2.d
  /\ phase' = IF Wedged(idle) THEN "wedged" ELSE IF m2.halted THEN "halted" ELSE "run"
  /\ UNCHANGED <<snap, restores, budget>>

LEMMA CycleForm ==
  ASSUME Cycle
  PROVE  \E r, c1, idle, s1, s2, t2, l0, l1, m1, m2 : CycleSteps(r, c1, idle, s1, s2, t2, l0, l1, m1, m2)
<1>1. LatMax \in Nat \ {0}
  BY TbLoopAssumption
<1>2. \A c : Latency(c, 0) \subseteq 1..LatMax /\ Latency(c, 1) \subseteq 1..LatMax
  BY <1>1 DEF Latency
<1> DEFINE Ends(idle, s2, m2) ==
             /\ core' = m2.c /\ tb' = m2.t /\ mem' = m2.g_mem /\ disk' = s2.d
             /\ phase' = IF Wedged(idle) THEN "wedged" ELSE IF m2.halted THEN "halted" ELSE "run"
           Lane0s(idle, s2, t2, l0, l1) ==
             \E m1 \in {Lane([t |-> t2, c |-> s2.c, g_mem |-> mem, halted |-> FALSE], 0, l0)} :
             \E m2 \in {Lane1(m1, l1)} : Ends(idle, s2, m2)
           Arms(idle, s2) ==
             \E t2 \in {[s2.t EXCEPT !.armed = x] : x \in {FALSE, Arm(s2.t)}} :
             \E l0 \in Latency(s2.c, 0), l1 \in Latency(s2.c, 1) : Lane0s(idle, s2, t2, l0, l1)
<1>3. PICK r \in Retire(core) :
        \E c1 \in Posedge(core, r), idle \in {IF r THEN 0 ELSE tb.idle + 1} :
        \E s1 \in {Doorbell(ServState([tb EXCEPT !.idle = idle], c1, disk))} :
        \E s2 \in {s1, Poll(s1)} : Arms(idle, s2)
  BY DEF Cycle
<1> HIDE DEF Arms
<1>9. PICK c1 \in Posedge(core, r), idle \in {IF r THEN 0 ELSE tb.idle + 1} :
        \E s1 \in {Doorbell(ServState([tb EXCEPT !.idle = idle], c1, disk))} :
        \E s2 \in {s1, Poll(s1)} : Arms(idle, s2)
  BY <1>3, Zenon
<1>4. PICK s1, s2 : /\ s1 = Doorbell(ServState([tb EXCEPT !.idle = idle], c1, disk))
                    /\ s2 \in {s1, Poll(s1)} /\ Arms(idle, s2)
  BY <1>9, Zenon
<1> HIDE DEF Lane0s
<1>5. PICK t2 \in {[s2.t EXCEPT !.armed = x] : x \in {FALSE, Arm(s2.t)}},
            l0 \in Latency(s2.c, 0), l1 \in Latency(s2.c, 1) : Lane0s(idle, s2, t2, l0, l1)
  BY <1>4, Zenon DEF Arms
<1>6. PICK m1, m2 : /\ m1 = Lane([t |-> t2, c |-> s2.c, g_mem |-> mem, halted |-> FALSE], 0, l0)
                     /\ m2 = Lane1(m1, l1) /\ Ends(idle, s2, m2)
  BY <1>5, Zenon DEF Lane0s
<1>7. phase = "run" /\ ~tb.armed /\ UNCHANGED <<snap, restores, budget>>
  BY DEF Cycle
<1>8. CycleSteps(r, c1, idle, s1, s2, t2, l0, l1, m1, m2)
  BY <1>2, <1>3, <1>4, <1>5, <1>6, <1>7, <1>9, Zenon DEF CycleSteps
<1> QED BY <1>8

\* The posedge and the servicer: the lanes are ready for their cycle.
LEMMA MidCycle ==
  ASSUME LoopOk,
         NEW r, NEW c1, NEW idle, NEW s1, NEW s2, NEW t2, NEW l0, NEW l1, NEW m1, NEW m2,
         CycleSteps(r, c1, idle, s1, s2, t2, l0, l1, m1, m2)
  PROVE  /\ CoreOk(s2.c) /\ TbOk(t2) /\ DOMAIN s2.d = Blocks
         /\ s2.c.view = mem /\ s2.c.slack = Spent(core, r) /\ t2.idle = idle
         /\ t2.prev = tb.prev /\ t2.reply = tb.reply
         /\ \A l \in Lanes : MidOk(t2, s2.c, l) /\ s2.c.lane[l] \in LaneEdge(core, l)
         /\ t2.armed => \A l \in Lanes : ~t2.prev[l]
<1> DEFINE t0 == [tb EXCEPT !.idle = idle]
           s0 == ServState(t0, c1, disk)
<1>1. /\ CoreOk(c1) /\ c1.view = mem /\ c1.slack = Spent(core, r)
      /\ \A l \in Lanes : ~c1.rsp[l] /\ c1.lane[l] \in LaneEdge(core, l)
  BY PosedgeCore DEF CycleSteps, LoopOk
<1>2. /\ TbOk(t0) /\ t0.prev = tb.prev /\ t0.reply = tb.reply /\ t0.req = tb.req
      /\ t0.idle = idle /\ ~t0.armed
  BY DEF TbOk, LoopOk, CycleSteps
<1>3. s0.t = t0 /\ s0.c = c1 /\ s0.d = disk
  BY DEF ServState
<1>4. ServFrame(s0, s1)
  BY <1>1, <1>2, DoorbellFrame DEF CycleSteps
<1> HIDE DEF t0, s0
<1>5. ServFrame(s1, s2)
  <2>1. CASE s2 = s1
    BY <2>1, <1>4 DEF ServFrame
  <2>2. CASE s2 = Poll(s1)
    BY <2>2, <1>4, PollFrame DEF ServFrame
  <2> QED BY <2>1, <2>2 DEF CycleSteps
<1>6. /\ CoreOk(s2.c) /\ TbOk(s2.t) /\ DOMAIN s2.d = DOMAIN disk
      /\ s2.t.prev = tb.prev /\ s2.t.reply = tb.reply /\ s2.t.req = tb.req /\ s2.t.idle = idle
      /\ s2.c.lane = c1.lane /\ s2.c.rsp = c1.rsp /\ s2.c.view = mem /\ s2.c.slack = Spent(core, r)
  BY <1>1, <1>2, <1>3, <1>4, <1>5 DEF ServFrame
<1>7. PICK x \in {FALSE, Arm(s2.t)} : t2 = [s2.t EXCEPT !.armed = x]
  BY DEF CycleSteps
<1>8. /\ TbOk(t2) /\ t2.prev = tb.prev /\ t2.reply = tb.reply /\ t2.req = tb.req /\ t2.idle = idle
      /\ t2.armed = x
  BY <1>6, <1>7 DEF TbOk
<1>9. x => \A l \in Lanes : ~s2.t.prev[l]
  BY <1>7 DEF Arm
<1>10. ASSUME NEW l \in Lanes
       PROVE  MidOk(t2, s2.c, l)
  <2>1. LaneOk(tb, core, l) /\ CoreOk(core)
    BY DEF LoopOk
  <2>2. /\ s2.c.lane[l] \in LaneReq(l)
        /\ core.rsp[l] => s2.c.lane[l] = NoReq
        /\ ~core.rsp[l] /\ core.lane[l].v => s2.c.lane[l] = core.lane[l]
    BY <2>1, <1>1, <1>6, LaneEdgeTypes
  <2>3. ~NoReq.v
    BY DEF NoReq
  <2> QED BY <2>1, <2>2, <2>3, <1>1, <1>6, <1>8 DEF MidOk, LaneOk
<1> QED BY <1>1, <1>6, <1>8, <1>9, <1>10 DEF LoopOk

LEMMA CycleLanes ==
  ASSUME budget \in Budgets, LoopOk, SnapOk, IdleOk, PhaseOk, Cycle
  PROVE  LoopInv'
<1>1. PICK r, c1, idle, s1, s2, t2, l0, l1, m1, m2 : CycleSteps(r, c1, idle, s1, s2, t2, l0, l1, m1, m2)
  BY CycleForm
<1> DEFINE m0 == [t |-> t2, c |-> s2.c, g_mem |-> mem, halted |-> FALSE]
<1>2. /\ CoreOk(s2.c) /\ TbOk(t2) /\ DOMAIN s2.d = Blocks
      /\ s2.c.view = mem /\ s2.c.slack = Spent(core, r) /\ t2.idle = idle
      /\ t2.prev = tb.prev /\ t2.reply = tb.reply
      /\ \A l \in Lanes : MidOk(t2, s2.c, l) /\ s2.c.lane[l] \in LaneEdge(core, l)
      /\ t2.armed => \A l \in Lanes : ~t2.prev[l]
  BY <1>1, MidCycle
<1>3. /\ DOMAIN m0 = {"t", "c", "g_mem", "halted"} /\ m0.t = t2 /\ m0.c = s2.c /\ m0.g_mem = mem
  OBVIOUS
<1>4. /\ l0 \in 1..LatMax /\ l1 \in 1..LatMax /\ m1 = Lane(m0, 0, l0) /\ m2 = Lane(m1, 1, l1)
      /\ core' = m2.c /\ tb' = m2.t /\ mem' = m2.g_mem /\ disk' = s2.d /\ snap' = snap
      /\ phase' = IF Wedged(idle) THEN "wedged" ELSE IF m2.halted THEN "halted" ELSE "run"
      /\ r \in Retire(core) /\ idle = (IF r THEN 0 ELSE tb.idle + 1) /\ budget' = budget
  BY <1>1 DEF CycleSteps, Lane1
<1> HIDE DEF m0
<1>5. Lanes = {0, 1} /\ mem \in [Addrs -> 0..2] /\ LatMax \in Nat /\ Limit \in Nat
  BY TbLoopAssumption DEF Lanes, LoopOk
<1>6. /\ DOMAIN m1 = {"t", "c", "g_mem", "halted"}
      /\ CoreOk(m1.c) /\ TbOk(m1.t) /\ LaneOk(m1.t, m1.c, 0)
      /\ m1.g_mem = IF m1.c.rsp[0] THEN Write(mem, s2.c.lane[0]) ELSE mem
      /\ m1.g_mem \in [Addrs -> 0..2]
      /\ m1.c.rsp[1] = s2.c.rsp[1] /\ SameLatch(m1.t, t2, 1)
      /\ SameCore(m1.c, s2.c) /\ SameTb(m1.t, t2)
      /\ m1.t.prev[0] = s2.c.lane[0].v
      /\ t2.prev[0] /\ ~m1.c.rsp[0] /\ s2.c.lane[0].v => m1.t.reply[0] = t2.reply[0] - 1
      /\ ~t2.prev[0] => ~m1.c.rsp[0]
  BY <1>2, <1>3, <1>4, <1>5, LaneStep, SMTT(40)
<1>7. MidOk(m1.t, m1.c, 1)
  BY <1>2, <1>5, <1>6 DEF MidOk, SameLatch, SameCore
<1>8. /\ CoreOk(m2.c) /\ TbOk(m2.t) /\ LaneOk(m2.t, m2.c, 1)
      /\ m2.g_mem = IF m2.c.rsp[1] THEN Write(m1.g_mem, m1.c.lane[1]) ELSE m1.g_mem
      /\ m2.g_mem \in [Addrs -> 0..2]
      /\ m2.c.rsp[0] = m1.c.rsp[0] /\ SameLatch(m2.t, m1.t, 0)
      /\ SameCore(m2.c, m1.c) /\ SameTb(m2.t, m1.t)
      /\ ~m1.t.prev[1] => ~m2.c.rsp[1]
  BY <1>4, <1>5, <1>6, <1>7, LaneStep
<1>9. LaneOk(m2.t, m2.c, 0)
  BY <1>6, <1>8 DEF LaneOk, SameLatch, SameCore
<1>10. m2.g_mem = View(m2.c)
  BY <1>2, <1>6, <1>8 DEF View, SameCore
<1>11. m2.t.armed => ~m2.c.rsp[0] /\ ~m2.c.rsp[1]
  BY <1>2, <1>5, <1>6, <1>8 DEF SameTb, SameLatch
<1>12. LoopOk'
  BY <1>2, <1>4, <1>5, <1>8, <1>9, <1>10, <1>11 DEF LoopOk
<1>13. m2.t.idle = idle /\ SameLatch(m2.t, m1.t, 0)
  BY <1>2, <1>6, <1>8 DEF SameTb
<1>14. IdleOk'
  <2>1. LaneOk(tb, core, 0) /\ CoreOk(core) /\ tb.reply[0] \in -1..(2 * LatMax) /\ core.slack \in Nat
    BY <1>5 DEF LoopOk, TbOk, CoreOk
  <2>2. /\ core.rsp[0] => s2.c.lane[0] = NoReq
        /\ ~core.rsp[0] /\ core.lane[0].v => s2.c.lane[0] = core.lane[0]
    BY <1>2, <1>5, <2>1, LaneEdgeTypes
  <2>3. ~NoReq.v
    BY DEF NoReq
  <2>4. m1.t.reply[0] \in -1..(2 * LatMax) /\ LaneOk(m2.t, m2.c, 0)
    BY <1>5, <1>6, <1>9 DEF TbOk
  <2>5. /\ m2.c.lane[0] = s2.c.lane[0] /\ m2.c.rsp[0] = m1.c.rsp[0] /\ m2.c.slack = Spent(core, r)
        /\ m2.t.prev[0] = s2.c.lane[0].v /\ m2.t.reply[0] = m1.t.reply[0]
    BY <1>2, <1>6, <1>8 DEF SameLatch, SameCore
  <2>6. /\ tb.idle \in Int /\ tb.idle >= -1
        /\ Owed(core) => IF tb.prev[0] THEN tb.idle + tb.reply[0] <= Most(core.slack) + 2 * LatMax
                         ELSE tb.idle = -1
        /\ core.rsp[0] => tb.idle <= Most(core.slack) + 2 * LatMax
        /\ ~core.lane[0].v => tb.idle < Most(core.slack + 1)
    BY DEF IdleOk
  <2>13. core'.slack <= budget'.slack
    <3>1. core.slack <= budget.slack /\ budget.slack \in Nat
      BY TbLoopAssumption DEF IdleOk
    <3>2. ~r => Owed(core) \/ core.slack < budget.slack
      BY <1>4 DEF Retire
    <3> QED BY <3>1, <3>2, <2>1, <2>5, <1>4 DEF Spent
  <2>7. /\ \A s \in Nat : Most(s) \in Nat /\ Most(s) < Most(s + 1)
                          /\ Most(s + 2) = Most(s) + 2 + 2 * LatMax
        /\ Most(0) = 0 /\ Most(0 + 1) = 1
    BY MostSteps
  <2>8. /\ tb'.idle = idle /\ tb'.prev[0] = s2.c.lane[0].v /\ tb'.reply[0] = m1.t.reply[0]
        /\ core'.lane[0] = s2.c.lane[0] /\ core'.rsp[0] = m1.c.rsp[0] /\ core'.slack = Spent(core, r)
    BY <1>4, <1>13, <2>5
  <2>9. core'.rsp[0] => core'.lane[0].v /\ tb'.prev[0]
    BY <1>4, <2>4 DEF LaneOk
  <2>10. CASE r
    <3>1. idle = 0 /\ core'.slack = 0
      BY <2>10, <2>8, <1>4 DEF Spent
    <3> QED BY <3>1, <2>4, <2>7, <2>8, <2>9, <1>5, <2>13, SMTT(30) DEF IdleOk, Owed
  <2>11. CASE ~r /\ Owed(core)
    <3>1. /\ ~core.rsp[0] /\ core.lane[0].v /\ idle = tb.idle + 1 /\ s2.c.lane[0] = core.lane[0]
          /\ core'.slack = core.slack
      BY <2>11, <2>2, <2>8, <1>4 DEF Owed, Spent
    <3>2. CASE tb.prev[0]
      <4>1. tb.reply[0] >= 1 /\ tb.idle + tb.reply[0] <= Most(core.slack) + 2 * LatMax
        BY <3>1, <3>2, <2>1, <2>6, <2>11 DEF LaneOk
      <4>2. ~m1.c.rsp[0] => m1.t.reply[0] = tb.reply[0] - 1
        BY <3>1, <3>2, <1>2, <1>6
      <4> QED BY <4>1, <4>2, <3>1, <2>1, <2>4, <2>6, <2>7, <2>8, <2>9, <1>5, <2>13, SMTT(30) DEF IdleOk, Owed
    <3>3. CASE ~tb.prev[0]
      <4>1. idle = 0
        BY <3>1, <3>3, <2>6, <2>11
      <4> QED BY <4>1, <3>1, <2>1, <2>4, <2>7, <2>8, <2>9, <1>5, <2>13, SMTT(30) DEF IdleOk, Owed
    <3> QED BY <3>2, <3>3
  <2>12. CASE ~r /\ ~Owed(core)
    <3>1. idle = tb.idle + 1 /\ core'.slack = core.slack + 1
      BY <2>12, <2>8, <1>4 DEF Spent
    <3>2. core.slack + 1 \in Nat /\ (core.slack + 1) + 1 = core.slack + 2
      BY <2>1
    <3>3. idle \in Int /\ idle >= 0
      BY <3>1, <2>6
    <3>4. CASE core.rsp[0]
      <4>1. ~core'.lane[0].v /\ ~core'.rsp[0]
        BY <3>4, <2>2, <2>3, <2>8, <2>9
      <4>2. idle < Most(core.slack + 2)
        BY <3>1, <3>4, <2>1, <2>6, <2>7, <1>5
      <4> QED BY <4>1, <4>2, <3>1, <3>2, <3>3, <2>8, <2>13 DEF IdleOk, Owed
    <3>5. CASE ~core.rsp[0]
      <4>1. idle <= Most(core.slack + 1)
        BY <3>1, <3>2, <3>5, <2>1, <2>6, <2>7, <2>12 DEF Owed
      <4>2. Most(core.slack + 1) \in Nat /\ Most(core.slack + 1) < Most(core.slack + 2)
        BY <3>2, <2>7
      <4>3. ~tb.prev[0]
        BY <3>5, <2>1, <2>12 DEF LaneOk, Owed
      <4>4. ~core'.rsp[0]
        BY <4>3, <2>8, <1>2, <1>6
      <4>5. core'.lane[0].v => tb'.prev[0] /\ idle + tb'.reply[0] <= Most(core'.slack) + 2 * LatMax
        BY <4>1, <4>2, <3>1, <3>3, <2>4, <2>8, <1>5
      <4>6. idle < Most(core'.slack + 1)
        BY <4>1, <4>2, <3>1, <3>2, <3>3, MostSteps
      <4> QED BY <4>4, <4>5, <4>6, <3>3, <2>8, <2>13 DEF IdleOk, Owed
    <3> QED BY <3>4, <3>5
  <2> QED BY <2>10, <2>11, <2>12
<1>15. PhaseOk'
  <2>1. phase = "run" /\ tb.idle <= Limit /\ tb.idle \in Int
    BY <1>1, <1>5 DEF PhaseOk, CycleSteps, IdleOk
  <2>2. idle \in Int /\ idle <= Limit + 1 /\ tb'.idle = idle
    BY <2>1, <1>4, <1>5, <1>13
  <2> QED BY <2>2, <1>4, <1>5 DEF PhaseOk, Wedged
<1>16. SnapOk'
  BY <1>4 DEF SnapOk
<1> QED BY <1>4, <1>12, <1>14, <1>15, <1>16 DEF LoopInv

LEMMA FreshTbOk ==
  /\ TbOk(FreshTb) /\ FreshTb.idle = -1 /\ ~FreshTb.armed
  /\ \A l \in Lanes : ~FreshTb.prev[l] /\ FreshTb.reply[l] = -1
<1>1. LatMax \in Nat /\ Lanes = {0, 1}
  BY TbLoopAssumption DEF Lanes
<1> QED BY <1>1 DEF FreshTb, TbOk

\* A process that starts with a model in which no answer is on the wires has its lanes right.
Fresh(t, c, m, d) ==
  /\ t = FreshTb /\ CoreOk(c) /\ m = c.view /\ \A l \in Lanes : ~c.rsp[l]
  /\ DOMAIN d = Blocks /\ c.slack <= budget.slack

LEMMA FreshFacts ==
  ASSUME NEW t, NEW c, NEW m, NEW d, Fresh(t, c, m, d)
  PROVE  /\ \A l \in Lanes : LaneOk(t, c, l)
         /\ m \in [Addrs -> 0..2] /\ m = View(c) /\ TbOk(t) /\ ~t.armed
         /\ t.idle = -1 /\ t.idle < Most(c.slack + 1) /\ ~t.prev[0] /\ ~c.rsp[0]
<1>1. Lanes = {0, 1}
  BY DEF Lanes
<1>2. View(c) = c.view
  BY <1>1 DEF View, Fresh
<1>3. \A l \in Lanes : LaneOk(t, c, l)
  BY FreshTbOk DEF LaneOk, Fresh
<1>4. Most(c.slack + 1) \in Nat
  BY MostSteps DEF Fresh, CoreOk
<1> QED BY <1>1, <1>2, <1>3, <1>4, FreshTbOk DEF CoreOk, Fresh

LEMMA LoopInit == Init => LoopInv
<1> SUFFICES ASSUME Init
             PROVE  LoopInv
  OBVIOUS
<1>1. Lanes = {0, 1} /\ LatMax \in Nat /\ Limit \in Nat /\ budget \in Budgets /\ budget.slack \in Nat
  BY TbLoopAssumption DEF Lanes, Init
<1>2. CoreOk(core) /\ core.slack = 0 /\ \A l \in Lanes : ~core.rsp[l]
  BY DEF Init, CoreOk, LaneReq
<1>3. mem = core.view /\ DOMAIN disk = Blocks /\ SnapOk /\ tb = FreshTb /\ phase = "run"
  BY DEF Init, SnapOk
<1>4. Fresh(tb, core, mem, disk)
  BY <1>1, <1>2, <1>3 DEF Fresh
<1>5. /\ \A l \in Lanes : LaneOk(tb, core, l)
      /\ mem \in [Addrs -> 0..2] /\ mem = View(core) /\ TbOk(tb) /\ ~tb.armed
  BY <1>4, FreshFacts
<1>6. tb.idle = -1 /\ tb.idle < Most(core.slack + 1) /\ ~tb.prev[0] /\ ~core.rsp[0]
  BY <1>4, FreshFacts
<1>7. LoopOk
  BY <1>2, <1>3, <1>5 DEF LoopOk
<1>8. IdleOk /\ PhaseOk
  BY <1>1, <1>2, <1>3, <1>6 DEF IdleOk, PhaseOk
<1> QED BY <1>1, <1>3, <1>7, <1>8 DEF LoopInv

LEMMA LoopStep == LoopInv /\ [Next]_vars => LoopInv'
<1> SUFFICES ASSUME LoopInv, [Next]_vars
             PROVE  LoopInv'
  OBVIOUS
<1>1. CASE Cycle
  BY <1>1, CycleLanes DEF LoopInv
<1>2. CASE Save
  <2>1. UNCHANGED <<core, mem, disk, tb, budget>> /\ phase' = "saved" /\ tb.armed
    BY <1>2 DEF Save
  <2>2. LoopOk' /\ IdleOk' /\ PhaseOk' /\ budget' \in Budgets
    BY <2>1 DEF LoopInv, LoopOk, IdleOk, PhaseOk
  <2>3. mem = core.view /\ core.slack <= budget.slack /\ \A l \in Lanes : ~core.rsp[l]
    BY <2>1 DEF LoopInv, LoopOk, IdleOk, View, Lanes
  <2>4. snap'.core = core /\ snap'.mem = mem /\ snap'.disk = disk
    BY <1>2 DEF Save
  <2>5. SnapOk'
    BY <2>1, <2>3, <2>4 DEF SnapOk, LoopInv, LoopOk
  <2> QED BY <2>2, <2>5 DEF LoopInv
<1>3. CASE Restore
  <2>1. /\ snap # <<>> /\ core' = snap.core /\ mem' = snap.mem /\ disk' = snap.disk /\ tb' = FreshTb
        /\ phase' = "run" /\ snap' = snap /\ budget' = budget
    BY <1>3 DEF Restore, RestoreWith
  <2>2. SnapOk /\ SnapOk' /\ budget \in Budgets
    BY <2>1 DEF LoopInv, SnapOk
  <2>3. Fresh(tb', core', mem', disk') /\ core'.slack <= budget'.slack
    BY <2>1, <2>2 DEF SnapOk, Fresh
  <2>4. Lanes = {0, 1} /\ LatMax \in Nat /\ Limit \in Nat
    BY TbLoopAssumption DEF Lanes
  <2>5. /\ \A l \in Lanes : LaneOk(tb', core', l)
        /\ mem' \in [Addrs -> 0..2] /\ mem' = View(core') /\ TbOk(tb') /\ ~tb'.armed
    BY <2>3, FreshFacts
  <2>6. tb'.idle = -1 /\ tb'.idle < Most(core'.slack + 1) /\ ~tb'.prev[0] /\ ~core'.rsp[0]
    BY <2>3, FreshFacts
  <2>7. LoopOk'
    BY <2>3, <2>5 DEF LoopOk, Fresh
  <2>8. IdleOk' /\ PhaseOk'
    BY <2>1, <2>3, <2>4, <2>6 DEF IdleOk, PhaseOk
  <2> QED BY <2>1, <2>2, <2>7, <2>8 DEF LoopInv
<1>4. CASE UNCHANGED vars
  BY <1>4 DEF vars, LoopInv, LoopOk, SnapOk, IdleOk, PhaseOk
<1> QED BY <1>1, <1>2, <1>3, <1>4 DEF Next, Ended

LEMMA LoopAlways == Spec => []LoopInv
BY LoopInit, LoopStep, PTL DEF Spec

\* Latencies, requests, memory and the watchdog's count stay in their ranges, for every DRAM,
\* latency bound and limit.
THEOREM TbLoopTypes == Spec => []TypeOK
<1>1. LoopInv => TypeOK
  <2> SUFFICES ASSUME LoopInv
               PROVE  TypeOK
    OBVIOUS
  <2>1. LatMax \in Nat /\ Limit \in Nat
    BY TbLoopAssumption
  <2>2. tb.idle \in -1..Limit + 1 /\ phase \in {"run", "saved", "halted", "wedged"}
    BY <2>1 DEF LoopInv, IdleOk, PhaseOk
  <2> QED BY <2>2 DEF LoopInv, LoopOk, CoreOk, TbOk, LaneReq, TypeOK
<1> QED BY <1>1, LoopAlways, PTL

\* DRAM holds what the SoC was told, also after a save that caught requests in flight and
\* any number of restores: the lanes of henry_tb perform and answer a request together, once.
THEOREM MemoryKept == Spec => []MemFaithful
<1>1. LoopInv => MemFaithful
  <2> SUFFICES ASSUME LoopInv, NEW a \in Addrs,
                      \A l \in Lanes : core.rsp[l] => a \notin Covers(core.lane[l])
               PROVE  mem[a] = core.view[a]
    BY DEF MemFaithful
  <2>1. mem = View(core) /\ Lanes = {0, 1}
    BY DEF LoopInv, LoopOk, Lanes
  <2>2. \A m, r : a \notin Covers(r) => Write(m, r)[a] = m[a]
    BY DEF Write
  <2> QED BY <2>1, <2>2 DEF View
<1> QED BY <1>1, LoopAlways, PTL

\* The watchdog never fires for a core that passes at most s cycles of its own between two
\* retirements, however many requests it makes of lane 0 meanwhile and however long each takes
\* (a store costs twice the drawn latency), after a restore either, if the limit is at least
\* s cycles and a worst store for the first request and for every two of them: with
\* NO_RETIRE_LIMIT 65536 and MEM_LAT_MAX 16 that is every s up to 3853.
THEOREM WatchdogSound ==
  ASSUME \A b \in Budgets : Limit >= Most(b.slack) + 2 * LatMax
  PROVE  Spec => []NoFalseWedge
<1>1. LoopInv => NoFalseWedge
  <2> SUFFICES ASSUME LoopInv, phase = "wedged"
               PROVE  FALSE
    BY DEF NoFalseWedge
  <2>1. LatMax \in Nat /\ Limit \in Nat /\ budget.slack \in Nat /\ core.slack \in Nat
    BY TbLoopAssumption DEF LoopInv, LoopOk, CoreOk
  <2>2. core.slack <= budget.slack /\ tb.idle > Limit /\ tb.idle \in Int
    BY DEF LoopInv, IdleOk, PhaseOk
  <2>3. /\ Limit >= Most(budget.slack) + 2 * LatMax /\ Most(core.slack) <= Most(budget.slack)
        /\ Most(budget.slack) \in Nat /\ Most(core.slack) \in Nat
    BY <2>1, <2>2, MostSteps, MostGrows DEF LoopInv
  <2>4. tb.idle <= Most(core.slack) + 2 * LatMax
    <3>1. CASE Owed(core) /\ tb.prev[0]
      <4>1. tb.idle + tb.reply[0] <= Most(core.slack) + 2 * LatMax
        BY <3>1 DEF LoopInv, IdleOk
      <4>2. tb.reply[0] \in Int /\ tb.reply[0] >= 1
        <5>1. 0 \in Lanes
          BY DEF Lanes
        <5> QED BY <3>1, <5>1, <2>1 DEF LoopInv, LoopOk, LaneOk, TbOk, Owed
      <4> QED BY <4>1, <4>2, <2>1, <2>2, <2>3
    <3>2. CASE Owed(core) /\ ~tb.prev[0]
      BY <3>2, <2>1, <2>3 DEF LoopInv, IdleOk
    <3>3. CASE core.rsp[0]
      BY <3>3 DEF LoopInv, IdleOk
    <3>4. CASE ~core.lane[0].v
      <4>1. tb.idle < Most(core.slack + 1)
        BY <3>4 DEF LoopInv, IdleOk
      <4>2. /\ Most(core.slack + 1) < Most((core.slack + 1) + 1) /\ core.slack + 1 \in Nat
            /\ Most(core.slack + 2) = Most(core.slack) + 2 + 2 * LatMax
        BY <2>1, MostSteps
      <4>3. (core.slack + 1) + 1 = core.slack + 2
        BY <2>1
      <4>4. Most(core.slack + 1) \in Nat
        BY <4>2, MostSteps
      <4> QED BY <4>1, <4>2, <4>3, <4>4, <2>1, <2>2, <2>3
    <3> QED BY <3>1, <3>2, <3>3, <3>4 DEF Owed
  <2> QED BY <2>1, <2>2, <2>3, <2>4
<1> QED BY <1>1, LoopAlways, PTL
-----------------------------------------------------------------------------
(* The servicer and the disk image *)

\* the types of the SCSI side, and what holds of it whatever the servicer does
CmdOk(q) ==
  /\ DOMAIN q = {"st", "seq", "rd", "lba", "n", "k", "posted"}
  /\ q.st \in {"idle", "busy"} /\ q.seq \in Nat /\ q.n \in Nat /\ q.k \in Nat /\ q.lba \in Nat
  /\ q.st = "busy" /\ q.n > 0 => q.k < q.n /\ \A j \in 0..q.n - 1 : q.lba + j \in Blocks

ScsiOk(c) ==
  /\ CmdOk(c.scsi)
  /\ c.cq \in Seq(Nat) /\ \A j \in 1..Len(c.cq) : c.cq[j] <= c.scsi.seq
  /\ c.ans.seq \in Nat /\ c.ans.seq <= c.scsi.seq
  /\ c.gdisk \in [Blocks -> Nat] /\ c.own

\* No command: the image is what the guest wrote.
Resting(t, c, d) == ~t.active /\ ~t.wait /\ d = c.gdisk

\* A command without data is answered at once.
Empty(t, c, d) == Resting(t, c, d) /\ c.ans.seq = c.scsi.seq /\ ~c.ans.more

\* what the servicer keeps of a command with data over its chains
Decoded(t, c) ==
  LET q == c.scsi
  IN  /\ t.total = q.n /\ t.lba = q.lba /\ (t.todev <=> ~q.rd)
      /\ q.rd => t.buf \in [1..q.n -> Nat] /\ \A j \in 1..q.n : t.buf[j] = c.gdisk[q.lba + j - 1]

\* It waits for the entry of block k: only the chain of that block posts it.
Waiting(t, c, d) ==
  LET q == c.scsi
  IN  /\ Decoded(t, c) /\ t.active /\ t.wait /\ t.wseq = q.seq /\ t.pos = q.k
      /\ c.ans.seq < q.seq /\ d = c.gdisk
      /\ \A j \in 1..Len(c.cq) : c.cq[j] = q.seq => q.posted
      /\ ~q.rd /\ q.posted => c.wr = q.seq
      /\ q.rd => c.stg.seq = q.seq /\ Head(c.stg.blk) = c.gdisk[q.lba + q.k]

\* It has answered for block k; the guest does not know yet.
Served(t, c, d) ==
  LET q == c.scsi
  IN  /\ Decoded(t, c) /\ ~t.wait /\ q.posted /\ t.pos = q.k + 1
      /\ (t.active <=> q.k + 1 < q.n) /\ c.ans.seq = q.seq /\ (c.ans.more <=> q.k + 1 < q.n)
      /\ d = IF q.rd THEN c.gdisk ELSE [c.gdisk EXCEPT ![q.lba + q.k] = q.seq]

\* the command in the registers, as far as the servicer has come with it
Progress(t, c, d) ==
  /\ c.scsi.st = "idle" => Resting(t, c, d)
  /\ c.scsi.st = "busy" /\ c.scsi.n = 0 => Empty(t, c, d)
  /\ c.scsi.st = "busy" /\ c.scsi.n > 0 => Waiting(t, c, d) \/ Served(t, c, d)

\* the servicer has seen the doorbell, or, restored, will take a command without data up again
Seen(t, c) ==
  t.last \in Nat /\ t.last <= c.scsi.seq /\ (t.last = c.scsi.seq \/ c.scsi.n = 0)

ServOk(t, c, d) ==
  /\ ScsiOk(c) /\ t.cqc \in Nat /\ Seen(t, c) /\ Progress(t, c, d)

DiskInv ==
  /\ budget \in Budgets /\ restores \in Nat
  /\ Undisturbed => ServOk(tb, core, disk)
  /\ snap = <<>> => restores = 0
  /\ phase = "run" /\ tb.armed => snap = <<>>
  /\ snap # <<>> /\ snap.core.scsi.n = 0 => ServOk(FreshTb, snap.core, snap.disk)

\* Between the posedge and the servicer there may be a command it has not seen, or the next
\* chain of the one it carries on.
Unseen(c) ==
  /\ c.scsi.st = "busy" /\ ~c.scsi.posted /\ c.ans.seq < c.scsi.seq
  /\ \A j \in 1..Len(c.cq) : c.cq[j] < c.scsi.seq

MidServ(t, c, d) ==
  /\ ScsiOk(c) /\ t.cqc \in Nat
  /\ \/ Seen(t, c) /\ Progress(t, c, d)
     \/ t.last # c.scsi.seq /\ Unseen(c) /\ c.scsi.k = 0 /\ Resting(t, c, d)
     \/ /\ t.last # c.scsi.seq /\ Unseen(c) /\ c.scsi.n > 0
        /\ Decoded(t, c) /\ t.active /\ t.pos = c.scsi.k /\ d = c.gdisk

LEMMA SelectServ ==
  ASSUME NEW t, NEW c, NEW d, CoreOk(c), ServOk(t, c, d), budget \in Budgets,
         c.scsi.st = "idle", NEW x \in Select(c)
  PROVE  MidServ(t, x, d)
<1>1. PICK r \in BOOLEAN, n \in budget.lens, b \in Blocks :
        /\ \A y \in budget.lens : y = 0 \/ b + y - 1 \in Blocks
        /\ x = Selected(c, r, n, b)
  BY SelectForm
<1>2. /\ n \in Nat /\ b \in Nat /\ Blocks \subseteq Nat /\ \A y, z \in Blocks : y..z \subseteq Blocks
  BY TbLoopAssumption
<1>3. n > 0 => \A j \in 0..n - 1 : b + j \in Blocks
  <2> SUFFICES ASSUME n > 0, NEW j \in 0..n - 1
               PROVE  b + j \in Blocks
    OBVIOUS
  <2>1. b + n - 1 \in Blocks
    BY <1>1, <1>2
  <2>2. b + j \in b..(b + n - 1)
    BY <1>2
  <2> QED BY <2>1, <2>2, <1>1, <1>2
<1>4. /\ x.scsi = [st |-> "busy", seq |-> c.scsi.seq + 1, rd |-> r, lba |-> b, n |-> n, k |-> 0,
                   posted |-> FALSE]
      /\ x.cq = c.cq /\ x.ans = c.ans /\ x.gdisk = c.gdisk /\ x.own = c.own
  BY <1>1 DEF Selected, CoreOk
<1>5. c.scsi.seq \in Nat /\ t.last \in Nat /\ t.last <= c.scsi.seq
  BY DEF ServOk, ScsiOk, CmdOk, Seen
<1>6. CmdOk(x.scsi)
  BY <1>2, <1>3, <1>4, <1>5 DEF CmdOk
<1>7. \A j \in 1..Len(c.cq) : c.cq[j] \in Nat
  BY DEF ServOk, ScsiOk
<1>8. ScsiOk(x) /\ Unseen(x)
  <2>1. /\ x.scsi.seq = c.scsi.seq + 1 /\ x.scsi.st = "busy" /\ ~x.scsi.posted
    BY <1>4
  <2>2. ScsiOk(c)
    BY DEF ServOk
  <2>3. \A j \in 1..Len(x.cq) : x.cq[j] <= c.scsi.seq /\ x.cq[j] < x.scsi.seq /\ x.cq[j] <= x.scsi.seq
    BY <1>4, <1>5, <1>7, <2>1, <2>2, SMTT(40) DEF ScsiOk
  <2> QED BY <2>1, <2>2, <2>3, <1>4, <1>5, <1>6, SMTT(40) DEF ScsiOk, Unseen
<1> QED BY <1>4, <1>5, <1>8 DEF ServOk, Progress, Resting, MidServ

LEMMA ChainServ ==
  ASSUME NEW t, NEW c, NEW d, CoreOk(c), ServOk(t, c, d),
         c.scsi.st = "busy", ~c.scsi.posted, c.scsi.n > 0, ~c.scsi.rd \/ c.stg.seq = c.scsi.seq
  PROVE  MidServ(t, Chain(c), d)
<1> DEFINE q == c.scsi
           x == Chain(c)
<1>1. Waiting(t, c, d)
  BY DEF ServOk, Progress, Served
<1>2. /\ x.scsi = [q EXCEPT !.posted = TRUE] /\ x.cq = Append(c.cq, q.seq)
      /\ x.ans = c.ans /\ x.gdisk = c.gdisk /\ x.stg = c.stg
      /\ q.rd => x.own = (c.own /\ q.k < q.n /\ Head(c.stg.blk) = c.gdisk[q.lba + q.k])
      /\ ~q.rd => x.own = c.own /\ x.wr = q.seq
  BY DEF Chain, CoreOk
<1> HIDE DEF x
<1>3. ScsiOk(c) /\ CmdOk(q)
  BY DEF ServOk, ScsiOk
<1>4. /\ CmdOk(x.scsi) /\ x.scsi.st = q.st /\ x.scsi.seq = q.seq /\ x.scsi.rd = q.rd /\ x.scsi.lba = q.lba
      /\ x.scsi.n = q.n /\ x.scsi.k = q.k /\ x.scsi.posted
  BY <1>2, <1>3 DEF CmdOk
<1>5. x.own
  <2>1. q.k < q.n
    BY <1>3 DEF CmdOk
  <2> QED BY <2>1, <1>1, <1>2, <1>3, Zenon DEF Waiting, ScsiOk
<1>6. x.cq \in Seq(Nat) /\ \A j \in 1..Len(x.cq) : x.cq[j] <= q.seq
  BY <1>2, <1>3 DEF ScsiOk, CmdOk
<1>7. ScsiOk(x)
  BY <1>2, <1>3, <1>4, <1>5, <1>6 DEF ScsiOk
<1>8. Waiting(t, x, d)
  BY <1>1, <1>2, <1>4 DEF Waiting, Decoded
<1>9. MidServ(t, x, d)
  BY <1>4, <1>7, <1>8 DEF MidServ, ServOk, Seen, Progress, CmdOk
<1> QED BY <1>9 DEF x

LEMMA AnswerServ ==
  ASSUME NEW t, NEW c, NEW d, CoreOk(c), ServOk(t, c, d),
         c.scsi.st = "busy", c.ans.seq = c.scsi.seq
  PROVE  MidServ(t, Answer(c), d)
<1> DEFINE q == c.scsi
           x == Answer(c)
           done == [c EXCEPT !.gdisk = IF q.rd \/ q.n = 0 THEN @ ELSE [@ EXCEPT ![q.lba + q.k] = q.seq],
                             !.scsi.k = IF q.n = 0 THEN 0 ELSE @ + 1, !.scsi.posted = FALSE]
<1>1. x = IF c.ans.more THEN [done EXCEPT !.scsi.seq = @ + 1] ELSE [done EXCEPT !.scsi.st = "idle"]
  BY DEF Answer
<1>2. ScsiOk(c) /\ CmdOk(q) /\ t.cqc \in Nat /\ Seen(t, c)
  BY DEF ServOk, ScsiOk
<1>3. /\ x.gdisk = IF q.rd \/ q.n = 0 THEN c.gdisk ELSE [c.gdisk EXCEPT ![q.lba + q.k] = q.seq]
      /\ x.cmds = c.cmds /\ x.cq = c.cq /\ x.ans = c.ans /\ x.own = c.own
      /\ DOMAIN x.scsi = DOMAIN q /\ ~x.scsi.posted
      /\ x.scsi.rd = q.rd /\ x.scsi.lba = q.lba /\ x.scsi.n = q.n
      /\ x.scsi.k = IF q.n = 0 THEN 0 ELSE q.k + 1
      /\ c.ans.more => x.scsi.seq = q.seq + 1 /\ x.scsi.st = q.st
      /\ ~c.ans.more => x.scsi.seq = q.seq /\ x.scsi.st = "idle"
  <2>1. /\ DOMAIN done = DOMAIN c
        /\ done.gdisk = IF q.rd \/ q.n = 0 THEN c.gdisk ELSE [c.gdisk EXCEPT ![q.lba + q.k] = q.seq]
        /\ done.scsi = [q EXCEPT !.k = IF q.n = 0 THEN 0 ELSE q.k + 1, !.posted = FALSE]
        /\ done.cmds = c.cmds /\ done.cq = c.cq /\ done.ans = c.ans /\ done.own = c.own
    BY DEF CoreOk
  <2> HIDE DEF done
  <2>2. /\ x.gdisk = done.gdisk /\ x.cmds = c.cmds /\ x.cq = c.cq /\ x.ans = c.ans /\ x.own = c.own
        /\ x.scsi = IF c.ans.more THEN [done.scsi EXCEPT !.seq = @ + 1] ELSE [done.scsi EXCEPT !.st = "idle"]
    BY <1>1, <2>1 DEF CoreOk
  <2> HIDE DEF x
  <2> QED BY <2>1, <2>2, <1>2 DEF CmdOk
<1> HIDE DEF x
<1>4. q.n > 0 => Served(t, c, d)
  BY <1>2 DEF ServOk, Progress, Waiting, ScsiOk, CmdOk
<1>5. x.gdisk \in [Blocks -> Nat] /\ d = x.gdisk
  BY <1>2, <1>3, <1>4, SMTT(40) DEF Served, ScsiOk, CmdOk, ServOk, Progress, Empty, Resting
<1>6. CASE q.n = 0
  <2>1. Empty(t, c, d) /\ ~c.ans.more
    BY <1>6 DEF ServOk, Progress, Empty
  <2>2. CmdOk(x.scsi) /\ x.scsi.st = "idle" /\ x.scsi.seq = q.seq
    BY <2>1, <1>2, <1>3, <1>6 DEF CmdOk
  <2>3. ScsiOk(x)
    BY <2>2, <1>2, <1>3, <1>5 DEF ScsiOk
  <2> QED BY <2>1, <2>2, <2>3, <1>2, <1>3, <1>5, <1>6 DEF MidServ, Seen, Progress, Empty, Resting, x
<1>7. CASE q.n > 0 /\ ~c.ans.more
  <2>1. ~t.active /\ ~t.wait
    BY <1>4, <1>7 DEF Served
  <2>2. CmdOk(x.scsi) /\ x.scsi.st = "idle" /\ x.scsi.seq = q.seq
    BY <1>2, <1>3, <1>7 DEF CmdOk
  <2>3. ScsiOk(x)
    BY <2>2, <1>2, <1>3, <1>5 DEF ScsiOk
  <2> QED BY <2>1, <2>2, <2>3, <1>2, <1>3, <1>5, <1>7 DEF MidServ, Seen, Progress, Resting, x
<1>8. CASE q.n > 0 /\ c.ans.more
  <2>1. q.k + 1 < q.n /\ t.active /\ t.pos = q.k + 1 /\ Decoded(t, c)
    BY <1>4, <1>8 DEF Served
  <2>2. CmdOk(x.scsi) /\ x.scsi.st = "busy" /\ x.scsi.seq = q.seq + 1 /\ x.scsi.k = q.k + 1
    BY <2>1, <1>2, <1>3, <1>8 DEF CmdOk
  <2>3. q.seq \in Nat /\ \A j \in 1..Len(c.cq) : c.cq[j] \in Nat /\ c.cq[j] <= q.seq
    BY <1>2, SMTT(40) DEF ScsiOk, CmdOk
  <2>4. ScsiOk(x) /\ Unseen(x)
    BY <2>2, <2>3, <1>2, <1>3, <1>5, SMTT(40) DEF ScsiOk, Unseen
  <2>5. Decoded(t, x)
    BY <2>1, <1>3 DEF Decoded
  <2> QED BY <2>1, <2>2, <2>4, <2>5, <1>2, <1>3, <1>5, <1>8 DEF MidServ, Seen, CmdOk, x
<1> QED BY <1>2, <1>3, <1>6, <1>7, <1>8 DEF CmdOk

\* the fields of the SoC's record that the servicer's invariants read
SameScsi(x, y) ==
  /\ y.gdisk = x.gdisk /\ y.scsi = x.scsi /\ y.cmds = x.cmds /\ y.cq = x.cq
  /\ y.ans = x.ans /\ y.stg = x.stg /\ y.wr = x.wr /\ y.own = x.own

LEMMA PosedgeServ ==
  ASSUME NEW t, NEW c, NEW d, CoreOk(c), ServOk(t, c, d), budget \in Budgets,
         NEW r, NEW y \in Posedge(c, r)
  PROVE  MidServ(t, y, d)
<1>1. PICK x \in ScsiEdge(c) : SameScsi(x, y)
  BY PosedgeCore DEF SameScsi
<1>2. MidServ(t, x, d)
  <2>1. CASE x = c
    BY <2>1 DEF ServOk, MidServ
  <2>2. CASE c.scsi.st = "idle" /\ c.cmds < Quota /\ x \in Select(c)
    BY <2>2, SelectServ
  <2>3. CASE /\ c.scsi.st = "busy" /\ ~c.scsi.posted /\ c.scsi.n > 0
             /\ ~c.scsi.rd \/ c.stg.seq = c.scsi.seq
             /\ x = Chain(c)
    BY <2>3, ChainServ
  <2>4. CASE c.scsi.st = "busy" /\ c.ans.seq = c.scsi.seq /\ x = Answer(c)
    BY <2>4, AnswerServ
  <2> QED BY <2>1, <2>2, <2>3, <2>4 DEF ScsiEdge
<1>3. MidServ(t, y, d)
  <2>1. ScsiOk(y) <=> ScsiOk(x)
    BY <1>1 DEF SameScsi, ScsiOk
  <2>2. (Unseen(y) <=> Unseen(x)) /\ (Resting(t, y, d) <=> Resting(t, x, d)) /\ (Decoded(t, y) <=> Decoded(t, x))
    BY <1>1 DEF SameScsi, Unseen, Resting, Decoded
  <2>3. Empty(t, y, d) <=> Empty(t, x, d)
    BY <1>1, <2>2 DEF SameScsi, Empty
  <2>4. Waiting(t, y, d) <=> Waiting(t, x, d)
    BY <1>1, <2>2 DEF SameScsi, Waiting
  <2>5. Served(t, y, d) <=> Served(t, x, d)
    BY <1>1, <2>2 DEF SameScsi, Served
  <2>6. Progress(t, y, d) <=> Progress(t, x, d)
    BY <1>1, <2>2, <2>3, <2>4, <2>5 DEF SameScsi, Progress
  <2> QED BY <1>1, <1>2, <2>1, <2>2, <2>6 DEF SameScsi, MidServ, Seen
<1> QED BY <1>3

\* The doorbell: a command is decoded from the image as it is now, or carried on.
LEMMA DoorbellServ ==
  ASSUME NEW t, NEW c, NEW d, TbOk(t), CoreOk(c), MidServ(t, c, d)
  PROVE  LET u == Doorbell(ServState(t, c, d))
         IN  ServOk(u.t, u.c, u.d)
<1> DEFINE s == ServState(t, c, d)
           u == Doorbell(s)
           q == c.scsi
           resume == t.active /\ t.pos < t.total
           t0 == [t EXCEPT !.buf = [j \in 1..q.n |-> d[q.lba + j - 1]], !.todev = ~q.rd, !.lba = q.lba,
                           !.total = q.n, !.pos = 0, !.active = q.n > 0]
           t1 == IF resume THEN t ELSE t0
           c1 == IF t1.todev THEN c
                 ELSE [c EXCEPT !.stg = [seq |-> q.seq, blk |-> SubSeq(t1.buf, t1.pos + 1, t1.total)]]
           c0 == [c EXCEPT !.ans = [seq |-> q.seq, more |-> FALSE]]
           t2 == [t1 EXCEPT !.last = q.seq, !.wait = TRUE, !.wseq = q.seq]
           t3 == [t1 EXCEPT !.last = q.seq]
<1>1. s.t = t /\ s.c = c /\ s.d = d
  BY DEF ServState
<1>2. u = IF q.seq = t.last THEN s ELSE IF ~t1.active THEN ServState(t3, c0, d) ELSE ServState(t2, c1, d)
  BY <1>1 DEF Doorbell
<1> HIDE DEF u
<1>3. ScsiOk(c) /\ CmdOk(q) /\ t.cqc \in Nat
  BY DEF MidServ, ScsiOk
<1>4. CASE q.seq = t.last
  <2>1. q.seq \in Nat
    BY <1>3 DEF CmdOk
  <2> QED BY <2>1, <1>1, <1>2, <1>4 DEF MidServ, ServOk, Seen, u
<1>5. CASE q.seq # t.last /\ Seen(t, c) /\ Progress(t, c, d)
  <2>1. q.n = 0 /\ Resting(t, c, d)
    BY <1>3, <1>5 DEF Seen, Progress, Empty, CmdOk
  <2>2. DOMAIN t0 = DOMAIN t /\ t0.cqc = t.cqc /\ t0.wait = t.wait /\ (t0.active <=> q.n > 0)
    BY DEF TbOk
  <2> HIDE DEF t0
  <2>3. DOMAIN t1 = DOMAIN t /\ t1.cqc \in Nat /\ ~t1.active /\ ~t1.wait
    BY <2>1, <2>2, <1>3 DEF Resting
  <2> HIDE DEF t1
  <2>4. u.t = t3 /\ u.c = c0 /\ u.d = d
    BY <2>3, <1>2, <1>5 DEF ServState
  <2>5. t3.last = q.seq /\ t3.cqc \in Nat /\ ~t3.active /\ ~t3.wait
    BY <2>3 DEF TbOk
  <2>6. /\ c0.ans.seq = q.seq /\ ~c0.ans.more /\ c0.gdisk = c.gdisk /\ c0.scsi = c.scsi
        /\ c0.cq = c.cq /\ c0.own = c.own
    BY DEF CoreOk
  <2> HIDE DEF t3, c0
  <2>7. ScsiOk(c0) /\ q.seq \in Nat
    BY <2>6, <1>3, SMTT(40) DEF ScsiOk, CmdOk
  <2> QED BY <2>1, <2>4, <2>5, <2>6, <2>7 DEF ServOk, Seen, Progress, Empty, Resting, u
<1>6. CASE q.seq # t.last /\ ~(Seen(t, c) /\ Progress(t, c, d))
  <2>1. Unseen(c) /\ d = c.gdisk
    BY <1>6 DEF MidServ, Resting
  <2>2. /\ DOMAIN t0 = DOMAIN t /\ t0.cqc = t.cqc /\ t0.wait = t.wait /\ t0.lba = q.lba /\ t0.total = q.n
        /\ t0.pos = 0 /\ (t0.todev <=> ~q.rd) /\ (t0.active <=> q.n > 0)
        /\ t0.buf = [j \in 1..q.n |-> d[q.lba + j - 1]]
    BY DEF TbOk
  <2> HIDE DEF t0
  <2>3. Decoded(t0, c)
    BY <2>1, <2>2, <1>3, SMTT(40) DEF Decoded, ScsiOk, CmdOk, Unseen
  <2>4. /\ DOMAIN t1 = DOMAIN t /\ t1.cqc \in Nat
        /\ q.n = 0 => ~t1.active /\ ~t1.wait
        /\ q.n > 0 => Decoded(t1, c) /\ t1.active /\ t1.pos = q.k
    <3>1. CASE q.k = 0 /\ Resting(t, c, d)
      BY <3>1, <2>2, <2>3, <1>3 DEF Resting, CmdOk
    <3>2. CASE q.n > 0 /\ Decoded(t, c) /\ t.active /\ t.pos = q.k
      BY <3>2, <2>1, <1>3, SMTT(40) DEF Decoded, CmdOk, Unseen
    <3> QED BY <3>1, <3>2, <1>6 DEF MidServ
  <2> HIDE DEF t1
  <2>5. CASE q.n = 0
    <3>1. u.t = t3 /\ u.c = c0 /\ u.d = d
      BY <2>4, <2>5, <1>2, <1>6 DEF ServState
    <3>2. t3.last = q.seq /\ t3.cqc \in Nat /\ ~t3.active /\ ~t3.wait
      BY <2>4, <2>5 DEF TbOk
    <3>3. /\ c0.ans.seq = q.seq /\ ~c0.ans.more /\ c0.gdisk = c.gdisk /\ c0.scsi = c.scsi
          /\ c0.cq = c.cq /\ c0.own = c.own
      BY DEF CoreOk
    <3> HIDE DEF t3, c0
    <3>4. ScsiOk(c0)
      BY <3>3, <1>3, SMTT(40) DEF ScsiOk, CmdOk
    <3> QED BY <3>1, <3>2, <3>3, <3>4, <2>1, <2>5, <1>3 DEF ServOk, Seen, CmdOk, Progress, Empty, Resting, Unseen, u
  <2>6. CASE q.n > 0
    <3>1. u.t = t2 /\ u.c = c1 /\ u.d = d
      BY <2>4, <2>6, <1>2, <1>6 DEF ServState
    <3>2. /\ t2.last = q.seq /\ t2.cqc \in Nat /\ t2.active /\ t2.wait /\ t2.wseq = q.seq
          /\ t2.pos = q.k /\ t2.total = t1.total /\ t2.lba = t1.lba /\ t2.todev = t1.todev /\ t2.buf = t1.buf
      BY <2>4, <2>6 DEF TbOk
    <3>3. /\ c1.ans = c.ans /\ c1.gdisk = c.gdisk /\ c1.scsi = c.scsi
          /\ c1.cq = c.cq /\ c1.own = c.own /\ c1.wr = c.wr
          /\ ~t1.todev => c1.stg.seq = q.seq /\ c1.stg.blk = SubSeq(t1.buf, t1.pos + 1, t1.total)
      BY DEF CoreOk
    <3> HIDE DEF t2, c1
    <3>4. ScsiOk(c1)
      BY <3>3, <1>3 DEF ScsiOk, CmdOk
    <3>5. Decoded(t2, c1) /\ (t1.todev <=> ~q.rd)
      BY <3>2, <3>3, <2>4, <2>6 DEF Decoded
    <3>6. q.rd => c1.stg.seq = q.seq /\ Head(c1.stg.blk) = c1.gdisk[q.lba + q.k]
      <4> SUFFICES ASSUME q.rd
                   PROVE  c1.stg.seq = q.seq /\ Head(c1.stg.blk) = c1.gdisk[q.lba + q.k]
        OBVIOUS
      <4>1. /\ t1.buf \in [1..q.n -> Nat] /\ \A j \in 1..q.n : t1.buf[j] = c.gdisk[q.lba + j - 1]
            /\ t1.total = q.n /\ t1.pos = q.k
        BY <2>4, <2>6 DEF Decoded
      <4>2. q.n \in Nat /\ q.k \in Nat /\ q.k < q.n /\ q.lba \in Nat
        BY <2>1, <2>6, <1>3 DEF CmdOk, Unseen
      <4>3. t1.buf \in Seq(Nat) /\ Len(t1.buf) = q.n
        BY <4>1, <4>2, SMTT(40)
      <4>6. q.k + 1 \in 1..Len(t1.buf) /\ q.n \in q.k + 1..Len(t1.buf)
        BY <4>2, <4>3
      <4>4. Head(SubSeq(t1.buf, q.k + 1, q.n)) = t1.buf[q.k + 1]
        BY <4>3, <4>6, HeadTailOfSubSeq, Zenon
      <4>5. t1.buf[q.k + 1] = c.gdisk[q.lba + q.k]
        BY <4>1, <4>2, SMTT(30)
      <4> QED BY <4>1, <4>4, <4>5, <3>3, <3>5, ZenonT(40)
    <3>7. Waiting(t2, c1, d)
      BY <3>2, <3>3, <3>5, <3>6, <2>1, <1>3 DEF Waiting, Unseen, CmdOk, ScsiOk
    <3> QED BY <3>1, <3>2, <3>3, <3>4, <3>7, <2>1, <2>6, <1>3 DEF ServOk, Seen, CmdOk, Progress, Unseen, u
  <2> QED BY <2>5, <2>6, <1>3 DEF CmdOk
<1> QED BY <1>4, <1>5, <1>6

\* A set of naturals has a least element.
LEMMA LeastNat ==
  ASSUME NEW T, T \subseteq Nat, T # {}
  PROVE  \E x \in T : \A y \in T : x <= y
<1> DEFINE R == {p \in Nat \X Nat : p[1] < p[2]}
<1>1. IsWellFoundedOn(R, Nat)
  BY NatLessThanWellFounded DEF OpToRel
<1>2. \A x, y \in Nat : y < x => <<y, x>> \in R
  <2> SUFFICES ASSUME NEW x \in Nat, NEW y \in Nat, y < x
               PROVE  <<y, x>> \in R
    BY Zenon
  <2> DEFINE q == <<y, x>>
  <2>1. q \in Nat \X Nat /\ q[1] = y /\ q[2] = x
    OBVIOUS
  <2>2. q[1] < q[2]
    BY <2>1
  <2> HIDE DEF q
  <2> QED BY <2>1, <2>2, Zenon DEF q
<1>3. \E x \in T : \A y \in T : ~(<<y, x>> \in R)
  BY <1>1, WFMin, Zenon
<1> HIDE DEF R
<1>4. PICK x \in T : \A y \in T : ~(y < x)
  BY <1>2, <1>3, Zenon
<1> QED BY <1>4

\* The entry waited for is that of block k, and a WRITE's staged block is the guest's.
LEMMA PollServ ==
  ASSUME NEW s, TbOk(s.t), CoreOk(s.c), ServOk(s.t, s.c, s.d)
  PROVE  ServOk(Poll(s).t, Poll(s).c, Poll(s).d)
<1> DEFINE t == s.t
           c == s.c
           q == s.c.scsi
           u == Poll(s)
<1>1. ScsiOk(c) /\ CmdOk(q) /\ t.cqc \in Nat /\ Seen(t, c) /\ Progress(t, c, s.d)
  BY DEF ServOk, ScsiOk
<1>2. CASE ~t.wait
  BY <1>2 DEF Poll
<1>3. CASE t.wait /\ Found(s) = {}
  <2> DEFINE v == [t EXCEPT !.cqc = Len(c.cq)]
  <2>1. u.t = v /\ u.c = c /\ u.d = s.d
    BY <1>3 DEF Poll, ServState
  <2>2. v.cqc \in Nat /\ SameServ([t EXCEPT !.cqc = v.cqc], v)
    BY <1>1 DEF TbOk, ScsiOk, SameServ
  <2>3. /\ v.last = t.last /\ v.active = t.active /\ v.wait = t.wait /\ v.wseq = t.wseq /\ v.todev = t.todev
        /\ v.lba = t.lba /\ v.pos = t.pos /\ v.total = t.total /\ v.buf = t.buf
    BY DEF TbOk
  <2> HIDE DEF v
  <2>4. Progress(v, c, s.d)
    <3>1. (Decoded(v, c) <=> Decoded(t, c)) /\ (Resting(v, c, s.d) <=> Resting(t, c, s.d))
      BY <2>3 DEF Decoded, Resting
    <3>2. Empty(v, c, s.d) <=> Empty(t, c, s.d)
      BY <3>1 DEF Empty
    <3>3. Waiting(v, c, s.d) <=> Waiting(t, c, s.d)
      BY <2>3, <3>1 DEF Waiting
    <3>4. Served(v, c, s.d) <=> Served(t, c, s.d)
      BY <2>3, <3>1 DEF Served
    <3> QED BY <1>1, <3>1, <3>2, <3>3, <3>4 DEF Progress
  <2> QED BY <2>1, <2>2, <2>3, <2>4, <1>1 DEF ServOk, Seen
<1>4. CASE t.wait /\ Found(s) # {}
  <2> DEFINE j == CHOOSE i \in Found(s) : \A k \in Found(s) : i <= k
             v == [t EXCEPT !.cqc = j, !.wait = FALSE, !.pos = t.pos + 1, !.active = t.pos + 1 < t.total]
             e == [c EXCEPT !.ans = [seq |-> t.last, more |-> t.pos + 1 < t.total]]
             b == IF t.todev THEN [s.d EXCEPT ![t.lba + t.pos] = c.wr] ELSE s.d
  <2>1. Poll(s) = ServState(v, e, b)
    BY <1>4, Zenon DEF Poll
  <2>2. u.t = v /\ u.c = e /\ u.d = b
    BY <2>1 DEF ServState
  <2>3. q.st = "busy" /\ q.n > 0 /\ Waiting(t, c, s.d) /\ t.last = q.seq
    BY <1>1, <1>4 DEF Progress, Resting, Empty, Served, CmdOk, Seen
  <2>4. Found(s) \subseteq Nat /\ Found(s) \subseteq 1..Len(c.cq) /\ \A i \in Found(s) : c.cq[i] = q.seq
    <3>1. Found(s) = {i \in t.cqc + 1..Len(c.cq) : c.cq[i] = q.seq}
      BY <2>3 DEF Found, Waiting
    <3>2. Len(c.cq) \in Nat
      BY <1>1 DEF ScsiOk
    <3> QED BY <3>1, <3>2, <1>1
  <2>5. j \in Nat /\ q.posted
    <3>1. \E i \in Found(s) : \A k \in Found(s) : i <= k
      BY <1>4, <2>4, LeastNat, Zenon
    <3>2. j \in Found(s)
      BY <3>1, Zenon
    <3> QED BY <2>3, <2>4, <3>2 DEF Waiting
  <2> HIDE DEF j
  <2>6. /\ v.cqc = j /\ ~v.wait /\ v.pos = t.pos + 1 /\ (v.active <=> t.pos + 1 < t.total)
        /\ v.last = t.last /\ v.todev = t.todev /\ v.lba = t.lba /\ v.total = t.total /\ v.buf = t.buf
    BY DEF TbOk
  <2>7. /\ e.ans.seq = t.last /\ (e.ans.more <=> t.pos + 1 < t.total) /\ e.gdisk = c.gdisk
        /\ e.scsi = c.scsi /\ e.cq = c.cq /\ e.own = c.own
    BY DEF CoreOk
  <2>8. b = IF q.rd THEN c.gdisk ELSE [c.gdisk EXCEPT ![q.lba + q.k] = q.seq]
    BY <2>3, <2>5 DEF Waiting, Decoded
  <2> HIDE DEF v, e, b
  <2>9. ScsiOk(e)
    BY <2>3, <2>7, <1>1 DEF ScsiOk, CmdOk
  <2>10. Served(v, e, b)
    BY <2>3, <2>5, <2>6, <2>7, <2>8, <1>1, SMTT(40) DEF Served, Waiting, Decoded
  <2> QED BY <2>2, <2>3, <2>5, <2>6, <2>7, <2>9, <2>10, <1>1 DEF ServOk, Seen, Progress
<1> QED BY <1>2, <1>3, <1>4

\* The watchdog, the arming and the lanes leave the servicer's part alone.
LEMMA ServCarried ==
  ASSUME NEW t, NEW c, NEW u, NEW e, NEW d, SameServ(u, t), SameScsi(c, e)
  PROVE  /\ ServOk(t, c, d) => ServOk(u, e, d)
         /\ MidServ(t, c, d) => MidServ(u, e, d)
<1>1. ScsiOk(c) => ScsiOk(e)
  BY DEF SameScsi, ScsiOk
<1>2. Unseen(c) => Unseen(e)
  BY DEF SameScsi, Unseen
<1>3. Resting(t, c, d) => Resting(u, e, d)
  BY DEF SameServ, SameScsi, Resting
<1>4. Decoded(t, c) => Decoded(u, e)
  BY DEF SameServ, SameScsi, Decoded
<1>5. Waiting(t, c, d) => Waiting(u, e, d)
  BY <1>4 DEF SameServ, SameScsi, Waiting
<1>6. Served(t, c, d) => Served(u, e, d)
  BY <1>4 DEF SameServ, SameScsi, Served
<1>7. Progress(t, c, d) => Progress(u, e, d)
  BY <1>3, <1>5, <1>6 DEF SameScsi, Progress, Empty
<1>8. /\ u.last = t.last /\ u.cqc = t.cqc /\ u.active = t.active /\ u.pos = t.pos
      /\ e.scsi = c.scsi /\ e.gdisk = c.gdisk
  BY DEF SameServ, SameScsi
<1> QED BY <1>1, <1>2, <1>3, <1>4, <1>7, <1>8 DEF ServOk, MidServ, Seen

LEMMA CycleDisk ==
  ASSUME LoopInv, Cycle
  PROVE  /\ ServOk(tb, core, disk) => ServOk(tb', core', disk')
         /\ tb'.armed => snap = <<>>
<1>1. PICK r, c1, idle, s1, s2, t2, l0, l1, m1, m2 : CycleSteps(r, c1, idle, s1, s2, t2, l0, l1, m1, m2)
  BY CycleForm
<1> DEFINE t0 == [tb EXCEPT !.idle = idle]
           m0 == [t |-> t2, c |-> s2.c, g_mem |-> mem, halted |-> FALSE]
<1>2. CoreOk(core) /\ TbOk(tb) /\ c1 \in Posedge(core, r) /\ CoreOk(c1)
  BY <1>1, PosedgeCore DEF CycleSteps, LoopInv, LoopOk
<1>4. TbOk(t0) /\ SameServ(t0, tb)
  BY <1>2 DEF TbOk, SameServ
<1> HIDE DEF t0
<1>6. s1 = Doorbell(ServState(t0, c1, disk)) /\ s2 \in {s1, Poll(s1)}
  BY <1>1 DEF CycleSteps, t0
<1>8. TbOk(s1.t) /\ CoreOk(s1.c)
  BY <1>2, <1>4, <1>6, DoorbellFrame DEF ServFrame
<1>9. TbOk(s2.t)
  BY <1>6, <1>8, PollFrame DEF ServFrame
<1>3. ASSUME ServOk(tb, core, disk)
      PROVE  ServOk(s2.t, s2.c, s2.d)
  <2>1. MidServ(tb, c1, disk)
    BY <1>2, <1>3, PosedgeServ DEF LoopInv
  <2>2. MidServ(t0, c1, disk)
    BY <2>1, <1>4, ServCarried DEF SameScsi
  <2>3. ServOk(s1.t, s1.c, s1.d)
    BY <2>2, <1>2, <1>4, <1>6, DoorbellServ
  <2> QED BY <2>3, <1>6, <1>8, PollServ
<1>10. PICK x \in {FALSE, Arm(s2.t)} : t2 = [s2.t EXCEPT !.armed = x]
  BY <1>1 DEF CycleSteps
<1>11. SameServ(t2, s2.t) /\ t2.armed = x
  BY <1>9, <1>10 DEF TbOk, SameServ
<1>12. /\ CoreOk(s2.c) /\ TbOk(t2) /\ \A l \in Lanes : MidOk(t2, s2.c, l)
  BY <1>1, MidCycle DEF LoopInv
<1>13. /\ l0 \in 1..LatMax /\ l1 \in 1..LatMax /\ m1 = Lane(m0, 0, l0) /\ m2 = Lane(m1, 1, l1)
       /\ core' = m2.c /\ tb' = m2.t /\ disk' = s2.d
  BY <1>1 DEF CycleSteps, Lane1
<1>14. DOMAIN m0 = {"t", "c", "g_mem", "halted"} /\ m0.t = t2 /\ m0.c = s2.c /\ m0.g_mem = mem
  OBVIOUS
<1> HIDE DEF m0
<1>15. Lanes = {0, 1} /\ mem \in [Addrs -> 0..2]
  BY DEF LoopInv, LoopOk, Lanes
<1>16. /\ DOMAIN m1 = {"t", "c", "g_mem", "halted"} /\ CoreOk(m1.c) /\ TbOk(m1.t)
       /\ m1.g_mem \in [Addrs -> 0..2] /\ m1.c.rsp[1] = s2.c.rsp[1] /\ SameLatch(m1.t, t2, 1)
       /\ SameCore(m1.c, s2.c) /\ SameTb(m1.t, t2)
  BY <1>12, <1>13, <1>14, <1>15, LaneStep
<1>17. MidOk(m1.t, m1.c, 1)
  BY <1>12, <1>15, <1>16 DEF MidOk, SameLatch, SameCore
<1>18. SameCore(m2.c, m1.c) /\ SameTb(m2.t, m1.t)
  BY <1>13, <1>15, <1>16, <1>17, LaneStep
<1>19. SameServ(m2.t, s2.t) /\ SameScsi(s2.c, m2.c)
  BY <1>11, <1>16, <1>18 DEF SameTb, SameServ, SameCore, SameScsi
<1>20. ServOk(tb, core, disk) => ServOk(m2.t, m2.c, s2.d)
  BY <1>3, <1>19, ServCarried
<1>21. tb'.armed => snap = <<>>
  BY <1>10, <1>11, <1>13, <1>16, <1>18 DEF Arm, SameTb
<1> QED BY <1>13, <1>20, <1>21

LEMMA DiskInit == Init => DiskInv
<1> SUFFICES ASSUME Init
             PROVE  DiskInv
  OBVIOUS
<1>1. budget \in Budgets /\ restores = 0 /\ snap = <<>> /\ tb = FreshTb
  BY DEF Init
<1>2. /\ core.scsi = NoScsi /\ core.cq = <<>> /\ core.ans.seq = 0 /\ core.own
      /\ core.gdisk = [b \in Blocks |-> 0] /\ disk = core.gdisk
  BY DEF Init
<1>3. CmdOk(NoScsi) /\ NoScsi.st = "idle" /\ NoScsi.seq = 0
  BY DEF CmdOk, NoScsi
<1>4. ScsiOk(core)
  BY <1>2, <1>3 DEF ScsiOk
<1>5. ServOk(tb, core, disk)
  BY <1>1, <1>2, <1>3, <1>4 DEF ServOk, Seen, Progress, Resting, FreshTb
<1> QED BY <1>1, <1>5 DEF DiskInv

LEMMA DiskStep == LoopInv /\ DiskInv /\ [Next]_vars => DiskInv'
<1> SUFFICES ASSUME LoopInv, DiskInv, [Next]_vars
             PROVE  DiskInv'
  OBVIOUS
<1>1. budget \in Budgets /\ restores \in Nat
  BY DEF DiskInv
<1>2. CASE Cycle
  <2>1. snap' = snap /\ restores' = restores /\ budget' = budget
    BY <1>2 DEF Cycle
  <2>2. Undisturbed' <=> Undisturbed
    BY <2>1 DEF Undisturbed
  <2> QED BY <2>1, <2>2, <1>2, CycleDisk DEF DiskInv
<1>3. CASE Save
  <2>1. /\ UNCHANGED <<core, mem, disk, tb, restores, budget>>
        /\ snap' = [core |-> core, mem |-> mem, disk |-> disk]
    BY <1>3 DEF Save
  <2>2. snap'.core = core /\ snap'.disk = disk /\ snap' # <<>>
    BY <2>1
  <2>3. snap = <<>> /\ restores = 0 /\ phase' = "saved"
    BY <1>3 DEF Save, DiskInv
  <2>4. ServOk(tb, core, disk)
    BY <2>3 DEF DiskInv, Undisturbed
  <2>5. ASSUME core.scsi.n = 0
        PROVE  ServOk(FreshTb, core, disk)
    <3>1. ScsiOk(core) /\ core.scsi.seq \in Nat /\ core.scsi.st \in {"idle", "busy"} /\ Progress(tb, core, disk)
      BY <2>4 DEF ServOk, ScsiOk, CmdOk
    <3>2. disk = core.gdisk /\ (core.scsi.st = "busy" => core.ans.seq = core.scsi.seq /\ ~core.ans.more)
      BY <3>1, <2>5 DEF Progress, Resting, Empty
    <3>3. /\ FreshTb.last = 0 /\ FreshTb.cqc = 0 /\ ~FreshTb.active /\ ~FreshTb.wait
      BY DEF FreshTb
    <3> QED BY <3>1, <3>2, <3>3, <2>5 DEF ServOk, Seen, Progress, Resting, Empty
  <2>6. snap'.core.scsi.n = 0 => ServOk(FreshTb, snap'.core, snap'.disk)
    BY <2>2, <2>5
  <2>7. ServOk(tb', core', disk')
    BY <2>1, <2>4
  <2> QED BY <2>1, <2>2, <2>3, <2>6, <2>7, <1>1 DEF DiskInv
<1>4. CASE Restore
  <2>1. /\ snap # <<>> /\ core' = snap.core /\ disk' = snap.disk /\ tb' = FreshTb /\ snap' = snap
        /\ budget' = budget /\ restores' = restores + 1
    BY <1>4 DEF Restore, RestoreWith
  <2>2. Undisturbed' => ServOk(tb', core', disk')
    BY <2>1, <1>1 DEF DiskInv, Undisturbed
  <2> QED BY <2>1, <2>2, <1>1, FreshTbOk DEF DiskInv
<1>5. CASE UNCHANGED vars
  BY <1>5 DEF vars, DiskInv, Undisturbed
<1> QED BY <1>2, <1>3, <1>4, <1>5 DEF Next, Ended

\* The image holds what the guest was told, and a read returned it, for every disk, command
\* length, number of commands on either side of the save and number of restores, as long as no
\* process is restored from a checkpoint whose last command moved data.  For those the run
\* ckpt_scsi shows that it does not.
THEOREM DiskFollowsGuest == Spec => []DiskFollows
<1>1. DiskInv => DiskFollows
  BY DEF DiskInv, ServOk, ScsiOk, Progress, Resting, DiskFollows, DiskMatches
<1> QED BY <1>1, DiskInit, DiskStep, LoopAlways, PTL DEF Spec
=============================================================================
