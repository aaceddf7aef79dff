------------------------------- MODULE EnetTx -------------------------------
(***************************************************************************)
(* Ethernet transmit, end to end: the guest driver's descriptor ring, the  *)
(* TX half of enet_shim, the kick/echo glue of henry_soc, the ENET TX      *)
(* channel of dma_engine and the ARM's consumer of the staging ring.       *)
(*                                                                         *)
(* All the RTL state moves on one clock: Clock is one cycle, a conjunction *)
(* of one step per always_ff block, so same-cycle ties (a guest store      *)
(* against a completion) and the registered done/echo pulses behave as in  *)
(* the RTL.  DRAM performs the channel's access (Mem) some cycles before   *)
(* the response pulse, so the ARM and the guest can see a store before the *)
(* channel knows it landed.  Bytes are modelled one by one with a beat of  *)
(* Lanes bytes instead of 16.                                              *)
(***************************************************************************)
EXTENDS Integers, Sequences, FiniteSets

CONSTANTS
  NDesc,      \* descriptors in the guest's circular TX ring
  NSlot,      \* staging slots (256 in the RTL)
  Lanes,      \* bytes of a beat (16)
  SlotBeats,  \* beats of a slot (128)
  NdescMax,   \* descriptor count that ends a runaway chain (255)
  CntMod,     \* modulus of the free-running indices (2^32)
  Shapes,     \* packets the guest may send: sequences of [off, len] buffers
  MaxPkt      \* bound: packets the guest queues

ASSUME TxConstants ==
  /\ NDesc \in Nat \ {0, 1} /\ NSlot \in Nat \ {0} /\ Lanes \in Nat \ {0}
  /\ SlotBeats \in Nat \ {0} /\ NdescMax \in Nat /\ MaxPkt \in Nat
  /\ CntMod \in Nat /\ CntMod > NSlot /\ CntMod % NSlot = 0
  /\ \A s \in Shapes : s \in Seq([off : 0 .. Lanes - 1, len : Nat]) /\ Len(s) \in 1 .. NDesc - 1

VARIABLES
  desc,   \* guest memory: the TX descriptors (the fields of BC) and their buffers
  g,      \* the guest driver
  sh,     \* enet_shim, TX registers
  gl,     \* henry_soc: kick edge detect and completion echo
  t,      \* dma_engine: ENET TX channel registers
  acc,    \* the access the channel presents has been performed by DRAM
  ld,     \* what that access loaded
  slot,   \* staging: TX slots
  cq,     \* staging: TX completion ring
  txprod, \* staging: tx_prod as published to the ARM
  cons,   \* ARM doorbell tx_cons
  wire,   \* history: frames the ARM wrote to the tap
  sentq   \* history: frames the guest queued

staging == <<slot, cq, txprod>>
vars == <<desc, g, sh, gl, t, acc, ld, slot, cq, txprod, cons, wire, sentq>>

Desc == 0 .. NDesc - 1
DP(d) == (d + 1) % NDesc             \* the ring's links never change
Junk == <<0, 0>>                     \* a byte of a buffer the guest has reclaimed
Inc(c) == (c + 1) % CntMod
Diff(a, b) == (a - b) % CntMod
Min2(a, b) == IF a < b THEN a ELSE b

TStates == {"T_IDLE", "T_DESC", "T_SLOT", "T_MEM", "T_PUT", "T_BCWB", "T_FLUSH",
            "T_HEAD", "T_CQ", "T_IDX", "T_NEXT"}
NoDesc == [eox |-> TRUE, eoxp |-> TRUE, etxd |-> FALSE, off |-> 0, buf |-> <<>>]

(***************************************************************************)
(* Reset                                                                   *)
(***************************************************************************)
ChanReset ==
  [state |-> "T_IDLE", pend |-> FALSE, nbdp |-> 0, eox |-> FALSE, eoxp |-> FALSE,
   bp |-> 0, cnt |-> 0, open |-> FALSE, len |-> 0, soff |-> 0, trunc |-> FALSE,
   first |-> 0, prod |-> 0, ndesc |-> 0, done |-> FALSE, crbdp |-> 0,
   hold |-> <<>>, beat |-> <<>>]

ShimReset ==
  [active |-> FALSE, irq |-> FALSE, req_seq |-> 0, done_seq |-> 0, req_nbdp |-> 0, nbdp |-> 0]

GlueReset == [seq |-> 0, kick |-> 0, echo |-> 0]

\* rule: how the driver finds the packets that were sent
GuestInit(rule) ==
  [pc |-> "idle", rule |-> rule, tail |-> 0, old |-> 0, inflight |-> <<>>, stat |-> FALSE,
   bound |-> 0]

Init ==
  /\ desc = [d \in Desc |-> NoDesc]
  /\ g \in {GuestInit(rule) : rule \in {"etxd", "crbdp"}}
  /\ sh = ShimReset /\ gl = GlueReset /\ t = ChanReset
  /\ acc = FALSE /\ ld = [desc |-> NoDesc, bytes |-> <<>>]
  /\ slot = [i \in 0 .. NSlot - 1 |-> <<>>]
  /\ cq = [i \in 0 .. NSlot - 1 |-> [len |-> 0, trunc |-> FALSE]]
  /\ txprod = 0 /\ cons = 0 /\ wire = <<>> /\ sentq = <<>>

(***************************************************************************)
(* The channel's access at DRAM                                            *)
(***************************************************************************)
\* min(16 - bp[3:0], cnt): the bytes taken from bp's line
LineTake(off, cnt) == Min2(Lanes - (off % Lanes), cnt)

\* t_req_valid: the states that present an access, with the cases that skip it
TxReq ==
  \/ t.state \in {"T_DESC", "T_MEM", "T_HEAD", "T_CQ", "T_IDX"}
  \/ t.state = "T_PUT" /\ t.soff # SlotBeats
  \/ t.state = "T_BCWB" /\ t.nbdp # t.first
  \/ t.state = "T_FLUSH" /\ t.hold # <<>> /\ t.soff # SlotBeats

\* the i-th byte of a descriptor's buffer, as guest memory holds it now
ByteAt(d, i) == IF i < Len(desc[d].buf) THEN desc[d].buf[i + 1] ELSE Junk

\* a beat stored at soff in the open packet's slot
StoreBeat(bytes) ==
  slot' = [slot EXCEPT ![t.prod % NSlot] =
             SubSeq(@, 1, Min2(Len(@), t.soff * Lanes)) \o bytes]

\* BC write-back: byte 6 only, so ETXD and never EOX/EOXP
WriteBC(d) == desc' = [desc EXCEPT ![d].etxd = TRUE]

LineBytes ==
  LET take == LineTake(desc[t.nbdp].off + t.bp, t.cnt)
  IN  [i \in 1 .. take |-> ByteAt(t.nbdp, t.bp + i - 1)]

Mem ==
  /\ TxReq /\ ~acc /\ acc' = TRUE
  /\ \/ /\ t.state = "T_DESC" /\ ld' = [ld EXCEPT !.desc = desc[t.nbdp]]
        /\ UNCHANGED <<desc, staging>>
     \/ /\ t.state = "T_MEM" /\ ld' = [ld EXCEPT !.bytes = LineBytes]
        /\ UNCHANGED <<desc, staging>>
     \/ /\ t.state = "T_PUT" /\ StoreBeat(t.beat)
        /\ UNCHANGED <<ld, desc, cq, txprod>>
     \/ /\ t.state = "T_BCWB" /\ WriteBC(t.nbdp)
        /\ UNCHANGED <<ld, staging>>
     \/ /\ t.state = "T_FLUSH" /\ StoreBeat(t.hold)
        /\ UNCHANGED <<ld, desc, cq, txprod>>
     \/ /\ t.state = "T_HEAD" /\ WriteBC(t.first)
        /\ UNCHANGED <<ld, staging>>
     \/ /\ t.state = "T_CQ"
        /\ cq' = [cq EXCEPT ![t.prod % NSlot] = [len |-> t.len, trunc |-> t.trunc]]
        /\ UNCHANGED <<ld, desc, slot, txprod>>
     \/ /\ t.state = "T_IDX" /\ txprod' = Inc(t.prod)
        /\ UNCHANGED <<ld, desc, slot, cq>>
  /\ UNCHANGED <<g, sh, gl, t, cons, wire, sentq>>

(***************************************************************************)
(* One clock: the TX channel                                               *)
(***************************************************************************)
TxGo == gl.seq # sh.req_seq          \* w_enet_tx_go: the request sequence moved

\* the defaults of the combinational block: the kick latches, done is a pulse
Hold == [t EXCEPT !.pend = @ \/ TxGo, !.done = FALSE]

ChainEnd == t.eox \/ t.ndesc = NdescMax
PacketEnd == t.eoxp \/ ChainEnd
AfterBeat(cnt) == IF cnt = 0 THEN "T_BCWB" ELSE "T_MEM"

TIdle ==
  /\ t.state = "T_IDLE"
  /\ t' = IF t.pend \/ TxGo
          THEN [Hold EXCEPT !.pend = FALSE, !.nbdp = sh.req_nbdp, !.ndesc = 0,
                            !.open = FALSE, !.hold = <<>>, !.state = "T_DESC"]
          ELSE Hold

TDesc ==
  /\ t.state = "T_DESC"
  /\ LET d == ld.desc
         cnt == Len(d.buf)
     IN  t' = [Hold EXCEPT !.bp = 0, !.cnt = cnt, !.eox = d.eox, !.eoxp = d.eoxp,
                           !.state = IF ~t.open THEN "T_SLOT" ELSE AfterBeat(cnt)]

TSlotOffByOne ==
  /\ t.state = "T_SLOT"
  /\ t' = IF Diff(t.prod, cons) <= NSlot
          THEN [Hold EXCEPT !.open = TRUE, !.len = 0, !.soff = 0, !.trunc = FALSE,
                            !.first = t.nbdp, !.crbdp = t.nbdp, !.state = AfterBeat(t.cnt)]
          ELSE Hold

TSlot ==
  /\ t.state = "T_SLOT"
  /\ t' = IF Diff(t.prod, cons) < NSlot
          THEN [Hold EXCEPT !.open = TRUE, !.len = 0, !.soff = 0, !.trunc = FALSE,
                            !.first = t.nbdp, !.crbdp = t.nbdp, !.state = AfterBeat(t.cnt)]
          ELSE Hold

TMem ==
  /\ t.state = "T_MEM"
  /\ LET all  == t.hold \o ld.bytes
         cnt  == t.cnt - Len(ld.bytes)
         full == Len(all) >= Lanes
     IN  t' = [Hold EXCEPT !.beat = IF full THEN SubSeq(all, 1, Lanes) ELSE @,
                           !.hold = IF full THEN SubSeq(all, Lanes + 1, Len(all)) ELSE all,
                           !.bp = @ + Len(ld.bytes), !.cnt = cnt, !.len = @ + Len(ld.bytes),
                           !.state = IF full THEN "T_PUT" ELSE AfterBeat(cnt)]

TPutNoCap == t.state = "T_PUT" /\ t' = [Hold EXCEPT !.soff = @ + 1, !.state = AfterBeat(t.cnt)]

TPut ==
  /\ t.state = "T_PUT"
  /\ t' = IF t.soff = SlotBeats     \* oversize packet: drop the excess bytes
          THEN [Hold EXCEPT !.trunc = TRUE, !.state = AfterBeat(t.cnt)]
          ELSE [Hold EXCEPT !.soff = @ + 1, !.state = AfterBeat(t.cnt)]

TBcwb ==
  /\ t.state = "T_BCWB"              \* the head's ETXD waits for T_HEAD
  /\ t' = [Hold EXCEPT !.state = IF PacketEnd THEN "T_FLUSH" ELSE "T_NEXT"]

TFlushKeepHold == t.state = "T_FLUSH" /\ t' = [Hold EXCEPT !.state = "T_HEAD"]

TFlush ==
  /\ t.state = "T_FLUSH"
  /\ t' = [Hold EXCEPT !.trunc = @ \/ (t.hold # <<>> /\ t.soff = SlotBeats),
                       !.hold = <<>>, !.state = "T_HEAD"]

THead == t.state = "T_HEAD" /\ t' = [Hold EXCEPT !.state = "T_CQ"]
TCq   == t.state = "T_CQ" /\ t' = [Hold EXCEPT !.state = "T_IDX"]
TIdx  == t.state = "T_IDX" /\ t' = [Hold EXCEPT !.prod = Inc(@), !.open = FALSE, !.state = "T_NEXT"]

TNextPerDesc ==
  /\ t.state = "T_NEXT"
  /\ t' = IF ChainEnd
          THEN [Hold EXCEPT !.crbdp = DP(t.nbdp), !.done = TRUE, !.state = "T_IDLE"]
          ELSE [Hold EXCEPT !.crbdp = DP(t.nbdp), !.nbdp = DP(t.nbdp), !.ndesc = @ + 1,
                            !.state = "T_DESC"]

TNext ==
  /\ t.state = "T_NEXT"
  /\ t' = IF ChainEnd
          THEN [Hold EXCEPT !.crbdp = DP(t.nbdp), !.done = TRUE, !.state = "T_IDLE"]
          ELSE [Hold EXCEPT !.nbdp = DP(t.nbdp), !.ndesc = @ + 1, !.state = "T_DESC"]

\* rsp: the response pulse of the access in flight arrives in this cycle
TxChan(rsp) ==
  IF TxReq /\ ~rsp
  THEN t' = Hold /\ UNCHANGED acc
  ELSE /\ acc' = FALSE
       /\ TIdle \/ TDesc \/ TSlot \/ TMem \/ TPut \/ TBcwb \/ TFlush \/ THead \/ TCq \/ TIdx \/ TNext

(***************************************************************************)
(* One clock: the shim and the glue.  m is the guest's MMIO access.        *)
(***************************************************************************)
TxComplete == sh.req_seq # sh.done_seq /\ gl.echo = sh.req_seq

\* the registers the guest's access m writes
Written(m) ==
  CASE m.op = "ctrl" -> [sh EXCEPT !.active = TRUE, !.req_seq = Inc(@), !.req_nbdp = sh.nbdp]
    [] m.op = "nbdp" -> [sh EXCEPT !.nbdp = m.val]
    [] OTHER -> sh

\* TX completion: the echo names the request, NBDP moves past the chain unless
\* the guest writes it in this very cycle
Completed(m, r) ==
  IF TxComplete
  THEN [r EXCEPT !.done_seq = sh.req_seq, !.active = FALSE,
                 !.nbdp = IF m.op = "nbdp" THEN @ ELSE t.crbdp]
  ELSE r

IrqRxOnly(m, rxi) == rxi \/ (sh.irq /\ m.op # "clrirq")

\* enet_intrq, the OR of the two channels' latches: a CLRIRQ clears both, and
\* loses to a completion or an RX injection (rxi) of the same cycle
Irq(m, rxi) == TxComplete \/ rxi \/ (sh.irq /\ m.op # "clrirq")

ShimStep(m, rxi) == sh' = [Completed(m, Written(m)) EXCEPT !.irq = Irq(m, rxi)]

GlueStepStaleKick ==
  gl' = [seq  |-> sh.req_seq,
         kick |-> IF TxGo THEN gl.seq ELSE gl.kick,
         echo |-> IF t.done THEN gl.kick ELSE gl.echo]

GlueStep ==
  gl' = [seq  |-> sh.req_seq,
         kick |-> IF TxGo THEN sh.req_seq ELSE gl.kick,
         echo |-> IF t.done THEN gl.kick ELSE gl.echo]

Clock(m, rsp, rxi) ==
  /\ rsp => acc
  /\ TxChan(rsp) /\ ShimStep(m, rxi) /\ GlueStep
  /\ UNCHANGED <<desc, ld, slot, cq, txprod, cons, wire, sentq>>

NoMmio == [op |-> "none", val |-> 0]

Idle(rsp, rxi) == Clock(NoMmio, rsp, rxi) /\ UNCHANGED g

(***************************************************************************)
(* The guest driver (external: the Linux/IRIX Ethernet driver).            *)
(***************************************************************************)
Free == NDesc - 1 - ((g.tail - g.old) % NDesc)

Frame(p, s) ==           \* the bytes of packet p with shape s, one sequence per buffer
  [i \in 1 .. Len(s) |-> [j \in 1 .. s[i].len |-> <<p, 10 * i + j>>]]

FlattenFrame(f) ==
  LET upto[n \in 0 .. Len(f)] == IF n = 0 THEN <<>> ELSE upto[n - 1] \o f[n]
  IN  upto[Len(f)]

\* queue a packet on free descriptors, EOX on its last one
GuestQueue(s) ==
  LET p == Len(sentq) + 1
      f == Frame(p, s)
      n == Len(s)
      pos(d) == ((d - g.tail) % NDesc) + 1
  IN  /\ g.pc = "idle" /\ p <= MaxPkt /\ n <= Free
      /\ desc' = [d \in Desc |->
                    IF pos(d) <= n
                    THEN [eox |-> pos(d) = n, eoxp |-> pos(d) = n, etxd |-> FALSE,
                          off |-> s[pos(d)].off, buf |-> f[pos(d)]]
                    ELSE desc[d]]
      /\ g' = [g EXCEPT !.tail = (@ + n) % NDesc,
                        !.inflight = Append(@, [head |-> g.tail, n |-> n]),
                        !.pc = IF g.old = g.tail THEN "check" ELSE "append"]
      /\ sentq' = Append(sentq, FlattenFrame(f))
      /\ UNCHANGED <<sh, gl, t, acc, ld, staging, cons, wire>>

\* clear EOX on the old tail, which the channel may be working on
GuestAppend ==
  /\ g.pc = "append"
  /\ LET last == (g.inflight[Len(g.inflight)].head - 1) % NDesc
     IN  desc' = [desc EXCEPT ![last].eox = FALSE]
  /\ g' = [g EXCEPT !.pc = "check"]
  /\ UNCHANGED <<sh, gl, t, acc, ld, staging, cons, wire, sentq>>

\* read tx_ctrl: kick only when ACTIVE is clear
GuestCheck ==
  /\ g.pc = "check"
  /\ g' = [g EXCEPT !.pc = IF sh.active THEN "idle" ELSE "nbdp"]
  /\ UNCHANGED <<desc, sh, gl, t, acc, ld, staging, cons, wire, sentq>>

\* the first descriptor not yet transmitted
FirstUnsent ==
  LET k == CHOOSE k \in 0 .. NDesc - 1 :
             /\ ~desc[(g.old + k) % NDesc].etxd \/ (g.old + k) % NDesc = g.tail
             /\ \A j \in 0 .. k - 1 :
                  desc[(g.old + j) % NDesc].etxd /\ (g.old + j) % NDesc # g.tail
  IN  (g.old + k) % NDesc

GuestNbdp(rsp) ==
  /\ g.pc = "nbdp"
  /\ IF FirstUnsent = g.tail
     THEN /\ g' = [g EXCEPT !.pc = "idle"] /\ Clock(NoMmio, rsp, FALSE)
     ELSE /\ g' = [g EXCEPT !.pc = "ctrl"] /\ Clock([op |-> "nbdp", val |-> FirstUnsent], rsp, FALSE)

GuestKick(rsp) ==
  /\ g.pc = "ctrl" /\ g' = [g EXCEPT !.pc = "idle"]
  /\ Clock([op |-> "ctrl", val |-> 0], rsp, FALSE)

\* interrupt handler: CLRIRQ, read the status, then reap
GuestIsr(rsp, rxi) ==
  /\ g.pc = "idle" /\ sh.irq
  /\ g' = [g EXCEPT !.pc = "status"]
  /\ Clock([op |-> "clrirq", val |-> 0], rsp, rxi)

\* is the channel still ACTIVE?
GuestStatus ==
  /\ g.pc = "status" /\ g' = [g EXCEPT !.pc = "bound", !.stat = sh.active]
  /\ UNCHANGED <<desc, sh, gl, t, acc, ld, staging, cons, wire, sentq>>

\* read the pointer that ends the reap walk: CRBDP while ACTIVE, else NBDP
GuestBound ==
  /\ g.pc = "bound"
  /\ g' = [g EXCEPT !.pc = "reap", !.bound = IF g.stat THEN t.crbdp ELSE sh.nbdp]
  /\ UNCHANGED <<desc, sh, gl, t, acc, ld, staging, cons, wire, sentq>>

\* the oldest packet is the driver's to reclaim
Reapable ==
  /\ g.inflight # <<>>
  /\ \/ g.rule = "etxd" /\ desc[g.inflight[1].head].etxd
     \/ g.rule = "crbdp" /\ g.old # g.bound

\* reclaim the sent packets one by one, then restart a stopped channel
GuestReap ==
  /\ g.pc = "reap"
  /\ IF Reapable
     THEN LET q == g.inflight[1]
          IN  /\ desc' = [d \in Desc |->
                            IF (d - q.head) % NDesc < q.n
                            THEN [NoDesc EXCEPT !.buf = [i \in 1 .. Len(desc[d].buf) |-> Junk]]
                            ELSE desc[d]]
              /\ g' = [g EXCEPT !.inflight = Tail(@), !.old = (@ + q.n) % NDesc]
     ELSE /\ g' = [g EXCEPT !.pc = IF g.inflight # <<>> /\ ~g.stat THEN "nbdp" ELSE "idle",
                           !.stat = FALSE, !.bound = 0]
          /\ UNCHANGED desc
  /\ UNCHANGED <<sh, gl, t, acc, ld, staging, cons, wire, sentq>>

(***************************************************************************)
(* The ARM (external): read the slot the next entry names, then tx_cons++. *)
(***************************************************************************)
ArmConsume ==
  /\ cons # txprod
  /\ LET e == cq[cons % NSlot]
         b == slot[cons % NSlot]
     IN  wire' = Append(wire, SubSeq(b, 1, Min2(e.len, Len(b))))
  /\ cons' = Inc(cons)
  /\ UNCHANGED <<desc, g, sh, gl, t, acc, ld, staging, sentq>>

Next ==
  \/ Mem
  \/ \E rsp, rxi \in BOOLEAN : Idle(rsp, rxi) \/ GuestIsr(rsp, rxi)
  \/ \E rsp \in BOOLEAN : GuestNbdp(rsp) \/ GuestKick(rsp)
  \/ \E s \in Shapes : GuestQueue(s)
  \/ GuestAppend \/ GuestCheck \/ GuestStatus \/ GuestBound \/ GuestReap
  \/ ArmConsume

\* The clock runs, DRAM answers, the CPU takes enabled interrupts, the ARM polls.
Fairness ==
  /\ WF_vars(Mem) /\ WF_vars(Idle(TRUE, FALSE)) /\ WF_vars(Idle(FALSE, FALSE))
  /\ WF_vars(\E rsp \in BOOLEAN : GuestNbdp(rsp))
  /\ WF_vars(\E rsp \in BOOLEAN : GuestKick(rsp))
  /\ WF_vars(\E rsp \in BOOLEAN : GuestIsr(rsp, FALSE))
  /\ WF_vars(GuestAppend) /\ WF_vars(GuestCheck) /\ WF_vars(GuestStatus)
  /\ WF_vars(GuestBound) /\ WF_vars(GuestReap)
  /\ WF_vars(ArmConsume)

Spec == Init /\ [][Next]_vars /\ Fairness

(***************************************************************************)
(* Properties                                                              *)
(***************************************************************************)
\* what a frame becomes in a slot: the excess of an oversize packet is dropped
Cut(f) == SubSeq(f, 1, Min2(Len(f), SlotBeats * Lanes))

\* Type invariant of the registers, rings and drivers.
TypeOK ==
  /\ \A d \in Desc : desc[d].eox \in BOOLEAN /\ desc[d].eoxp \in BOOLEAN /\ desc[d].etxd \in BOOLEAN
  /\ g.tail \in Desc /\ g.old \in Desc /\ g.bound \in Desc
  /\ g.pc \in {"idle", "append", "check", "nbdp", "ctrl", "status", "bound", "reap"}
  /\ t.state \in TStates /\ t.nbdp \in Desc /\ t.crbdp \in Desc /\ t.first \in Desc
  /\ t.soff \in 0 .. SlotBeats /\ t.ndesc \in 0 .. NdescMax /\ Len(t.hold) < Lanes
  /\ {t.prod, txprod, cons, sh.req_seq, sh.done_seq, gl.seq, gl.kick, gl.echo} \subseteq 0 .. CntMod - 1
  /\ \A i \in 0 .. NSlot - 1 : Len(slot[i]) <= SlotBeats * Lanes

\* Every frame the ARM puts on the wire is, in order and exactly once, a packet
\* the guest queued, byte for byte (cut at the 2 KB slot): gathering from any
\* buffer offset, the guest's reuse of a packet whose head has ETXD, appends to
\* a running chain and restarts never tear, repeat, skip or reorder one.
WireFaithful ==
  /\ Len(wire) <= Len(sentq)
  /\ \A i \in 1 .. Len(wire) : wire[i] = Cut(sentq[i])

\* A published entry (cons <= k < tx_prod) stays whole until the ARM frees it:
\* never more than NSlot of them, its slot starts with the packet (an empty packet
\* leaves what the slot held before), its length is the packet's own and the
\* truncation flag says exactly whether bytes were dropped.
StagedIntact ==
  LET n == Diff(txprod, cons)
  IN  /\ n <= NSlot /\ Len(wire) + n <= Len(sentq)
      /\ \A k \in 0 .. n - 1 :
           LET i == (cons + k) % NSlot
               f == sentq[Len(wire) + k + 1]
               m == Len(Cut(f))
           IN  /\ cq[i].len = Len(f)
               /\ cq[i].trunc <=> Len(f) > SlotBeats * Lanes
               /\ Len(slot[i]) >= m /\ SubSeq(slot[i], 1, m) = Cut(f)

\* ETXD on a packet's head is the last of its ETXDs: a driver that sees it may
\* take every descriptor of the packet back.
HeadDoneLast ==
  \A i \in 1 .. Len(g.inflight) :
    LET q == g.inflight[i]
    IN  desc[q.head].etxd => \A k \in 0 .. q.n - 1 : desc[(q.head + k) % NDesc].etxd

\* The reap walk of a driver bounded by CRBDP or NBDP stops exactly there: it
\* never runs out of packets with the bound still ahead, which is the walk off
\* the ring of the panic enet_shim describes, and takes no packet unsent.
ReapStopsAtBound ==
  g.rule = "crbdp" /\ g.pc = "reap" =>
     /\ g.inflight = <<>> => g.old = g.bound
     /\ Reapable => desc[g.inflight[1].head].etxd

\* CRBDP moves per packet: a driver that reclaims every packet whose head lies
\* before it never meets it inside a packet.
CrbdpOutsidePackets ==
  g.rule = "crbdp" => \A i \in 1 .. Len(g.inflight) :
    LET q == g.inflight[i]
    IN  \A k \in 1 .. q.n - 1 : t.crbdp # (q.head + k) % NDesc

\* What a reaping driver relies on, all together: it takes back whole packets
\* that were sent, and its walk ends at the bound it read.
ReclaimSafe == HeadDoneLast /\ ReapStopsAtBound /\ CrbdpOutsidePackets

\* Every packet the guest queued reaches the wire: no kick, completion or
\* interrupt is lost, however appends and restarts race with the chain's end.
AllSent == Len(sentq) # Len(wire) ~> Len(sentq) = Len(wire)

\* The transmit interrupt is always taken and every packet is reclaimed.
AllReaped == g.inflight # <<>> ~> g.inflight = <<>>
=============================================================================
