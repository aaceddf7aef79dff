---------------------------- MODULE EnetTxProofs ----------------------------
(***************************************************************************)
(* The ENET TX channel, its shim, the driver and the ARM for every ring,   *)
(* slot and beat size and all packets.                                     *)
(***************************************************************************)
EXTENDS EnetTx, SequenceTheorems, WellFoundedInduction, TLAPS

Byte == Nat \X Nat
Counts == 0 .. CntMod - 1
Slots == 0 .. NSlot - 1

\* a descriptor
IsDesc(d) ==
  /\ DOMAIN d = {"eox", "eoxp", "etxd", "off", "buf"}
  /\ d.eox \in BOOLEAN /\ d.eoxp \in BOOLEAN /\ d.etxd \in BOOLEAN
  /\ d.off \in Nat /\ d.buf \in Seq(Byte)

Packets == [head : Desc, n : Nat]

RingOk == DOMAIN desc = Desc /\ \A d \in Desc : IsDesc(desc[d])

DriverOk ==
  /\ DOMAIN g = {"pc", "rule", "tail", "old", "inflight", "stat", "bound"}
  /\ g.pc \in {"idle", "append", "check", "nbdp", "ctrl", "status", "bound", "reap"}
  /\ g.tail \in Desc /\ g.old \in Desc /\ g.bound \in Desc
  /\ g.inflight \in Seq(Packets)
  /\ g.pc = "append" => g.inflight # <<>>

ShimOk ==
  /\ DOMAIN sh = {"active", "irq", "req_seq", "done_seq", "req_nbdp", "nbdp"}
  /\ sh.req_seq \in Counts /\ sh.done_seq \in Counts /\ sh.req_nbdp \in Desc /\ sh.nbdp \in Desc
  /\ DOMAIN gl = {"seq", "kick", "echo"}
  /\ gl.seq \in Counts /\ gl.kick \in Counts /\ gl.echo \in Counts

\* The channel's registers: the hold register never has a whole beat, and a beat to be
\* stored is one.
IsChan(u) ==
  /\ DOMAIN u = {"state", "pend", "nbdp", "eox", "eoxp", "bp", "cnt", "open", "len", "soff", "trunc",
                 "first", "prod", "ndesc", "done", "crbdp", "hold", "beat"}
  /\ u.state \in TStates /\ u.nbdp \in Desc /\ u.first \in Desc /\ u.crbdp \in Desc
  /\ u.bp \in Nat /\ u.cnt \in Nat /\ u.len \in Nat /\ u.soff \in 0 .. SlotBeats
  /\ u.prod \in Counts /\ u.ndesc \in 0 .. NdescMax
  /\ u.hold \in Seq(Byte) /\ Len(u.hold) < Lanes
  /\ u.beat \in Seq(Byte) /\ Len(u.beat) <= Lanes

\* What the access in flight has loaded.
LoadOk ==
  /\ DOMAIN ld = {"desc", "bytes"} /\ IsDesc(ld.desc) /\ acc \in BOOLEAN
  /\ acc /\ t.state = "T_MEM" => ld.bytes \in Seq(Byte) /\ Len(ld.bytes) <= Lanes /\ Len(ld.bytes) <= t.cnt

StagingOk ==
  /\ DOMAIN slot = Slots
  /\ \A i \in Slots : slot[i] \in Seq(Byte) /\ Len(slot[i]) <= SlotBeats * Lanes
  /\ txprod \in Counts /\ cons \in Counts

\* The history of queued frames.
HistoryOk == sentq \in Seq(Seq(Byte))

TxInv == RingOk /\ DriverOk /\ ShimOk /\ IsChan(t) /\ LoadOk /\ StagingOk /\ HistoryOk
-----------------------------------------------------------------------------
(* Constants and index arithmetic *)

LEMMA Consts ==
  /\ NDesc \in Nat /\ NDesc > 1 /\ NSlot \in Nat /\ NSlot > 0 /\ Lanes \in Nat /\ Lanes > 0
  /\ SlotBeats \in Nat /\ SlotBeats > 0 /\ NdescMax \in Nat /\ CntMod \in Nat /\ CntMod > NSlot
BY TxConstants

LEMMA RingIndex ==
  ASSUME NEW x \in Int
  PROVE  x % NDesc \in Desc
<1>1. NDesc \in Nat /\ NDesc > 0
  BY Consts
<1> QED BY <1>1 DEF Desc

LEMMA CountIndex ==
  ASSUME NEW x \in Int
  PROVE  x % CntMod \in Counts /\ x % NSlot \in Slots
<1>1. CntMod \in Nat /\ CntMod > 0 /\ NSlot \in Nat /\ NSlot > 0
  BY Consts
<1> QED BY <1>1 DEF Counts, Slots

LEMMA IncType ==
  ASSUME NEW c \in Counts
  PROVE  Inc(c) \in Counts
<1>1. c + 1 \in Int
  BY Consts DEF Counts
<1> QED BY <1>1, CountIndex DEF Inc

LEMMA DPType ==
  ASSUME NEW d \in Desc
  PROVE  DP(d) \in Desc
<1>1. d + 1 \in Int
  BY Consts DEF Desc
<1> QED BY <1>1, RingIndex DEF DP

LEMMA InitTx == Init => TxInv
<1> SUFFICES ASSUME Init
             PROVE  TxInv
  OBVIOUS
<1>1. 0 \in Desc /\ 0 \in Counts /\ 0 \in 0 .. SlotBeats /\ 0 \in 0 .. NdescMax
  BY Consts DEF Desc, Counts
<1>2. <<>> \in Seq(Byte) /\ Len(<<>>) = 0 /\ 0 < Lanes /\ 0 <= SlotBeats * Lanes
  BY Consts
<1>3. IsDesc(NoDesc)
  BY <1>2 DEF IsDesc, NoDesc
<1>4. RingOk
  BY <1>3 DEF Init, RingOk
<1>5. DriverOk
  <2>1. <<>> \in Seq(Packets)
    OBVIOUS
  <2>2. PICK rule : g = GuestInit(rule)
    BY DEF Init
  <2> QED BY <1>1, <2>1, <2>2 DEF DriverOk, GuestInit
<1>6. ShimOk
  BY <1>1 DEF Init, ShimOk, ShimReset, GlueReset
<1>7. IsChan(t)
  BY <1>1, <1>2, Consts DEF Init, IsChan, ChanReset, TStates
<1>8. LoadOk
  BY <1>3 DEF Init, LoadOk
<1>9. StagingOk
  BY <1>1, <1>2 DEF Init, StagingOk, Slots
<1>10. HistoryOk
  BY DEF Init, HistoryOk
<1> QED BY <1>4, <1>5, <1>6, <1>7, <1>8, <1>9, <1>10 DEF TxInv
-----------------------------------------------------------------------------
(* The channel's access at DRAM *)

LEMMA BytesAt ==
  ASSUME NEW d \in Desc, RingOk, NEW i \in Nat
  PROVE  ByteAt(d, i) \in Byte
<1>1. desc[d].buf \in Seq(Byte)
  BY DEF RingOk, IsDesc
<1>2. Junk \in Byte
  BY DEF Junk, Byte
<1>3. i < Len(desc[d].buf) => desc[d].buf[i + 1] \in Byte
  BY <1>1
<1> QED BY <1>2, <1>3 DEF ByteAt

\* A load takes bytes of one line, and no more than the buffer has left.
LEMMA LineBytesFacts ==
  ASSUME RingOk, IsChan(t)
  PROVE  LineBytes \in Seq(Byte) /\ Len(LineBytes) <= Lanes /\ Len(LineBytes) <= t.cnt
<1> DEFINE off == desc[t.nbdp].off + t.bp
           take == LineTake(off, t.cnt)
<1>1. t.nbdp \in Desc /\ t.bp \in Nat /\ t.cnt \in Nat /\ off \in Nat
  BY DEF IsChan, RingOk, IsDesc
<1>2. LineBytes = [i \in 1 .. take |-> ByteAt(t.nbdp, t.bp + i - 1)]
  BY DEF LineBytes
<1> HIDE DEF off
<1>3. off % Lanes \in 0 .. Lanes - 1 /\ Lanes \in Nat
  BY <1>1, Consts
<1>4. take \in Nat /\ take <= Lanes /\ take <= t.cnt
  BY <1>1, <1>3 DEF LineTake, Min2
<1> HIDE DEF take
<1>5. \A i \in 1 .. take : ByteAt(t.nbdp, t.bp + i - 1) \in Byte
  <2> TAKE i \in 1 .. take
  <2>1. t.bp + i - 1 \in Nat
    BY <1>1, <1>4
  <2> QED BY <1>1, <2>1, BytesAt
<1>6. LineBytes \in [1 .. take -> Byte]
  BY <1>2, <1>5
<1>7. LineBytes \in Seq(Byte) /\ Len(LineBytes) = take
  BY <1>4, <1>6
<1> QED BY <1>4, <1>7

\* A beat stored at an offset below SlotBeats stays in its slot.
LEMMA StoreBeatFacts ==
  ASSUME StagingOk, IsChan(t), t.soff # SlotBeats, NEW b \in Seq(Byte), Len(b) <= Lanes, StoreBeat(b)
  PROVE  /\ DOMAIN slot' = Slots
         /\ \A i \in Slots : slot'[i] \in Seq(Byte) /\ Len(slot'[i]) <= SlotBeats * Lanes
<1> DEFINE k == t.prod % NSlot
           old == slot[k]
           m == Min2(Len(old), t.soff * Lanes)
           new == SubSeq(old, 1, m) \o b
<1>1. k \in Slots
  BY CountIndex DEF IsChan, Counts
<1>2. slot' = [slot EXCEPT ![k] = new]
  BY <1>1 DEF StoreBeat, StagingOk
<1>3. old \in Seq(Byte) /\ Len(old) \in Nat /\ Len(b) \in Nat
  BY <1>1 DEF StagingOk
<1>4. t.soff \in Nat /\ t.soff + 1 <= SlotBeats /\ Lanes \in Nat /\ SlotBeats \in Nat
  BY Consts DEF IsChan
<1>5. t.soff * Lanes \in Nat /\ t.soff * Lanes + Lanes <= SlotBeats * Lanes /\ SlotBeats * Lanes \in Nat
  <2>1. \A x, y, z \in Nat : x + 1 <= y => x * z \in Nat /\ y * z \in Nat /\ x * z + z <= y * z
    OBVIOUS
  <2> QED BY <1>4, <2>1
<1> HIDE DEF old, k
<1> DEFINE p == t.soff * Lanes
           q == SlotBeats * Lanes
<1>6. p \in Nat /\ q \in Nat /\ p + Lanes <= q
  BY <1>5
<1> HIDE DEF p, q
<1>7. m = Min2(Len(old), p)
  BY DEF p
<1>8. m \in Nat /\ m <= Len(old) /\ m <= p
  BY <1>3, <1>6, <1>7 DEF Min2
<1> HIDE DEF m
<1>9. SubSeq(old, 1, m) \in Seq(Byte) /\ Len(SubSeq(old, 1, m)) = m
  <2>1. \A i \in 1 .. m : old[i] \in Byte
    BY <1>3, <1>8
  <2>2. m \in Int /\ 1 \in Int /\ (IF 1 <= m THEN m - 1 + 1 ELSE 0) = m
    BY <1>8
  <2> QED BY <2>1, <2>2, SubSeqProperties
<1>10. new \in Seq(Byte) /\ Len(new) = m + Len(b)
  BY <1>9, ConcatProperties
<1> HIDE DEF new
<1>11. Len(new) <= q
  BY <1>3, <1>4, <1>6, <1>8, <1>10
<1>12. \A i \in Slots : slot'[i] = IF i = k THEN new ELSE slot[i]
  BY <1>2 DEF StagingOk
<1>13. DOMAIN slot' = Slots
  BY <1>2 DEF StagingOk
<1> QED BY <1>10, <1>11, <1>12, <1>13 DEF StagingOk, q

LEMMA WriteBCFacts ==
  ASSUME RingOk, NEW d \in Desc, WriteBC(d)
  PROVE  RingOk'
<1>1. DOMAIN desc' = Desc /\ \A e \in Desc : desc'[e] = IF e = d THEN [desc[d] EXCEPT !.etxd = TRUE] ELSE desc[e]
  BY DEF RingOk, WriteBC
<1>2. IsDesc([desc[d] EXCEPT !.etxd = TRUE])
  BY DEF RingOk, IsDesc
<1> QED BY <1>1, <1>2 DEF RingOk

LEMMA MemStep == TxInv /\ Mem => TxInv'
<1> SUFFICES ASSUME TxInv, Mem
             PROVE  TxInv'
  OBVIOUS
<1>1. /\ TxReq /\ ~acc /\ acc' = TRUE /\ UNCHANGED <<g, sh, gl, t, cons, sentq>>
  BY DEF Mem
<1>2. DriverOk' /\ ShimOk' /\ IsChan(t') /\ HistoryOk'
  BY <1>1 DEF TxInv, DriverOk, ShimOk, HistoryOk
<1>3. RingOk' /\ LoadOk' /\ StagingOk'
  <2>0. RingOk /\ IsChan(t) /\ LoadOk /\ StagingOk
    BY DEF TxInv
  <2>1. CASE /\ t.state = "T_DESC" /\ ld' = [ld EXCEPT !.desc = desc[t.nbdp]]
             /\ UNCHANGED <<desc, staging>>
    BY <1>1, <2>0, <2>1 DEF RingOk, LoadOk, StagingOk, IsChan, staging
  <2>2. CASE /\ t.state = "T_MEM" /\ ld' = [ld EXCEPT !.bytes = LineBytes]
             /\ UNCHANGED <<desc, staging>>
    <3>1. LineBytes \in Seq(Byte) /\ Len(LineBytes) <= Lanes /\ Len(LineBytes) <= t.cnt
      BY <2>0, LineBytesFacts
    <3>2. DOMAIN ld' = {"desc", "bytes"} /\ ld'.desc = ld.desc /\ ld'.bytes = LineBytes
      BY <2>0, <2>2 DEF LoadOk
    <3>3. LoadOk'
      BY <1>1, <2>0, <3>1, <3>2 DEF LoadOk
    <3> QED BY <1>1, <2>0, <2>2, <3>3 DEF RingOk, StagingOk, staging
  <2>3. CASE t.state = "T_PUT" /\ StoreBeat(t.beat) /\ UNCHANGED <<ld, desc, cq, txprod>>
    <3>1. t.soff # SlotBeats
      BY <1>1, <2>3 DEF TxReq
    <3>2. t.beat \in Seq(Byte) /\ Len(t.beat) <= Lanes
      BY <2>0 DEF IsChan
    <3>3. /\ DOMAIN slot' = Slots
          /\ \A i \in Slots : slot'[i] \in Seq(Byte) /\ Len(slot'[i]) <= SlotBeats * Lanes
      BY <2>0, <2>3, <3>1, <3>2, StoreBeatFacts
    <3> QED BY <1>1, <2>0, <2>3, <3>3 DEF RingOk, LoadOk, StagingOk
  <2>4. CASE t.state = "T_BCWB" /\ WriteBC(t.nbdp) /\ UNCHANGED <<ld, staging>>
    <3>1. RingOk'
      BY <2>0, <2>4, WriteBCFacts DEF IsChan
    <3> QED BY <1>1, <2>0, <2>4, <3>1 DEF LoadOk, StagingOk, staging
  <2>5. CASE t.state = "T_FLUSH" /\ StoreBeat(t.hold) /\ UNCHANGED <<ld, desc, cq, txprod>>
    <3>1. t.soff # SlotBeats
      BY <1>1, <2>5 DEF TxReq
    <3>2. t.hold \in Seq(Byte) /\ Len(t.hold) <= Lanes
      BY <2>0, Consts DEF IsChan
    <3>3. /\ DOMAIN slot' = Slots
          /\ \A i \in Slots : slot'[i] \in Seq(Byte) /\ Len(slot'[i]) <= SlotBeats * Lanes
      BY <2>0, <2>5, <3>1, <3>2, StoreBeatFacts
    <3> QED BY <1>1, <2>0, <2>5, <3>3 DEF RingOk, LoadOk, StagingOk
  <2>6. CASE t.state = "T_HEAD" /\ WriteBC(t.first) /\ UNCHANGED <<ld, staging>>
    <3>1. RingOk'
      BY <2>0, <2>6, WriteBCFacts DEF IsChan
    <3> QED BY <1>1, <2>0, <2>6, <3>1 DEF LoadOk, StagingOk, staging
  <2>7. CASE t.state = "T_CQ" /\ UNCHANGED <<ld, desc, slot, txprod>>
    BY <1>1, <2>0, <2>7 DEF RingOk, LoadOk, StagingOk
  <2>8. CASE t.state = "T_IDX" /\ txprod' = Inc(t.prod) /\ UNCHANGED <<ld, desc, slot, cq>>
    <3>1. txprod' \in Counts
      BY <2>0, <2>8, IncType DEF IsChan
    <3> QED BY <1>1, <2>0, <2>8, <3>1 DEF RingOk, LoadOk, StagingOk
  <2> QED BY <2>1, <2>2, <2>3, <2>4, <2>5, <2>6, <2>7, <2>8 DEF Mem
<1> QED BY <1>2, <1>3 DEF TxInv
-----------------------------------------------------------------------------
(* One clock *)

\* The default of a cycle touches the kick latch and the done pulse only.
LEMMA HoldFacts ==
  ASSUME IsChan(t)
  PROVE  /\ DOMAIN Hold = DOMAIN t
         /\ \A f \in DOMAIN t \ {"pend", "done"} : Hold[f] = t[f]
         /\ IsChan(Hold)
<1>1. DOMAIN Hold = DOMAIN t /\ \A f \in DOMAIN t \ {"pend", "done"} : Hold[f] = t[f]
  BY DEF Hold
<1> QED BY <1>1 DEF IsChan

\* The gathered bytes leave a beat or stay below one.
LEMMA GatherFacts ==
  ASSUME NEW h \in Seq(Byte), Len(h) < Lanes, NEW b \in Seq(Byte), Len(b) <= Lanes
  PROVE  LET all == h \o b
             full == Len(all) >= Lanes
             rest == IF full THEN SubSeq(all, Lanes + 1, Len(all)) ELSE all
         IN  /\ rest \in Seq(Byte) /\ Len(rest) < Lanes
             /\ full => SubSeq(all, 1, Lanes) \in Seq(Byte) /\ Len(SubSeq(all, 1, Lanes)) <= Lanes
<1> DEFINE all == h \o b
<1>1. all \in Seq(Byte) /\ Len(all) = Len(h) + Len(b)
  BY ConcatProperties
<1>2. Lanes \in Nat /\ Lanes > 0 /\ Len(h) \in Nat /\ Len(b) \in Nat
  BY Consts
<1>3. Len(all) \in Nat /\ Len(all) < Lanes + Lanes
  BY <1>1, <1>2
<1> HIDE DEF all
<1>4. CASE Len(all) >= Lanes
  <2>1. \A i \in 1 .. Len(all) : all[i] \in Byte
    BY <1>1
  <2>2. \A i \in Lanes + 1 .. Len(all) : all[i] \in Byte
    BY <2>1, <1>2, <1>3
  <2>3. \A i \in 1 .. Lanes : all[i] \in Byte
    BY <2>1, <1>2, <1>3, <1>4
  <2>4. SubSeq(all, Lanes + 1, Len(all)) \in Seq(Byte)
        /\ Len(SubSeq(all, Lanes + 1, Len(all))) = IF Lanes + 1 <= Len(all) THEN Len(all) - (Lanes + 1) + 1 ELSE 0
    BY <2>2, <1>2, <1>3, SubSeqProperties
  <2>5. SubSeq(all, 1, Lanes) \in Seq(Byte) /\ Len(SubSeq(all, 1, Lanes)) = IF 1 <= Lanes THEN Lanes - 1 + 1 ELSE 0
    BY <2>3, <1>2, SubSeqProperties
  <2> QED BY <1>2, <1>3, <1>4, <2>4, <2>5 DEF all
<1>5. CASE ~(Len(all) >= Lanes)
  BY <1>1, <1>2, <1>3, <1>5 DEF all
<1> QED BY <1>4, <1>5

LEMMA ChanStep ==
  ASSUME TxInv, NEW rsp, rsp => acc, TxChan(rsp)
  PROVE  IsChan(t') /\ acc' \in BOOLEAN /\ (acc' /\ t'.state = "T_MEM" => acc /\ t.state = "T_MEM" /\ t'.cnt = t.cnt)
<1>1. IsChan(t) /\ IsDesc(ld.desc) /\ sh.req_nbdp \in Desc /\ acc \in BOOLEAN
  BY DEF TxInv, LoadOk, ShimOk
<1>2. CASE TxReq /\ ~rsp
  <2>1. t' = Hold /\ acc' = acc
    BY <1>2 DEF TxChan
  <2>2. Hold.state = t.state /\ Hold.cnt = t.cnt
    BY <1>1, HoldFacts DEF IsChan
  <2> QED BY <1>1, <2>1, <2>2, HoldFacts
<1>3. CASE ~(TxReq /\ ~rsp)
  <2>1. /\ acc' = FALSE
        /\ TIdle \/ TDesc \/ TSlot \/ TMem \/ TPut \/ TBcwb \/ TFlush \/ THead \/ TCq \/ TIdx \/ TNext
    BY <1>3 DEF TxChan
  <2>2. TxReq => acc
    BY <1>3
  <2>3. /\ DOMAIN Hold = DOMAIN t /\ IsChan(Hold)
        /\ \A f \in DOMAIN t \ {"pend", "done"} : Hold[f] = t[f]
    BY <1>1, HoldFacts
  <2>4. Hold.soff = t.soff /\ Hold.ndesc = t.ndesc /\ Hold.prod = t.prod /\ Hold.bp = t.bp /\ Hold.len = t.len /\ Hold.beat = t.beat /\ Hold.trunc = t.trunc
    BY <1>1, <2>3 DEF IsChan
  <2> DEFINE H == Hold
  <2>5. IsChan(H)
    BY <2>3
  <2>6. H.soff = t.soff /\ H.ndesc = t.ndesc /\ H.prod = t.prod /\ H.bp = t.bp /\ H.len = t.len /\ H.beat = t.beat /\ H.trunc = t.trunc
    BY <2>4
  <2>7. AfterBeat(t.cnt) \in TStates /\ \A c : AfterBeat(c) \in TStates
    BY DEF AfterBeat, TStates
  <2>8. DP(t.nbdp) \in Desc
    BY <1>1, DPType DEF IsChan
  <2>9. IsChan(t')
    <3>1. CASE TIdle
      <4>1. t' = H \/ t' = [H EXCEPT !.pend = FALSE, !.nbdp = sh.req_nbdp, !.ndesc = 0,
                            !.open = FALSE, !.hold = <<>>, !.state = "T_DESC"]
        BY <3>1, Zenon DEF TIdle
      <4> HIDE DEF H
      <4>2. 0 \in 0 .. NdescMax /\ <<>> \in Seq(Byte) /\ Len(<<>>) < Lanes /\ "T_DESC" \in TStates
        BY Consts DEF TStates
      <4> QED BY <4>1, <4>2, <2>5, <1>1, ZenonT(40) DEF IsChan
    <3>2. CASE TDesc
      <4> DEFINE d == ld.desc
                 cnt == Len(d.buf)
      <4>1. t' = [H EXCEPT !.bp = 0, !.cnt = cnt, !.eox = d.eox, !.eoxp = d.eoxp,
                           !.state = IF ~t.open THEN "T_SLOT" ELSE AfterBeat(cnt)]
        BY <3>2, Zenon DEF TDesc
      <4>2. cnt \in Nat
        BY <1>1 DEF IsDesc
      <4>3. (IF ~t.open THEN "T_SLOT" ELSE AfterBeat(cnt)) \in TStates
        BY <2>7 DEF TStates
      <4> HIDE DEF H, cnt, d
      <4> QED BY <4>1, <4>2, <4>3, <2>5 DEF IsChan
    <3>3. CASE TSlot
      <4>1. t' = H \/ t' = [H EXCEPT !.open = TRUE, !.len = 0, !.soff = 0, !.trunc = FALSE,
                            !.first = t.nbdp, !.crbdp = t.nbdp, !.state = AfterBeat(t.cnt)]
        BY <3>3, Zenon DEF TSlot
      <4>2. 0 \in 0 .. SlotBeats /\ t.nbdp \in Desc
        BY Consts, <1>1 DEF IsChan
      <4> HIDE DEF H
      <4>3. CASE t' = H
        BY <4>3, <2>5
      <4>4. CASE t' = [H EXCEPT !.open = TRUE, !.len = 0, !.soff = 0, !.trunc = FALSE,
                                !.first = t.nbdp, !.crbdp = t.nbdp, !.state = AfterBeat(t.cnt)]
        BY <4>4, <4>2, <2>5, <2>7, SMTT(30) DEF IsChan
      <4> QED BY <4>1, <4>3, <4>4
    <3>4. CASE TMem
      <4> DEFINE all  == t.hold \o ld.bytes
                 cnt  == t.cnt - Len(ld.bytes)
                 full == Len(all) >= Lanes
                 rest == IF full THEN SubSeq(all, Lanes + 1, Len(all)) ELSE all
                 bt == IF full THEN SubSeq(all, 1, Lanes) ELSE t.beat
                 n == Len(ld.bytes)
                 st == IF full THEN "T_PUT" ELSE AfterBeat(cnt)
      <4>1. t' = [H EXCEPT !.beat = IF full THEN SubSeq(all, 1, Lanes) ELSE @,
                           !.hold = rest,
                           !.bp = @ + n, !.cnt = cnt, !.len = @ + n,
                           !.state = st]
        BY <3>4, Zenon DEF TMem
      <4>2. acc /\ t.state = "T_MEM"
        BY <3>4, <2>2 DEF TMem, TxReq
      <4>3. ld.bytes \in Seq(Byte) /\ n <= Lanes /\ n <= t.cnt /\ n \in Nat
        BY <4>2 DEF TxInv, LoadOk
      <4>4. cnt \in Nat
        BY <4>3, <1>1 DEF IsChan
      <4>5. t.hold \in Seq(Byte) /\ Len(t.hold) < Lanes
        BY <1>1 DEF IsChan
      <4>6. /\ rest \in Seq(Byte) /\ Len(rest) < Lanes
            /\ full => SubSeq(all, 1, Lanes) \in Seq(Byte) /\ Len(SubSeq(all, 1, Lanes)) <= Lanes
        BY <4>3, <4>5, GatherFacts
      <4>7. bt \in Seq(Byte) /\ Len(bt) <= Lanes
        BY <4>6, <1>1 DEF IsChan
      <4>8. st \in TStates
        BY <2>7 DEF TStates
      <4>9. H.bp + n \in Nat /\ H.len + n \in Nat
        BY <4>3, <2>5, SMTT(40) DEF IsChan
      <4> HIDE DEF H
      <4>10. t' = [H EXCEPT !.beat = bt, !.hold = rest, !.bp = H.bp + n, !.cnt = cnt,
                            !.len = H.len + n, !.state = st]
        BY <4>1, <2>6, <2>5 DEF IsChan
      <4> HIDE DEF bt, rest, n, cnt, st, all, full
      <4> QED BY <4>10, <4>4, <4>6, <4>7, <4>8, <4>9, <2>5 DEF IsChan
    <3>5. CASE TPut
      <4>1. \/ t' = [H EXCEPT !.trunc = TRUE, !.state = AfterBeat(t.cnt)]
            \/ t.soff # SlotBeats /\ t' = [H EXCEPT !.soff = @ + 1, !.state = AfterBeat(t.cnt)]
        BY <3>5, Zenon DEF TPut
      <4>2. t.soff # SlotBeats => H.soff + 1 \in 0 .. SlotBeats
        BY <2>6, <1>1, Consts DEF IsChan
      <4> HIDE DEF H
      <4> QED BY <4>1, <4>2, <2>5, <2>7 DEF IsChan
    <3>6. CASE TBcwb
      <4>1. t' = [H EXCEPT !.state = IF PacketEnd THEN "T_FLUSH" ELSE "T_NEXT"]
        BY <3>6, Zenon DEF TBcwb
      <4>2. (IF PacketEnd THEN "T_FLUSH" ELSE "T_NEXT") \in TStates
        BY DEF TStates
      <4> HIDE DEF H
      <4> QED BY <4>1, <4>2, <2>5 DEF IsChan
    <3>7. CASE TFlush
      <4>1. t' = [H EXCEPT !.trunc = @ \/ (t.hold # <<>> /\ t.soff = SlotBeats),
                           !.hold = <<>>, !.state = "T_HEAD"]
        BY <3>7, Zenon DEF TFlush
      <4>2. <<>> \in Seq(Byte) /\ Len(<<>>) < Lanes /\ "T_HEAD" \in TStates
        BY Consts DEF TStates
      <4> HIDE DEF H
      <4> QED BY <4>1, <4>2, <2>5 DEF IsChan
    <3>8. CASE THead \/ TCq
      <4>1. t' = [H EXCEPT !.state = "T_CQ"] \/ t' = [H EXCEPT !.state = "T_IDX"]
        BY <3>8, Zenon DEF THead, TCq
      <4> HIDE DEF H
      <4> QED BY <4>1, <2>5 DEF IsChan, TStates
    <3>9. CASE TIdx
      <4>1. t' = [H EXCEPT !.prod = Inc(@), !.open = FALSE, !.state = "T_NEXT"]
        BY <3>9, Zenon DEF TIdx
      <4>2. Inc(H.prod) \in Counts
        BY <2>5, IncType DEF IsChan
      <4> HIDE DEF H
      <4> QED BY <4>1, <4>2, <2>5 DEF IsChan, TStates
    <3>10. CASE TNext
      <4>1. \/ t' = [H EXCEPT !.crbdp = DP(t.nbdp), !.done = TRUE, !.state = "T_IDLE"]
            \/ ~ChainEnd /\ t' = [H EXCEPT !.nbdp = DP(t.nbdp), !.ndesc = @ + 1, !.state = "T_DESC"]
        BY <3>10, Zenon DEF TNext
      <4>2. ~ChainEnd => H.ndesc + 1 \in 0 .. NdescMax
        BY <2>6, <1>1, Consts DEF IsChan, ChainEnd
      <4> HIDE DEF H
      <4> QED BY <4>1, <4>2, <2>5, <2>8, ZenonT(40) DEF IsChan, TStates
    <3> QED BY <2>1, <3>1, <3>2, <3>3, <3>4, <3>5, <3>6, <3>7, <3>8, <3>9, <3>10
  <2> QED BY <2>1, <2>9
<1> QED BY <1>2, <1>3

LEMMA ShimStepFacts ==
  ASSUME ShimOk, t.crbdp \in Desc, NEW m, m.op = "nbdp" => m.val \in Desc, NEW rxi, ShimStep(m, rxi), GlueStep
  PROVE  ShimOk'
<1> DEFINE w == Written(m)
           r == Completed(m, w)
           D == {"active", "irq", "req_seq", "done_seq", "req_nbdp", "nbdp"}
<1>1. DOMAIN w = D /\ w.req_seq \in Counts /\ w.done_seq \in Counts /\ w.req_nbdp \in Desc /\ w.nbdp \in Desc
  <2>1. Inc(sh.req_seq) \in Counts
    BY IncType DEF ShimOk
  <2>2. CASE m.op = "ctrl"
    BY <2>1, <2>2 DEF Written, ShimOk
  <2>3. CASE m.op = "nbdp"
    BY <2>3 DEF Written, ShimOk
  <2>4. CASE m.op \notin {"ctrl", "nbdp"}
    BY <2>4 DEF Written, ShimOk
  <2> QED BY <2>2, <2>3, <2>4
<1> HIDE DEF w
<1>2. DOMAIN r = D /\ r.req_seq \in Counts /\ r.done_seq \in Counts /\ r.req_nbdp \in Desc /\ r.nbdp \in Desc
  BY <1>1 DEF Completed, ShimOk
<1>3. sh' = [r EXCEPT !.irq = Irq(m, rxi)]
  BY DEF ShimStep, w
<1> HIDE DEF r
<1>4. /\ DOMAIN gl' = {"seq", "kick", "echo"}
      /\ gl'.seq \in Counts /\ gl'.kick \in Counts /\ gl'.echo \in Counts
  BY DEF GlueStep, ShimOk
<1> QED BY <1>2, <1>3, <1>4 DEF ShimOk

LEMMA ClockStep ==
  ASSUME TxInv, NEW m, m.op = "nbdp" => m.val \in Desc, NEW rsp, NEW rxi, Clock(m, rsp, rxi)
  PROVE  RingOk' /\ ShimOk' /\ IsChan(t') /\ LoadOk' /\ StagingOk' /\ HistoryOk'
<1>1. /\ rsp => acc
      /\ TxChan(rsp) /\ ShimStep(m, rxi) /\ GlueStep
      /\ UNCHANGED <<desc, ld, slot, txprod, cons, sentq>>
  BY DEF Clock
<1>2. IsChan(t') /\ acc' \in BOOLEAN /\ (acc' /\ t'.state = "T_MEM" => acc /\ t.state = "T_MEM" /\ t'.cnt = t.cnt)
  BY <1>1, ChanStep
<1>3. ShimOk'
  BY <1>1, ShimStepFacts DEF TxInv, IsChan
<1>4. RingOk' /\ StagingOk' /\ HistoryOk'
  BY <1>1 DEF TxInv, RingOk, StagingOk, HistoryOk
<1>5. LoadOk'
  BY <1>1, <1>2 DEF TxInv, LoadOk
<1> QED BY <1>2, <1>3, <1>4, <1>5
-----------------------------------------------------------------------------
(* Induction over the naturals, with the set of numbers that have a property in its place, *)
(* and what the recursion over a packet's buffers computes.                                *)

\* A set of naturals has a least element.
LEMMA LeastNat ==
  ASSUME NEW T, T \subseteq Nat, T # {}
  PROVE  \E x \in T : \A y \in T : x <= y
<1> DEFINE R == {p \in Nat \X Nat : p[1] < p[2]}
<1>1. IsWellFoundedOn(R, Nat)
  BY NatLessThanWellFounded DEF OpToRel
<1>2. \A x, y \in Nat : y < x => <<y, x>> \in R
  <2> SUFFICES ASSUME NEW x \in Nat, NEW y \in Nat, y < x
               PROVE  <<y, x>> \in R
    BY Zenon
  <2> DEFINE q == <<y, x>>
  <2>1. q \in Nat \X Nat /\ q[1] = y /\ q[2] = x
    OBVIOUS
  <2>2. q[1] < q[2]
    BY <2>1
  <2> HIDE DEF q
  <2> QED BY <2>1, <2>2, Zenon DEF q
<1>3. \E x \in T : \A y \in T : ~(<<y, x>> \in R)
  BY <1>1, WFMin, Zenon
<1> HIDE DEF R
<1>4. PICK x \in T : \A y \in T : ~(y < x)
  BY <1>2, <1>3, Zenon
<1> QED BY <1>4

\* Induction: a set that holds 0 and with every number its successor holds them all.
LEMMA NatSetInduction ==
  ASSUME NEW S, 0 \in S, \A n \in Nat : n \in S => n + 1 \in S
  PROVE  \A n \in Nat : n \in S
<1> DEFINE T == Nat \ S
<1> SUFFICES ASSUME T # {}
             PROVE  FALSE
  OBVIOUS
<1>1. PICK x \in T : \A y \in T : x <= y
  BY LeastNat
<1>2. x \in Nat /\ x # 0 /\ x - 1 \in Nat /\ x - 1 \in S
  BY <1>1
<1> QED BY <1>1, <1>2

\* the bytes of the first n buffers of a packet
BytesTo(f, n) ==
  LET upto[i \in 0 .. n] == IF i = 0 THEN <<>> ELSE upto[i - 1] \o f[i]
  IN  upto[n]

\* u is the recursive function of BytesTo
Cats(f, n, u) == u = [i \in 0 .. n |-> IF i = 0 THEN <<>> ELSE u[i - 1] \o f[i]]

LEMMA CatsExist ==
  ASSUME NEW f, NEW n \in Nat
  PROVE  \E u : Cats(f, n, u)
<1> DEFINE S == {m \in Nat : \E u : Cats(f, m, u)}
<1>1. 0 \in S
  <2>1. Cats(f, 0, [i \in 0 .. 0 |-> <<>>])
    BY DEF Cats
  <2> QED BY <2>1
<1>2. \A m \in Nat : m \in S => m + 1 \in S
  <2> SUFFICES ASSUME NEW m \in Nat, NEW u, Cats(f, m, u)
               PROVE  \E w : Cats(f, m + 1, w)
    OBVIOUS
  <2> DEFINE w == [i \in 0 .. m + 1 |-> IF i = m + 1 THEN u[m] \o f[m + 1] ELSE u[i]]
  <2>1. \A i \in 0 .. m : u[i] = IF i = 0 THEN <<>> ELSE u[i - 1] \o f[i]
    BY DEF Cats
  <2>2. \A i \in 0 .. m + 1 : w[i] = IF i = 0 THEN <<>> ELSE w[i - 1] \o f[i]
    BY <2>1
  <2>3. w = [i \in 0 .. m + 1 |-> w[i]]
    OBVIOUS
  <2> HIDE DEF w
  <2>4. Cats(f, m + 1, w)
    BY <2>2, <2>3 DEF Cats
  <2> QED BY <2>4
<1> HIDE DEF S
<1>3. \A m \in Nat : m \in S
  BY <1>1, <1>2, NatSetInduction
<1> QED BY <1>3 DEF S

LEMMA CatsAgree ==
  ASSUME NEW f, NEW n \in Nat
  PROVE  \A u, v, k : k \in Nat /\ n <= k /\ Cats(f, n, u) /\ Cats(f, k, v) => u[n] = v[n]
<1> DEFINE A(m) == \A u, v, j, k :
                     j \in Nat /\ k \in Nat /\ m <= j /\ m <= k /\ Cats(f, j, u) /\ Cats(f, k, v)
                       => u[m] = v[m]
           S == {m \in Nat : A(m)}
<1>1. 0 \in S
  <2>1. \A u, j : j \in Nat /\ Cats(f, j, u) => u[0] = <<>>
    BY DEF Cats
  <2>2. A(0)
    BY <2>1
  <2> QED BY <2>2
<1>2. \A m \in Nat : m \in S => m + 1 \in S
  <2> SUFFICES ASSUME NEW m \in Nat, A(m), NEW u, NEW v, NEW j \in Nat, NEW k \in Nat,
                      m + 1 <= j, m + 1 <= k, Cats(f, j, u), Cats(f, k, v)
               PROVE  u[m + 1] = v[m + 1]
    OBVIOUS
  <2>1. u[m] = v[m]
    OBVIOUS
  <2>2. \A w, i : i \in Nat /\ m + 1 <= i /\ Cats(f, i, w) => w[m + 1] = w[m] \o f[m + 1]
    <3> SUFFICES ASSUME NEW w, NEW i \in Nat, m + 1 <= i, Cats(f, i, w)
                 PROVE  w[m + 1] = w[m] \o f[m + 1]
      OBVIOUS
    <3>1. \A x \in 0 .. i : w[x] = IF x = 0 THEN <<>> ELSE w[x - 1] \o f[x]
      BY DEF Cats
    <3>2. m + 1 \in 0 .. i /\ m + 1 # 0 /\ (m + 1) - 1 = m
      OBVIOUS
    <3> QED BY <3>1, <3>2
  <2> QED BY <2>1, <2>2
<1> HIDE DEF S
<1>3. \A m \in Nat : m \in S
  BY <1>1, <1>2, NatSetInduction
<1> QED BY <1>3 DEF S

\* What the recursion computes: one buffer after the other.
LEMMA BytesToFacts ==
  ASSUME NEW f
  PROVE  /\ BytesTo(f, 0) = <<>>
         /\ \A n \in Nat : BytesTo(f, n + 1) = BytesTo(f, n) \o f[n + 1]
<1>1. \A n \in Nat : \E u : Cats(f, n, u) /\ BytesTo(f, n) = u[n]
  <2> TAKE n \in Nat
  <2> DEFINE u == CHOOSE u : Cats(f, n, u)
  <2>1. Cats(f, n, u)
    BY CatsExist
  <2>2. BytesTo(f, n) = u[n]
    BY DEF BytesTo, Cats
  <2> QED BY <2>1, <2>2
<1>2. BytesTo(f, 0) = <<>>
  <2>1. PICK u : Cats(f, 0, u) /\ BytesTo(f, 0) = u[0]
    BY <1>1
  <2> QED BY <2>1 DEF Cats
<1>3. ASSUME NEW n \in Nat PROVE BytesTo(f, n + 1) = BytesTo(f, n) \o f[n + 1]
  <2>1. PICK u : Cats(f, n, u) /\ BytesTo(f, n) = u[n]
    BY <1>1
  <2>2. PICK v : Cats(f, n + 1, v) /\ BytesTo(f, n + 1) = v[n + 1]
    BY <1>1
  <2>3. u[n] = v[n]
    BY <2>1, <2>2, CatsAgree
  <2>4. v[n + 1] = v[n] \o f[n + 1]
    <3>1. \A i \in 0 .. n + 1 : v[i] = IF i = 0 THEN <<>> ELSE v[i - 1] \o f[i]
      BY <2>2 DEF Cats
    <3>2. n + 1 \in 0 .. n + 1 /\ n + 1 # 0 /\ (n + 1) - 1 = n
      OBVIOUS
    <3> QED BY <3>1, <3>2
  <2> QED BY <2>1, <2>2, <2>3, <2>4
<1> QED BY <1>2, <1>3

LEMMA BytesType ==
  ASSUME NEW f, NEW n \in Nat, \A i \in 1 .. n : f[i] \in Seq(Byte)
  PROVE  \A m \in 0 .. n : BytesTo(f, m) \in Seq(Byte)
<1> DEFINE S == {m \in Nat : m <= n => BytesTo(f, m) \in Seq(Byte)}
<1>1. 0 \in S
  <2>1. BytesTo(f, 0) = <<>> /\ <<>> \in Seq(Byte)
    BY BytesToFacts
  <2> QED BY <2>1
<1>2. \A m \in Nat : m \in S => m + 1 \in S
  <2> SUFFICES ASSUME NEW m \in Nat, m + 1 <= n, BytesTo(f, m) \in Seq(Byte)
               PROVE  BytesTo(f, m + 1) \in Seq(Byte)
    OBVIOUS
  <2>1. m + 1 \in 1 .. n
    OBVIOUS
  <2>2. f[m + 1] \in Seq(Byte)
    BY <2>1, Zenon
  <2>3. BytesTo(f, m + 1) = BytesTo(f, m) \o f[m + 1]
    BY BytesToFacts, Zenon
  <2>4. BytesTo(f, m) \o f[m + 1] \in Seq(Byte)
    BY <2>2, ConcatProperties, Zenon
  <2> QED BY <2>3, <2>4
<1> HIDE DEF S
<1>3. \A m \in Nat : m \in S
  BY <1>1, <1>2, NatSetInduction
<1> QED BY <1>3 DEF S

-----------------------------------------------------------------------------
(* The driver *)

\* Walking from one descriptor of the ring reaches every other.
LEMMA RingWalk ==
  ASSUME NEW a \in Desc, NEW b \in Desc
  PROVE  \E k \in 0 .. NDesc - 1 : (a + k) % NDesc = b
<1>1. NDesc \in Nat /\ NDesc > 0 /\ a \in 0 .. NDesc - 1 /\ b \in 0 .. NDesc - 1
  BY Consts DEF Desc
<1>2. CASE a <= b
  <2>1. b - a \in 0 .. NDesc - 1 /\ a + (b - a) = b /\ b % NDesc = b
    BY <1>1, <1>2
  <2> QED BY <2>1
<1>3. CASE b < a
  <2> DEFINE k == NDesc + b - a
  <2>1. k \in 0 .. NDesc - 1 /\ a + k = NDesc + b
    BY <1>1, <1>3
  <2>2. (NDesc + b) % NDesc = b
    BY <1>1
  <2> QED BY <2>1, <2>2
<1> QED BY <1>1, <1>2, <1>3

\* The driver's walk for the first unsent descriptor ends: at the tail at the latest.
LEMMA FirstUnsentType ==
  ASSUME DriverOk
  PROVE  FirstUnsent \in Desc
<1> DEFINE at(k) == (g.old + k) % NDesc
           Stop(k) == ~desc[at(k)].etxd \/ at(k) = g.tail
           T == {k \in 0 .. NDesc - 1 : Stop(k)}
           First(k) == Stop(k) /\ \A j \in 0 .. k - 1 : desc[at(j)].etxd /\ at(j) # g.tail
           k0 == CHOOSE k \in 0 .. NDesc - 1 : First(k)
<1>1. g.old \in Desc /\ g.tail \in Desc /\ NDesc \in Nat
  BY Consts DEF DriverOk
<1>2. T # {} /\ T \subseteq Nat
  <2>1. \E k \in 0 .. NDesc - 1 : (g.old + k) % NDesc = g.tail
    BY <1>1, RingWalk
  <2> QED BY <2>1, <1>1
<1> HIDE DEF Stop
<1>3. PICK x \in T : \A y \in T : x <= y
  BY <1>2, LeastNat
<1>4. x \in 0 .. NDesc - 1 /\ Stop(x) /\ \A j \in 0 .. x - 1 : ~Stop(j)
  BY <1>1, <1>3
<1>5. \A j : ~Stop(j) => desc[at(j)].etxd /\ at(j) # g.tail
  BY DEF Stop
<1>6. First(x)
  BY <1>4, <1>5
<1>7. k0 \in 0 .. NDesc - 1
  BY <1>4, <1>6
<1>8. FirstUnsent = at(k0)
  BY DEF FirstUnsent, Stop
<1> HIDE DEF k0
<1>9. g.old + k0 \in Int
  BY <1>1, <1>7 DEF Desc
<1> QED BY <1>8, <1>9, RingIndex

\* A driver's step that only moves its program counter.
LEMMA PcStep ==
  ASSUME DriverOk, NEW p \in {"idle", "check", "nbdp", "ctrl", "status", "bound", "reap"},
         g' = [g EXCEPT !.pc = p]
  PROVE  DriverOk'
BY DEF DriverOk
\* The frame of a packet, buffer by buffer.
LEMMA FrameType ==
  ASSUME NEW s \in Shapes, NEW p \in Nat
  PROVE  /\ Len(Frame(p, s)) = Len(s) /\ Len(s) \in 1 .. NDesc - 1
         /\ \A i \in 1 .. Len(s) : Frame(p, s)[i] \in Seq(Byte) /\ s[i].off \in Nat
         /\ FlattenFrame(Frame(p, s)) \in Seq(Byte)
<1> DEFINE f == Frame(p, s)
           n == Len(s)
<1>1. n \in 1 .. NDesc - 1 /\ n \in Nat /\ \A i \in 1 .. n : s[i].off \in Nat /\ s[i].len \in Nat
  <2> DEFINE B == [off : 0 .. Lanes - 1, len : Nat]
  <2>1. s \in Seq(B) /\ n \in 1 .. NDesc - 1
    BY TxConstants
  <2>2. \A i \in 1 .. n : s[i] \in B
    <3> HIDE DEF B
    <3> QED BY <2>1, LenProperties
  <2>3. \A b \in B : b.off \in Nat /\ b.len \in Nat
    BY Consts
  <2>4. NDesc \in Nat
    BY Consts
  <2> HIDE DEF B
  <2> QED BY <2>1, <2>2, <2>3, <2>4
<1>2. f = [i \in 1 .. n |-> [j \in 1 .. s[i].len |-> <<p, 10 * i + j>>]]
  BY DEF Frame
<1> HIDE DEF n
<1>3. \A i \in 1 .. n : f[i] \in Seq(Byte)
  <2> TAKE i \in 1 .. n
  <2> DEFINE b == [j \in 1 .. s[i].len |-> <<p, 10 * i + j>>]
  <2>1. s[i].len \in Nat /\ i \in Nat
    BY <1>1
  <2>2. \A j \in 1 .. s[i].len : <<p, 10 * i + j>> \in Byte
    BY <2>1 DEF Byte
  <2>3. b \in [1 .. s[i].len -> Byte]
    BY <2>2
  <2>4. f[i] = b
    BY <1>2
  <2> HIDE DEF b
  <2> QED BY <2>1, <2>3, <2>4
<1>4. Len(f) = n
  BY <1>1, <1>2
<1> HIDE DEF f
<1>5. FlattenFrame(f) = BytesTo(f, n)
  BY <1>4 DEF FlattenFrame, BytesTo
<1>6. BytesTo(f, n) \in Seq(Byte)
  <2>1. \A m \in 0 .. n : BytesTo(f, m) \in Seq(Byte)
    BY <1>1, <1>3, BytesType
  <2> QED BY <2>1, <1>1
<1> QED BY <1>1, <1>3, <1>4, <1>5, <1>6 DEF f, n

LEMMA QueueStep ==
  ASSUME TxInv, NEW s \in Shapes, GuestQueue(s)
  PROVE  TxInv'
<1> DEFINE p == Len(sentq) + 1
           f == Frame(p, s)
           n == Len(s)
           pos(d) == ((d - g.tail) % NDesc) + 1
           fill(d) == [eox |-> pos(d) = n, eoxp |-> pos(d) = n, etxd |-> FALSE,
                       off |-> s[pos(d)].off, buf |-> f[pos(d)]]
           new == [head |-> g.tail, n |-> n]
<1>1. /\ desc' = [d \in Desc |-> IF pos(d) <= n THEN fill(d) ELSE desc[d]]
      /\ g' = [g EXCEPT !.tail = (@ + n) % NDesc, !.inflight = Append(@, new),
                        !.pc = IF g.old = g.tail THEN "check" ELSE "append"]
      /\ sentq' = Append(sentq, FlattenFrame(f))
      /\ UNCHANGED <<sh, gl, t, acc, ld, staging, cons>>
  BY DEF GuestQueue
<1>2. sentq \in Seq(Seq(Byte)) /\ p \in Nat
  BY DEF TxInv, HistoryOk
<1>3. g.tail \in Desc /\ NDesc \in Nat /\ NDesc > 0
  BY Consts DEF TxInv, DriverOk
<1> HIDE DEF p
<1>4. /\ n \in 1 .. NDesc - 1 /\ FlattenFrame(f) \in Seq(Byte)
      /\ \A i \in 1 .. n : f[i] \in Seq(Byte) /\ s[i].off \in Nat
  BY <1>2, FrameType
<1> HIDE DEF f, n
<1>5. \A d \in Desc : pos(d) \in Nat /\ pos(d) >= 1
  BY <1>3 DEF Desc
<1> HIDE DEF pos
<1>6. \A d \in Desc : pos(d) <= n => IsDesc(fill(d))
  <2> SUFFICES ASSUME NEW d \in Desc, pos(d) <= n
               PROVE  IsDesc(fill(d))
    OBVIOUS
  <2>1. pos(d) \in 1 .. n
    BY <1>4, <1>5
  <2>2. f[pos(d)] \in Seq(Byte) /\ s[pos(d)].off \in Nat
    BY <1>4, <2>1
  <2> QED BY <2>2 DEF IsDesc
<1> HIDE DEF fill
<1>7. RingOk'
  BY <1>1, <1>6 DEF RingOk, TxInv
<1>8. HistoryOk'
  BY <1>1, <1>2, <1>4 DEF HistoryOk
<1>9. DriverOk'
  <2>0. g.tail + n \in Int
    BY <1>3, <1>4 DEF Desc
  <2>1. (g.tail + n) % NDesc \in Desc
    BY <2>0, RingIndex
  <2>2. new \in Packets
    BY <1>3, <1>4 DEF Packets
  <2>3. /\ DOMAIN g' = DOMAIN g /\ g'.tail = (g.tail + n) % NDesc /\ g'.inflight = Append(g.inflight, new)
        /\ g'.old = g.old /\ g'.bound = g.bound /\ g'.pc \in {"check", "append"}
    BY <1>1 DEF TxInv, DriverOk
  <2> HIDE DEF new
  <2>4. g'.inflight \in Seq(Packets) /\ g'.inflight # <<>>
    <3>1. g.inflight \in Seq(Packets)
      BY DEF TxInv, DriverOk
    <3> QED BY <2>2, <2>3, <3>1, AppendProperties
  <2> QED BY <2>1, <2>3, <2>4 DEF TxInv, DriverOk
<1>10. ShimOk' /\ IsChan(t') /\ LoadOk' /\ StagingOk'
  BY <1>1 DEF TxInv, ShimOk, LoadOk, StagingOk, staging
<1> QED BY <1>7, <1>8, <1>9, <1>10 DEF TxInv

LEMMA AppendStep == TxInv /\ GuestAppend => TxInv'
<1> SUFFICES ASSUME TxInv, GuestAppend
             PROVE  TxInv'
  OBVIOUS
<1> DEFINE q == g.inflight[Len(g.inflight)]
           last == (q.head - 1) % NDesc
<1>1. /\ g.pc = "append" /\ desc' = [desc EXCEPT ![last].eox = FALSE] /\ g' = [g EXCEPT !.pc = "check"]
      /\ UNCHANGED <<sh, gl, t, acc, ld, staging, cons, sentq>>
  BY DEF GuestAppend
<1>2. q.head \in Desc
  <2>1. g.inflight \in Seq(Packets) /\ g.inflight # <<>>
    BY <1>1 DEF TxInv, DriverOk
  <2>2. Len(g.inflight) \in 1 .. Len(g.inflight)
    BY <2>1, EmptySeq
  <2>3. q \in Packets
    BY <2>1, <2>2, LenProperties
  <2> QED BY <2>3 DEF Packets
<1> HIDE DEF q
<1>3. q.head - 1 \in Int
  BY <1>2, Consts DEF Desc
<1>4. last \in Desc
  BY <1>3, RingIndex
<1> HIDE DEF last
<1>5. RingOk'
  <2>1. IsDesc(desc[last]) /\ DOMAIN desc = Desc
    BY <1>4 DEF TxInv, RingOk
  <2>2. IsDesc([desc[last] EXCEPT !.eox = FALSE])
    BY <2>1 DEF IsDesc
  <2>3. DOMAIN desc' = Desc /\ \A d \in Desc : desc'[d] = IF d = last THEN [desc[last] EXCEPT !.eox = FALSE] ELSE desc[d]
    BY <1>1, <1>4, <2>1
  <2> QED BY <2>2, <2>3 DEF TxInv, RingOk
<1>6. DriverOk'
  BY <1>1, PcStep DEF TxInv
<1>7. ShimOk' /\ IsChan(t') /\ LoadOk' /\ StagingOk' /\ HistoryOk'
  BY <1>1 DEF TxInv, ShimOk, LoadOk, StagingOk, HistoryOk, staging
<1> QED BY <1>5, <1>6, <1>7 DEF TxInv

LEMMA ReadStep == TxInv /\ (GuestCheck \/ GuestStatus \/ GuestBound) => TxInv'
<1> SUFFICES ASSUME TxInv, GuestCheck \/ GuestStatus \/ GuestBound
             PROVE  TxInv'
  OBVIOUS
<1>1. UNCHANGED <<desc, sh, gl, t, acc, ld, staging, cons, sentq>>
  BY DEF GuestCheck, GuestStatus, GuestBound
<1>2. DriverOk /\ t.crbdp \in Desc /\ sh.nbdp \in Desc
  BY DEF TxInv, IsChan, ShimOk
<1>3. DriverOk'
  <2>1. CASE GuestCheck
    BY <1>2, <2>1 DEF GuestCheck, DriverOk
  <2>2. CASE GuestStatus
    BY <1>2, <2>2 DEF GuestStatus, DriverOk
  <2>3. CASE GuestBound
    BY <1>2, <2>3 DEF GuestBound, DriverOk
  <2> QED BY <2>1, <2>2, <2>3
<1>4. RingOk' /\ ShimOk' /\ IsChan(t') /\ LoadOk' /\ StagingOk' /\ HistoryOk'
  BY <1>1 DEF TxInv, RingOk, ShimOk, LoadOk, StagingOk, HistoryOk, staging
<1> QED BY <1>3, <1>4 DEF TxInv

LEMMA ReapStep == TxInv /\ GuestReap => TxInv'
<1> SUFFICES ASSUME TxInv, GuestReap
             PROVE  TxInv'
  OBVIOUS
<1>1. UNCHANGED <<sh, gl, t, acc, ld, staging, cons, sentq>>
  BY DEF GuestReap
<1>2. ShimOk' /\ IsChan(t') /\ LoadOk' /\ StagingOk' /\ HistoryOk'
  BY <1>1 DEF TxInv, ShimOk, LoadOk, StagingOk, HistoryOk, staging
<1>3. CASE Reapable
  <2> DEFINE q == g.inflight[1]
             junk(d) == [NoDesc EXCEPT !.buf = [i \in 1 .. Len(desc[d].buf) |-> Junk]]
  <2>1. /\ desc' = [d \in Desc |-> IF (d - q.head) % NDesc < q.n THEN junk(d) ELSE desc[d]]
        /\ g' = [g EXCEPT !.inflight = Tail(@), !.old = (@ + q.n) % NDesc]
    BY <1>3 DEF GuestReap
  <2>2. g.inflight \in Seq(Packets) /\ g.inflight # <<>>
    BY <1>3 DEF TxInv, DriverOk, Reapable
  <2>3. q \in Packets /\ Tail(g.inflight) \in Seq(Packets)
    <3>1. 1 \in 1 .. Len(g.inflight)
      BY <2>2, EmptySeq
    <3> QED BY <2>2, <3>1, LenProperties, HeadTailProperties
  <2>4. \A d \in Desc : IsDesc(junk(d))
    <3> TAKE d \in Desc
    <3> DEFINE b == [i \in 1 .. Len(desc[d].buf) |-> Junk]
    <3>1. desc[d].buf \in Seq(Byte)
      BY DEF TxInv, RingOk, IsDesc
    <3>2. Junk \in Byte
      BY DEF Junk, Byte
    <3>3. Len(desc[d].buf) \in Nat
      BY <3>1, LenProperties
    <3>4. b \in Seq(Byte)
      BY <3>2, <3>3
    <3> HIDE DEF b
    <3>5. junk(d) = [NoDesc EXCEPT !.buf = b]
      BY DEF b
    <3> QED BY <3>4, <3>5 DEF NoDesc, IsDesc
  <2>5. RingOk'
    <3> HIDE DEF junk, q
    <3>1. DOMAIN desc' = Desc /\ \A d \in Desc : desc'[d] \in {junk(d), desc[d]}
      BY <2>1
    <3> QED BY <2>4, <3>1 DEF TxInv, RingOk
  <2>6. (g.old + q.n) % NDesc \in Desc
    <3>1. g.old \in Nat /\ q.n \in Nat
      BY <2>3, Consts DEF TxInv, DriverOk, Packets, Desc
    <3>2. g.old + q.n \in Int
      BY <3>1
    <3> QED BY <3>2, RingIndex
  <2>7. DriverOk'
    <3>1. /\ DOMAIN g' = DOMAIN g /\ g'.inflight = Tail(g.inflight) /\ g'.old = (g.old + q.n) % NDesc
          /\ g'.tail = g.tail /\ g'.bound = g.bound /\ g'.pc = g.pc
      BY <2>1 DEF TxInv, DriverOk
    <3>2. g.pc = "reap"
      BY DEF GuestReap
    <3> HIDE DEF q
    <3> QED BY <2>3, <2>6, <3>1, <3>2 DEF TxInv, DriverOk
  <2> QED BY <1>2, <2>5, <2>7 DEF TxInv
<1>4. CASE ~Reapable
  <2>1. /\ desc' = desc
        /\ g' = [g EXCEPT !.pc = IF g.inflight # <<>> /\ ~g.stat THEN "nbdp" ELSE "idle",
                           !.stat = FALSE, !.bound = 0]
    BY <1>4 DEF GuestReap
  <2>2. 0 \in Desc
    BY Consts DEF Desc
  <2>3. /\ DOMAIN g' = DOMAIN g /\ g'.inflight = g.inflight /\ g'.old = g.old
        /\ g'.tail = g.tail /\ g'.bound = 0 /\ g'.pc \in {"nbdp", "idle"}
    BY <2>1 DEF TxInv, DriverOk
  <2>4. DriverOk'
    BY <2>2, <2>3 DEF TxInv, DriverOk
  <2>5. RingOk'
    BY <2>1 DEF TxInv, RingOk
  <2> QED BY <1>2, <2>4, <2>5 DEF TxInv
<1> QED BY <1>3, <1>4

LEMMA ArmStep == TxInv /\ ArmConsume => TxInv'
<1> SUFFICES ASSUME TxInv, ArmConsume
             PROVE  TxInv'
  OBVIOUS
<1>1. cons' = Inc(cons) /\ UNCHANGED <<desc, g, sh, gl, t, acc, ld, staging, sentq>>
  BY DEF ArmConsume
<1>2. cons' \in Counts
  BY <1>1, IncType DEF TxInv, StagingOk
<1>3. RingOk' /\ DriverOk' /\ ShimOk' /\ IsChan(t') /\ LoadOk' /\ HistoryOk'
  BY <1>1 DEF TxInv, RingOk, DriverOk, ShimOk, LoadOk, HistoryOk
<1>4. StagingOk'
  BY <1>1, <1>2 DEF TxInv, StagingOk, staging
<1> QED BY <1>3, <1>4 DEF TxInv

LEMMA NextTx == TxInv /\ [Next]_vars => TxInv'
<1> SUFFICES ASSUME TxInv, [Next]_vars
             PROVE  TxInv'
  OBVIOUS
<1>0. DriverOk
  BY DEF TxInv
<1>1. CASE Mem
  BY <1>1, MemStep
<1>2. ASSUME NEW rsp \in BOOLEAN, NEW rxi \in BOOLEAN, Idle(rsp, rxi)
      PROVE  TxInv'
  <2>1. Clock(NoMmio, rsp, rxi) /\ g' = g /\ NoMmio.op # "nbdp"
    BY <1>2 DEF Idle, NoMmio
  <2>2. DriverOk'
    BY <1>0, <2>1 DEF DriverOk
  <2> QED BY <2>1, <2>2, ClockStep DEF TxInv
<1>3. ASSUME NEW rsp \in BOOLEAN, NEW rxi \in BOOLEAN, GuestIsr(rsp, rxi)
      PROVE  TxInv'
  <2> DEFINE m == [op |-> "clrirq", val |-> 0]
  <2>1. Clock(m, rsp, rxi) /\ g' = [g EXCEPT !.pc = "status"] /\ m.op # "nbdp"
    BY <1>3 DEF GuestIsr
  <2>2. DriverOk'
    BY <1>0, <2>1, PcStep
  <2> HIDE DEF m
  <2> QED BY <2>1, <2>2, ClockStep DEF TxInv
<1>4. ASSUME NEW rsp \in BOOLEAN, GuestNbdp(rsp)
      PROVE  TxInv'
  <2> DEFINE m == [op |-> "nbdp", val |-> FirstUnsent]
  <2>1. \/ g' = [g EXCEPT !.pc = "idle"] /\ Clock(NoMmio, rsp, FALSE)
        \/ g' = [g EXCEPT !.pc = "ctrl"] /\ Clock(m, rsp, FALSE)
    BY <1>4 DEF GuestNbdp
  <2>2. DriverOk'
    BY <1>0, <2>1, PcStep
  <2>3. NoMmio.op # "nbdp" /\ m.val \in Desc
    BY <1>0, FirstUnsentType DEF NoMmio
  <2> HIDE DEF m
  <2> QED BY <2>1, <2>2, <2>3, ClockStep DEF TxInv
<1>5. ASSUME NEW rsp \in BOOLEAN, GuestKick(rsp)
      PROVE  TxInv'
  <2> DEFINE m == [op |-> "ctrl", val |-> 0]
  <2>1. Clock(m, rsp, FALSE) /\ g' = [g EXCEPT !.pc = "idle"] /\ m.op # "nbdp"
    BY <1>5 DEF GuestKick
  <2>2. DriverOk'
    BY <1>0, <2>1, PcStep
  <2> HIDE DEF m
  <2> QED BY <2>1, <2>2, ClockStep DEF TxInv
<1>6. ASSUME NEW s \in Shapes, GuestQueue(s)
      PROVE  TxInv'
  BY <1>6, QueueStep
<1>7. CASE GuestAppend \/ GuestCheck \/ GuestStatus \/ GuestBound \/ GuestReap \/ ArmConsume
  BY <1>7, AppendStep, ReadStep, ReapStep, ArmStep
<1>8. CASE UNCHANGED vars
  BY <1>8 DEF vars, TxInv, RingOk, DriverOk, ShimOk, LoadOk, StagingOk, HistoryOk, staging
<1> QED BY <1>1, <1>2, <1>3, <1>4, <1>5, <1>6, <1>7, <1>8 DEF Next

LEMMA TxAlways == Spec => []TxInv
BY InitTx, NextTx, PTL DEF Spec

\* Registers, rings and drivers stay in their types for every size of ring, slot and beat, all
\* packets and every interleaving of clock, DRAM, guest and ARM: the gather register never
\* holds a whole beat, a slot is never written past its end, the descriptor count stops at its
\* limit and the free-running indices wrap.
THEOREM TxTypes == Spec => []TypeOK
<1>1. TxInv => TypeOK
  <2> SUFFICES ASSUME TxInv
               PROVE  TypeOK
    OBVIOUS
  <2>1. \A d \in Desc : desc[d].eox \in BOOLEAN /\ desc[d].eoxp \in BOOLEAN /\ desc[d].etxd \in BOOLEAN
    BY DEF TxInv, RingOk, IsDesc
  <2>2. /\ g.tail \in Desc /\ g.old \in Desc /\ g.bound \in Desc
        /\ g.pc \in {"idle", "append", "check", "nbdp", "ctrl", "status", "bound", "reap"}
    BY DEF TxInv, DriverOk
  <2>3. /\ t.state \in TStates /\ t.nbdp \in Desc /\ t.crbdp \in Desc /\ t.first \in Desc
        /\ t.soff \in 0 .. SlotBeats /\ t.ndesc \in 0 .. NdescMax /\ Len(t.hold) < Lanes
    BY DEF TxInv, IsChan
  <2>4. {t.prod, txprod, cons, sh.req_seq, sh.done_seq, gl.seq, gl.kick, gl.echo} \subseteq 0 .. CntMod - 1
    BY DEF TxInv, IsChan, StagingOk, ShimOk, Counts
  <2>5. \A i \in 0 .. NSlot - 1 : Len(slot[i]) <= SlotBeats * Lanes
    BY DEF TxInv, StagingOk, Slots
  <2> QED BY <2>1, <2>2, <2>3, <2>4, <2>5 DEF TypeOK
<1> QED BY <1>1, TxAlways, PTL
-----------------------------------------------------------------------------
(* The steps of the channel, field by field, and the handshake of kick, echo and completion *)

\* nothing happens but the end of a done pulse
Stay ==
  /\ acc' = acc /\ ~t'.done
  /\ t'.state = t.state /\ t'.nbdp = t.nbdp /\ t'.eox = t.eox /\ t'.eoxp = t.eoxp
  /\ t'.bp = t.bp /\ t'.cnt = t.cnt /\ t'.open = t.open /\ t'.len = t.len
  /\ t'.soff = t.soff /\ t'.trunc = t.trunc /\ t'.first = t.first /\ t'.prod = t.prod
  /\ t'.ndesc = t.ndesc /\ t'.crbdp = t.crbdp /\ t'.hold = t.hold /\ t'.beat = t.beat

\* a kick starts a chain
MvIdle ==
  /\ t.state = "T_IDLE"
  /\ acc' = FALSE /\ ~t'.done
  /\ t'.state = "T_DESC"
  /\ t'.nbdp = sh.req_nbdp
  /\ ~t'.open
  /\ t'.ndesc = 0
  /\ t'.hold = <<>>
  /\ t'.eox = t.eox /\ t'.eoxp = t.eoxp /\ t'.bp = t.bp /\ t'.cnt = t.cnt
  /\ t'.len = t.len /\ t'.soff = t.soff /\ t'.trunc = t.trunc /\ t'.first = t.first
  /\ t'.prod = t.prod /\ t'.crbdp = t.crbdp /\ t'.beat = t.beat

\* the descriptor is loaded
MvDesc ==
  /\ t.state = "T_DESC" /\ acc
  /\ acc' = FALSE /\ ~t'.done
  /\ t'.state = IF ~t.open THEN "T_SLOT" ELSE AfterBeat(Len(ld.desc.buf))
  /\ t'.eox = ld.desc.eox
  /\ t'.eoxp = ld.desc.eoxp
  /\ t'.bp = 0
  /\ t'.cnt = Len(ld.desc.buf)
  /\ t'.nbdp = t.nbdp /\ t'.open = t.open /\ t'.len = t.len /\ t'.soff = t.soff
  /\ t'.trunc = t.trunc /\ t'.first = t.first /\ t'.prod = t.prod /\ t'.ndesc = t.ndesc
  /\ t'.crbdp = t.crbdp /\ t'.hold = t.hold /\ t'.beat = t.beat

\* a slot is free
MvSlot ==
  /\ t.state = "T_SLOT" /\ Diff(t.prod, cons) < NSlot
  /\ acc' = FALSE /\ ~t'.done
  /\ t'.state = AfterBeat(t.cnt)
  /\ t'.open
  /\ t'.len = 0
  /\ t'.soff = 0
  /\ ~t'.trunc
  /\ t'.first = t.nbdp
  /\ t'.crbdp = t.nbdp
  /\ t'.nbdp = t.nbdp /\ t'.eox = t.eox /\ t'.eoxp = t.eoxp /\ t'.bp = t.bp
  /\ t'.cnt = t.cnt /\ t'.prod = t.prod /\ t'.ndesc = t.ndesc /\ t'.hold = t.hold
  /\ t'.beat = t.beat

\* bytes of a line arrive
MvMem ==
  /\ t.state = "T_MEM" /\ acc
  /\ acc' = FALSE /\ ~t'.done
  /\ t'.state = IF Len(t.hold \o ld.bytes) >= Lanes THEN "T_PUT" ELSE AfterBeat(t.cnt - Len(ld.bytes))
  /\ t'.bp = t.bp + Len(ld.bytes)
  /\ t'.cnt = t.cnt - Len(ld.bytes)
  /\ t'.len = t.len + Len(ld.bytes)
  /\ t'.hold = IF Len(t.hold \o ld.bytes) >= Lanes
              THEN SubSeq(t.hold \o ld.bytes, Lanes + 1, Len(t.hold \o ld.bytes)) ELSE t.hold \o ld.bytes
  /\ t'.beat = IF Len(t.hold \o ld.bytes) >= Lanes THEN SubSeq(t.hold \o ld.bytes, 1, Lanes) ELSE t.beat
  /\ t'.nbdp = t.nbdp /\ t'.eox = t.eox /\ t'.eoxp = t.eoxp /\ t'.open = t.open
  /\ t'.soff = t.soff /\ t'.trunc = t.trunc /\ t'.first = t.first /\ t'.prod = t.prod
  /\ t'.ndesc = t.ndesc /\ t'.crbdp = t.crbdp

\* a beat is stored, or dropped
MvPut ==
  /\ t.state = "T_PUT" /\ (t.soff # SlotBeats => acc)
  /\ acc' = FALSE /\ ~t'.done
  /\ t'.state = AfterBeat(t.cnt)
  /\ t'.soff = IF t.soff = SlotBeats THEN t.soff ELSE t.soff + 1
  /\ t'.trunc = IF t.soff = SlotBeats THEN TRUE ELSE t.trunc
  /\ t'.nbdp = t.nbdp /\ t'.eox = t.eox /\ t'.eoxp = t.eoxp /\ t'.bp = t.bp
  /\ t'.cnt = t.cnt /\ t'.open = t.open /\ t'.len = t.len /\ t'.first = t.first
  /\ t'.prod = t.prod /\ t'.ndesc = t.ndesc /\ t'.crbdp = t.crbdp /\ t'.hold = t.hold
  /\ t'.beat = t.beat

\* the descriptor is marked
MvBcwb ==
  /\ t.state = "T_BCWB" /\ (t.nbdp # t.first => acc)
  /\ acc' = FALSE /\ ~t'.done
  /\ t'.state = IF PacketEnd THEN "T_FLUSH" ELSE "T_NEXT"
  /\ t'.nbdp = t.nbdp /\ t'.eox = t.eox /\ t'.eoxp = t.eoxp /\ t'.bp = t.bp
  /\ t'.cnt = t.cnt /\ t'.open = t.open /\ t'.len = t.len /\ t'.soff = t.soff
  /\ t'.trunc = t.trunc /\ t'.first = t.first /\ t'.prod = t.prod /\ t'.ndesc = t.ndesc
  /\ t'.crbdp = t.crbdp /\ t'.hold = t.hold /\ t'.beat = t.beat

\* the last partial beat is stored, or dropped
MvFlush ==
  /\ t.state = "T_FLUSH" /\ (t.hold # <<>> /\ t.soff # SlotBeats => acc)
  /\ acc' = FALSE /\ ~t'.done
  /\ t'.state = "T_HEAD"
  /\ t'.trunc <=> t.trunc \/ (t.hold # <<>> /\ t.soff = SlotBeats)
  /\ t'.hold = <<>>
  /\ t'.nbdp = t.nbdp /\ t'.eox = t.eox /\ t'.eoxp = t.eoxp /\ t'.bp = t.bp
  /\ t'.cnt = t.cnt /\ t'.open = t.open /\ t'.len = t.len /\ t'.soff = t.soff
  /\ t'.first = t.first /\ t'.prod = t.prod /\ t'.ndesc = t.ndesc /\ t'.crbdp = t.crbdp
  /\ t'.beat = t.beat

\* the head is marked
MvHead ==
  /\ t.state = "T_HEAD" /\ acc
  /\ acc' = FALSE /\ ~t'.done
  /\ t'.state = "T_CQ"
  /\ t'.nbdp = t.nbdp /\ t'.eox = t.eox /\ t'.eoxp = t.eoxp /\ t'.bp = t.bp
  /\ t'.cnt = t.cnt /\ t'.open = t.open /\ t'.len = t.len /\ t'.soff = t.soff
  /\ t'.trunc = t.trunc /\ t'.first = t.first /\ t'.prod = t.prod /\ t'.ndesc = t.ndesc
  /\ t'.crbdp = t.crbdp /\ t'.hold = t.hold /\ t'.beat = t.beat

\* the completion is written
MvCq ==
  /\ t.state = "T_CQ" /\ acc
  /\ acc' = FALSE /\ ~t'.done
  /\ t'.state = "T_IDX"
  /\ t'.nbdp = t.nbdp /\ t'.eox = t.eox /\ t'.eoxp = t.eoxp /\ t'.bp = t.bp
  /\ t'.cnt = t.cnt /\ t'.open = t.open /\ t'.len = t.len /\ t'.soff = t.soff
  /\ t'.trunc = t.trunc /\ t'.first = t.first /\ t'.prod = t.prod /\ t'.ndesc = t.ndesc
  /\ t'.crbdp = t.crbdp /\ t'.hold = t.hold /\ t'.beat = t.beat

\* the index is published
MvIdx ==
  /\ t.state = "T_IDX" /\ acc
  /\ acc' = FALSE /\ ~t'.done
  /\ t'.state = "T_NEXT"
  /\ ~t'.open
  /\ t'.prod = Inc(t.prod)
  /\ t'.nbdp = t.nbdp /\ t'.eox = t.eox /\ t'.eoxp = t.eoxp /\ t'.bp = t.bp
  /\ t'.cnt = t.cnt /\ t'.len = t.len /\ t'.soff = t.soff /\ t'.trunc = t.trunc
  /\ t'.first = t.first /\ t'.ndesc = t.ndesc /\ t'.crbdp = t.crbdp /\ t'.hold = t.hold
  /\ t'.beat = t.beat

\* the chain ends
MvEnd ==
  /\ t.state = "T_NEXT" /\ ChainEnd
  /\ acc' = FALSE /\ t'.done
  /\ t'.state = "T_IDLE"
  /\ t'.crbdp = DP(t.nbdp)
  /\ t'.nbdp = t.nbdp /\ t'.eox = t.eox /\ t'.eoxp = t.eoxp /\ t'.bp = t.bp
  /\ t'.cnt = t.cnt /\ t'.open = t.open /\ t'.len = t.len /\ t'.soff = t.soff
  /\ t'.trunc = t.trunc /\ t'.first = t.first /\ t'.prod = t.prod /\ t'.ndesc = t.ndesc
  /\ t'.hold = t.hold /\ t'.beat = t.beat

\* the chain goes on
MvOn ==
  /\ t.state = "T_NEXT" /\ ~ChainEnd
  /\ acc' = FALSE /\ ~t'.done
  /\ t'.state = "T_DESC"
  /\ t'.nbdp = DP(t.nbdp)
  /\ t'.ndesc = t.ndesc + 1
  /\ t'.eox = t.eox /\ t'.eoxp = t.eoxp /\ t'.bp = t.bp /\ t'.cnt = t.cnt
  /\ t'.open = t.open /\ t'.len = t.len /\ t'.soff = t.soff /\ t'.trunc = t.trunc
  /\ t'.first = t.first /\ t'.prod = t.prod /\ t'.crbdp = t.crbdp /\ t'.hold = t.hold
  /\ t'.beat = t.beat

\* The phases of a request: none, written by the guest, in the channel's hands (until its
\* done pulse), echoed to the shim.
ActiveReq == sh.active /\ sh.req_seq = Inc(sh.done_seq)
Resting == /\ ~sh.active /\ sh.done_seq = sh.req_seq /\ gl.seq = sh.req_seq /\ gl.kick = sh.req_seq
           /\ gl.echo = sh.req_seq /\ t.state = "T_IDLE" /\ ~t.done
Kicked  == /\ ActiveReq /\ gl.seq = sh.done_seq /\ gl.echo = sh.done_seq
           /\ t.state = "T_IDLE" /\ ~t.done
Running == /\ ActiveReq /\ gl.seq = sh.req_seq /\ gl.kick = sh.req_seq /\ gl.echo = sh.done_seq
           /\ t.state = "T_IDLE" <=> t.done
Echoed  == /\ ActiveReq /\ gl.seq = sh.req_seq /\ gl.kick = sh.req_seq /\ gl.echo = sh.req_seq
           /\ t.state = "T_IDLE" /\ ~t.done

\* The driver writes NBDP and kicks in a resting channel only, and a reap that read ACTIVE
\* clear finds it resting to its end.
Handshake ==
  /\ ~t.pend /\ (Resting \/ Kicked \/ Running \/ Echoed)
  /\ g.pc \in {"nbdp", "ctrl"} => Resting
  /\ g.pc \in {"bound", "reap"} /\ ~g.stat => Resting
  /\ acc => TxReq

\* What a clock does to a channel in each phase.
Moves ==
  \/ Stay /\ ~Kicked
  \/ Kicked /\ MvIdle
  \/ /\ Running /\ ~t.done
     /\ MvDesc \/ MvSlot \/ MvMem \/ MvPut \/ MvBcwb \/ MvFlush \/ MvHead \/ MvCq \/ MvIdx \/ MvEnd \/ MvOn

LEMMA IncMoves ==
  ASSUME NEW c \in Counts
  PROVE  Inc(c) # c
<1>1. CntMod \in Nat /\ CntMod > 1 /\ c \in 0 .. CntMod - 1
  BY Consts DEF Counts
<1>2. CASE c = CntMod - 1
  BY <1>1, <1>2 DEF Inc
<1>3. CASE c # CntMod - 1
  <2>1. c + 1 \in 0 .. CntMod - 1
    BY <1>1, <1>3
  <2>2. (c + 1) % CntMod = c + 1
    BY <1>1, <2>1
  <2> QED BY <1>1, <2>2 DEF Inc
<1> QED BY <1>2, <1>3

\* The fields of the default of a cycle.
LEMMA HoldFields ==
  ASSUME IsChan(t)
  PROVE  /\ DOMAIN Hold = {"state", "pend", "nbdp", "eox", "eoxp", "bp", "cnt", "open", "len", "soff", "trunc",
                           "first", "prod", "ndesc", "done", "crbdp", "hold", "beat"}
         /\ (Hold.pend <=> (t.pend \/ TxGo)) /\ ~Hold.done
         /\ Hold.state = t.state /\ Hold.nbdp = t.nbdp /\ Hold.eox = t.eox /\ Hold.eoxp = t.eoxp
         /\ Hold.bp = t.bp /\ Hold.cnt = t.cnt /\ Hold.open = t.open /\ Hold.len = t.len
         /\ Hold.soff = t.soff /\ Hold.trunc = t.trunc /\ Hold.first = t.first /\ Hold.prod = t.prod
         /\ Hold.ndesc = t.ndesc /\ Hold.crbdp = t.crbdp /\ Hold.hold = t.hold /\ Hold.beat = t.beat
BY DEF Hold, IsChan

\* Every step of the channel block, without a kick while it runs.
LEMMA ChanMoves ==
  ASSUME IsChan(t), acc \in BOOLEAN, acc => TxReq, ~t.pend, NEW rsp, rsp => acc, TxChan(rsp),
         TxGo => t.state = "T_IDLE"
  PROVE  /\ ~t'.pend
         /\ \/ Stay /\ ~TxGo
            \/ TxGo /\ MvIdle
            \/ /\ ~TxGo
               /\ MvDesc \/ MvSlot \/ MvMem \/ MvPut \/ MvBcwb \/ MvFlush \/ MvHead \/ MvCq \/ MvIdx \/ MvEnd \/ MvOn
<1> DEFINE H == Hold
<1>0. /\ DOMAIN H = {"state", "pend", "nbdp", "eox", "eoxp", "bp", "cnt", "open", "len", "soff", "trunc",
                     "first", "prod", "ndesc", "done", "crbdp", "hold", "beat"}
      /\ (H.pend <=> TxGo) /\ ~H.done
      /\ H.state = t.state /\ H.nbdp = t.nbdp /\ H.eox = t.eox /\ H.eoxp = t.eoxp
      /\ H.bp = t.bp /\ H.cnt = t.cnt /\ H.open = t.open /\ H.len = t.len
      /\ H.soff = t.soff /\ H.trunc = t.trunc /\ H.first = t.first /\ H.prod = t.prod
      /\ H.ndesc = t.ndesc /\ H.crbdp = t.crbdp /\ H.hold = t.hold /\ H.beat = t.beat
  BY HoldFields
<1>1. CASE TxReq /\ ~rsp
  <2>1. t' = H /\ acc' = acc /\ ~TxGo
    BY <1>1 DEF TxChan, TxReq
  <2> HIDE DEF H
  <2>2. Stay /\ ~t'.pend
    BY <1>0, <2>1 DEF Stay
  <2> QED BY <2>1, <2>2
<1>2. CASE ~(TxReq /\ ~rsp)
  <2>1. /\ acc' = FALSE
        /\ TIdle \/ TDesc \/ TSlot \/ TMem \/ TPut \/ TBcwb \/ TFlush \/ THead \/ TCq \/ TIdx \/ TNext
    BY <1>2 DEF TxChan
  <2>2. TxReq <=> acc
    BY <1>2
  <2>3. CASE TIdle
    <3>1. /\ t.state = "T_IDLE"
          /\ IF TxGo THEN t' = [H EXCEPT !.pend = FALSE, !.nbdp = sh.req_nbdp, !.ndesc = 0,
                                         !.open = FALSE, !.hold = <<>>, !.state = "T_DESC"]
             ELSE t' = H
      BY <2>3, Zenon DEF TIdle
    <3>2. acc' = acc
      BY <2>1, <2>2, <3>1 DEF TxReq
    <3> HIDE DEF H
    <3>3. CASE TxGo
      <4>1. t' = [H EXCEPT !.pend = FALSE, !.nbdp = sh.req_nbdp, !.ndesc = 0,
                           !.open = FALSE, !.hold = <<>>, !.state = "T_DESC"]
        BY <3>1, <3>3
      <4>2. MvIdle /\ ~t'.pend
        BY <1>0, <2>1, <3>1, <4>1 DEF MvIdle
      <4> QED BY <4>2, <3>3
    <3>4. CASE ~TxGo
      BY <1>0, <3>1, <3>2, <3>4 DEF Stay
    <3> QED BY <3>3, <3>4
  <2>4. CASE TDesc
    <3>1. t' = [H EXCEPT !.bp = 0, !.cnt = Len(ld.desc.buf), !.eox = ld.desc.eox, !.eoxp = ld.desc.eoxp,
                           !.state = IF ~t.open THEN "T_SLOT" ELSE AfterBeat(Len(ld.desc.buf))]
      BY <2>4, Zenon DEF TDesc
    <3>2. t.state = "T_DESC" /\ acc
      BY <2>4, <2>2 DEF TDesc, TxReq
    <3>3. ~TxGo
      BY <3>2
    <3> HIDE DEF H
    <3> QED BY <1>0, <2>1, <3>1, <3>2, <3>3 DEF MvDesc
  <2>5. CASE TSlot
    <3>1. \/ t' = H
        \/ /\ Diff(t.prod, cons) < NSlot
           /\ t' = [H EXCEPT !.open = TRUE, !.len = 0, !.soff = 0, !.trunc = FALSE,
                             !.first = t.nbdp, !.crbdp = t.nbdp, !.state = AfterBeat(t.cnt)]
      BY <2>5, Zenon DEF TSlot
    <3>2. t.state = "T_SLOT" /\ ~acc
      BY <2>5, <2>2 DEF TSlot, TxReq
    <3>3. ~TxGo
      BY <3>2
    <3> HIDE DEF H
    <3>4. CASE t' = H
      <4>1. acc' = acc
        BY <2>1, <3>2
      <4> QED BY <1>0, <3>2, <3>3, <3>4, <4>1 DEF Stay
    <3>5. CASE Diff(t.prod, cons) < NSlot /\ t' # H
      <4>1. t' = [H EXCEPT !.open = TRUE, !.len = 0, !.soff = 0, !.trunc = FALSE,
                           !.first = t.nbdp, !.crbdp = t.nbdp, !.state = AfterBeat(t.cnt)]
        BY <3>1, <3>5
      <4>2. MvSlot /\ ~t'.pend
        BY <1>0, <2>1, <3>2, <3>3, <3>5, <4>1 DEF MvSlot
      <4> QED BY <4>2, <3>3
    <3> QED BY <3>1, <3>4, <3>5
  <2>6. CASE TMem
    <3>1. t' = [H EXCEPT !.beat = IF Len(t.hold \o ld.bytes) >= Lanes THEN SubSeq(t.hold \o ld.bytes, 1, Lanes) ELSE @,
                      !.hold = IF Len(t.hold \o ld.bytes) >= Lanes
                               THEN SubSeq(t.hold \o ld.bytes, Lanes + 1, Len(t.hold \o ld.bytes)) ELSE t.hold \o ld.bytes,
                      !.bp = @ + Len(ld.bytes), !.cnt = t.cnt - Len(ld.bytes), !.len = @ + Len(ld.bytes),
                      !.state = IF Len(t.hold \o ld.bytes) >= Lanes THEN "T_PUT" ELSE AfterBeat(t.cnt - Len(ld.bytes))]
      BY <2>6, Zenon DEF TMem
    <3>2. t.state = "T_MEM" /\ acc
      BY <2>6, <2>2 DEF TMem, TxReq
    <3>3. ~TxGo
      BY <3>2
    <3> HIDE DEF H
    <3> QED BY <1>0, <2>1, <3>1, <3>2, <3>3 DEF MvMem
  <2>7. CASE TPut
    <3>1. t' = IF t.soff = SlotBeats THEN [H EXCEPT !.trunc = TRUE, !.state = AfterBeat(t.cnt)]
             ELSE [H EXCEPT !.soff = @ + 1, !.state = AfterBeat(t.cnt)]
      BY <2>7, Zenon DEF TPut
    <3>2. t.state = "T_PUT" /\ (t.soff # SlotBeats => acc)
      BY <2>7, <2>2 DEF TPut, TxReq
    <3>3. ~TxGo
      BY <3>2
    <3> HIDE DEF H
    <3> QED BY <1>0, <2>1, <3>1, <3>2, <3>3 DEF MvPut
  <2>8. CASE TBcwb
    <3>1. t' = [H EXCEPT !.state = IF PacketEnd THEN "T_FLUSH" ELSE "T_NEXT"]
      BY <2>8, Zenon DEF TBcwb
    <3>2. t.state = "T_BCWB" /\ (t.nbdp # t.first => acc)
      BY <2>8, <2>2 DEF TBcwb, TxReq
    <3>3. ~TxGo
      BY <3>2
    <3> HIDE DEF H
    <3> QED BY <1>0, <2>1, <3>1, <3>2, <3>3 DEF MvBcwb
  <2>9. CASE TFlush
    <3>1. t' = [H EXCEPT !.trunc = @ \/ (t.hold # <<>> /\ t.soff = SlotBeats), !.hold = <<>>, !.state = "T_HEAD"]
      BY <2>9, Zenon DEF TFlush
    <3>2. t.state = "T_FLUSH" /\ (t.hold # <<>> /\ t.soff # SlotBeats => acc)
      BY <2>9, <2>2 DEF TFlush, TxReq
    <3>3. ~TxGo
      BY <3>2
    <3> HIDE DEF H
    <3> QED BY <1>0, <2>1, <3>1, <3>2, <3>3 DEF MvFlush
  <2>10. CASE THead
    <3>1. t' = [H EXCEPT !.state = "T_CQ"]
      BY <2>10, Zenon DEF THead
    <3>2. t.state = "T_HEAD" /\ acc
      BY <2>10, <2>2 DEF THead, TxReq
    <3>3. ~TxGo
      BY <3>2
    <3> HIDE DEF H
    <3> QED BY <1>0, <2>1, <3>1, <3>2, <3>3 DEF MvHead
  <2>11. CASE TCq
    <3>1. t' = [H EXCEPT !.state = "T_IDX"]
      BY <2>11, Zenon DEF TCq
    <3>2. t.state = "T_CQ" /\ acc
      BY <2>11, <2>2 DEF TCq, TxReq
    <3>3. ~TxGo
      BY <3>2
    <3> HIDE DEF H
    <3> QED BY <1>0, <2>1, <3>1, <3>2, <3>3 DEF MvCq
  <2>12. CASE TIdx
    <3>1. t' = [H EXCEPT !.prod = Inc(@), !.open = FALSE, !.state = "T_NEXT"]
      BY <2>12, Zenon DEF TIdx
    <3>2. t.state = "T_IDX" /\ acc
      BY <2>12, <2>2 DEF TIdx, TxReq
    <3>3. ~TxGo
      BY <3>2
    <3> HIDE DEF H
    <3> QED BY <1>0, <2>1, <3>1, <3>2, <3>3 DEF MvIdx
  <2>13. CASE TNext
    <3>1. t' = IF ChainEnd THEN [H EXCEPT !.crbdp = DP(t.nbdp), !.done = TRUE, !.state = "T_IDLE"]
             ELSE [H EXCEPT !.nbdp = DP(t.nbdp), !.ndesc = @ + 1, !.state = "T_DESC"]
      BY <2>13, Zenon DEF TNext
    <3>2. t.state = "T_NEXT"
      BY <2>13, <2>2 DEF TNext, TxReq
    <3>3. ~TxGo
      BY <3>2
    <3> HIDE DEF H
    <3>4. CASE ChainEnd
      BY <1>0, <2>1, <3>1, <3>2, <3>3, <3>4 DEF MvEnd
    <3>5. CASE ~ChainEnd
      BY <1>0, <2>1, <3>1, <3>2, <3>3, <3>5 DEF MvOn
    <3> QED BY <3>4, <3>5
  <2> QED BY <2>1, <2>3, <2>4, <2>5, <2>6, <2>7, <2>8, <2>9, <2>10, <2>11, <2>12, <2>13
<1> QED BY <1>1, <1>2

\* The guest's accesses: NBDP and CTRL are written in a resting channel only.
Access(m) == m.op \in {"none", "clrirq", "nbdp", "ctrl"} /\ (m.op \in {"nbdp", "ctrl"} => Resting)

LEMMA Phases ==
  ASSUME ShimOk, Handshake
  PROVE  /\ TxComplete <=> Echoed
         /\ TxGo <=> Kicked
         /\ Resting => ~Kicked /\ ~Running /\ ~Echoed
         /\ Kicked => ~Running /\ ~Echoed
         /\ Running => ~Echoed
         /\ t.state # "T_IDLE" \/ t.done => Running
<1>1. /\ sh.req_seq = Inc(sh.done_seq) => sh.req_seq # sh.done_seq
  BY IncMoves DEF ShimOk
<1> QED BY <1>1 DEF Handshake, Resting, Kicked, Running, Echoed, ActiveReq, TxComplete, TxGo

\* The registers of shim and glue after a clock.
LEMMA ShimFields ==
  ASSUME ShimOk, NEW m, m.op \in {"none", "clrirq", "nbdp", "ctrl"}, NEW rxi, ShimStep(m, rxi), GlueStep
  PROVE  /\ gl'.seq = sh.req_seq /\ gl'.kick = (IF TxGo THEN sh.req_seq ELSE gl.kick)
         /\ gl'.echo = (IF t.done THEN gl.kick ELSE gl.echo)
         /\ sh'.req_seq = (IF m.op = "ctrl" THEN Inc(sh.req_seq) ELSE sh.req_seq)
         /\ sh'.done_seq = (IF TxComplete THEN sh.req_seq ELSE sh.done_seq)
         /\ sh'.active <=> ~TxComplete /\ (m.op = "ctrl" \/ sh.active)
         /\ sh'.req_nbdp = (IF m.op = "ctrl" THEN sh.nbdp ELSE sh.req_nbdp)
         /\ sh'.nbdp = (IF m.op = "nbdp" THEN m.val ELSE IF TxComplete THEN t.crbdp ELSE sh.nbdp)
<1> DEFINE w == Written(m)
           r == Completed(m, w)
           D == {"active", "irq", "req_seq", "done_seq", "req_nbdp", "nbdp"}
<1>1. /\ DOMAIN w = D
      /\ w.req_seq = (IF m.op = "ctrl" THEN Inc(sh.req_seq) ELSE sh.req_seq) /\ w.done_seq = sh.done_seq
      /\ w.active <=> (m.op = "ctrl" \/ sh.active)
      /\ w.req_nbdp = (IF m.op = "ctrl" THEN sh.nbdp ELSE sh.req_nbdp)
      /\ w.nbdp = (IF m.op = "nbdp" THEN m.val ELSE sh.nbdp)
  <2>1. CASE m.op = "ctrl"
    BY <2>1 DEF Written, ShimOk
  <2>2. CASE m.op = "nbdp"
    BY <2>2 DEF Written, ShimOk
  <2>3. CASE m.op \notin {"ctrl", "nbdp"}
    BY <2>3 DEF Written, ShimOk
  <2> QED BY <2>1, <2>2, <2>3
<1> HIDE DEF w
<1>2. /\ DOMAIN r = D
      /\ r.req_seq = w.req_seq /\ r.done_seq = (IF TxComplete THEN sh.req_seq ELSE w.done_seq)
      /\ r.active <=> ~TxComplete /\ w.active
      /\ r.req_nbdp = w.req_nbdp
      /\ r.nbdp = (IF TxComplete THEN IF m.op = "nbdp" THEN w.nbdp ELSE t.crbdp ELSE w.nbdp)
  <2>1. CASE TxComplete
    BY <1>1, <2>1 DEF Completed
  <2>2. CASE ~TxComplete
    BY <1>1, <2>2 DEF Completed
  <2> QED BY <2>1, <2>2
<1>3. sh' = [r EXCEPT !.irq = Irq(m, rxi)]
  BY DEF ShimStep, w
<1> HIDE DEF r
<1>4. /\ sh'.req_seq = r.req_seq /\ sh'.done_seq = r.done_seq /\ sh'.active = r.active
      /\ sh'.req_nbdp = r.req_nbdp /\ sh'.nbdp = r.nbdp
  BY <1>2, <1>3
<1>5. /\ gl'.seq = sh.req_seq /\ gl'.kick = (IF TxGo THEN sh.req_seq ELSE gl.kick)
      /\ gl'.echo = (IF t.done THEN gl.kick ELSE gl.echo)
  BY DEF GlueStep
<1> QED BY <1>1, <1>2, <1>4, <1>5

\* One clock: the phase goes on, and the channel moves as its phase allows.
LEMMA ClockMoves ==
  ASSUME TxInv, Handshake, NEW m, Access(m), NEW rsp, NEW rxi, Clock(m, rsp, rxi)
  PROVE  /\ ~t'.pend /\ (acc' => TxReq') /\ Moves
         /\ Resting => IF m.op = "ctrl" THEN Kicked' ELSE Resting'
         /\ Kicked => Running'
         /\ Running => IF t.done THEN Echoed' ELSE Running'
         /\ Echoed => Resting'
         /\ sh'.nbdp = (IF m.op = "nbdp" THEN m.val ELSE IF Echoed THEN t.crbdp ELSE sh.nbdp)
         /\ sh'.req_nbdp = (IF m.op = "ctrl" THEN sh.nbdp ELSE sh.req_nbdp)
<1>1. (rsp => acc) /\ TxChan(rsp) /\ ShimStep(m, rxi) /\ GlueStep
  BY DEF Clock
<1>2. ShimOk /\ IsChan(t) /\ acc \in BOOLEAN
  BY DEF TxInv, LoadOk
<1>3. /\ TxComplete <=> Echoed
      /\ TxGo <=> Kicked
      /\ Resting => ~Kicked /\ ~Running /\ ~Echoed
      /\ Kicked => ~Running /\ ~Echoed
      /\ Running => ~Echoed
      /\ t.state # "T_IDLE" \/ t.done => Running
  BY <1>2, Phases
<1>4. TxGo => t.state = "T_IDLE"
  BY <1>3 DEF Kicked
<1>5. ~t.pend /\ (acc => TxReq)
  BY DEF Handshake
<1>6. /\ ~t'.pend
      /\ \/ Stay /\ ~TxGo
         \/ TxGo /\ MvIdle
         \/ /\ ~TxGo
            /\ MvDesc \/ MvSlot \/ MvMem \/ MvPut \/ MvBcwb \/ MvFlush \/ MvHead \/ MvCq \/ MvIdx \/ MvEnd \/ MvOn
  BY <1>1, <1>2, <1>4, <1>5, ChanMoves, Zenon
<1>7. MvDesc \/ MvSlot \/ MvMem \/ MvPut \/ MvBcwb \/ MvFlush \/ MvHead \/ MvCq \/ MvIdx \/ MvEnd \/ MvOn
      => Running /\ ~t.done
  <2>1. MvDesc \/ MvSlot \/ MvMem \/ MvPut \/ MvBcwb \/ MvFlush \/ MvHead \/ MvCq \/ MvIdx \/ MvEnd \/ MvOn
        => t.state # "T_IDLE"
    BY DEF MvDesc, MvSlot, MvMem, MvPut, MvBcwb, MvFlush, MvHead, MvCq, MvIdx, MvEnd, MvOn
  <2> QED BY <2>1, <1>3 DEF Running
<1>8. Moves
  BY <1>3, <1>6, <1>7 DEF Moves
<1>9. acc' => TxReq'
  <2>1. acc' => Stay
    BY <1>6 DEF MvIdle, MvDesc, MvSlot, MvMem, MvPut, MvBcwb, MvFlush, MvHead, MvCq, MvIdx, MvEnd, MvOn
  <2>2. Stay => (TxReq' <=> TxReq) /\ acc' = acc
    BY DEF Stay, TxReq
  <2> QED BY <1>5, <2>1, <2>2
<1>10. /\ gl'.seq = sh.req_seq /\ gl'.kick = (IF TxGo THEN sh.req_seq ELSE gl.kick)
       /\ gl'.echo = (IF t.done THEN gl.kick ELSE gl.echo)
       /\ sh'.req_seq = (IF m.op = "ctrl" THEN Inc(sh.req_seq) ELSE sh.req_seq)
       /\ sh'.done_seq = (IF TxComplete THEN sh.req_seq ELSE sh.done_seq)
       /\ sh'.active <=> ~TxComplete /\ (m.op = "ctrl" \/ sh.active)
       /\ sh'.req_nbdp = (IF m.op = "ctrl" THEN sh.nbdp ELSE sh.req_nbdp)
       /\ sh'.nbdp = (IF m.op = "nbdp" THEN m.val ELSE IF TxComplete THEN t.crbdp ELSE sh.nbdp)
  BY <1>1, <1>2, ShimFields DEF Access
<1>11. m.op \in {"nbdp", "ctrl"} => Resting
  BY DEF Access
<1>12. ASSUME Resting PROVE IF m.op = "ctrl" THEN Kicked' ELSE Resting'
  <2>1. Stay
    BY <1>3, <1>8, <1>12 DEF Moves
  <2>2. t'.state = "T_IDLE" /\ ~t'.done
    BY <1>12, <2>1 DEF Resting, Stay
  <2>3. ~TxComplete /\ ~TxGo /\ ~t.done
    BY <1>3, <1>12 DEF Resting
  <2> QED BY <1>10, <1>12, <2>2, <2>3 DEF Resting, Kicked, ActiveReq
<1>13. ASSUME Kicked PROVE Running'
  <2>1. MvIdle
    BY <1>3, <1>8, <1>13 DEF Moves
  <2>2. t'.state = "T_DESC" /\ ~t'.done
    BY <2>1 DEF MvIdle
  <2>3. ~TxComplete /\ TxGo /\ ~t.done /\ m.op # "ctrl"
    BY <1>3, <1>11, <1>13 DEF Kicked
  <2> QED BY <1>10, <1>13, <2>2, <2>3 DEF Running, Kicked, ActiveReq
<1>14. ASSUME Running PROVE IF t.done THEN Echoed' ELSE Running'
  <2>1. ~TxComplete /\ ~TxGo /\ m.op # "ctrl"
    BY <1>3, <1>11, <1>14
  <2>2. CASE t.done
    <3>1. Stay
      BY <1>3, <1>8, <1>14, <2>2 DEF Moves
    <3>2. t'.state = "T_IDLE" /\ ~t'.done
      BY <1>14, <2>2, <3>1 DEF Running, Stay
    <3> QED BY <1>10, <1>14, <2>1, <2>2, <3>2 DEF Running, Echoed, ActiveReq
  <2>3. CASE ~t.done
    <3>1. t.state # "T_IDLE"
      BY <1>14, <2>3 DEF Running
    <3>2. t'.state = "T_IDLE" <=> t'.done
      <4>1. CASE Stay
        BY <3>1, <4>1 DEF Stay
      <4>2. CASE MvDesc \/ MvSlot \/ MvMem
        BY <4>2 DEF MvDesc, MvSlot, MvMem, AfterBeat
      <4>3. CASE MvPut \/ MvBcwb \/ MvFlush \/ MvHead
        BY <4>3 DEF MvPut, MvBcwb, MvFlush, MvHead, AfterBeat
      <4>4. CASE MvCq \/ MvIdx \/ MvEnd \/ MvOn
        BY <4>4 DEF MvCq, MvIdx, MvEnd, MvOn
      <4> QED BY <1>3, <1>8, <1>14, <4>1, <4>2, <4>3, <4>4 DEF Moves
    <3> QED BY <1>10, <1>14, <2>1, <2>3, <3>2 DEF Running, ActiveReq
  <2> QED BY <2>2, <2>3
<1>15. ASSUME Echoed PROVE Resting'
  <2>1. Stay
    BY <1>3, <1>8, <1>15 DEF Moves
  <2>2. t'.state = "T_IDLE" /\ ~t'.done
    BY <1>15, <2>1 DEF Echoed, Stay
  <2>3. TxComplete /\ ~TxGo /\ ~t.done /\ m.op # "ctrl"
    BY <1>3, <1>11, <1>15 DEF Echoed
  <2> QED BY <1>10, <1>15, <2>2, <2>3 DEF Resting, Echoed, ActiveReq
<1> QED BY <1>3, <1>6, <1>8, <1>9, <1>10, <1>12, <1>13, <1>14, <1>15

\* A step that is not a clock leaves shim, glue and channel alone.
LEMMA HandshakeRest ==
  ASSUME Handshake, UNCHANGED <<sh, gl, t>>
  PROVE  /\ ~t'.pend /\ (Resting \/ Kicked \/ Running \/ Echoed)'
         /\ (Resting' <=> Resting) /\ (Kicked' <=> Kicked) /\ (Running' <=> Running) /\ (Echoed' <=> Echoed)
         /\ TxReq' <=> TxReq
BY DEF Handshake, Resting, Kicked, Running, Echoed, ActiveReq, TxReq

LEMMA HandshakeInit == Init => Handshake
<1> SUFFICES ASSUME Init
             PROVE  Handshake
  OBVIOUS
<1>1. sh = ShimReset /\ gl = GlueReset /\ t = ChanReset /\ acc = FALSE
  BY DEF Init
<1>2. g.pc = "idle"
  BY DEF Init, GuestInit
<1>3. ~t.pend /\ Resting
  BY <1>1 DEF Resting, ShimReset, GlueReset, ChanReset
<1> QED BY <1>1, <1>2, <1>3 DEF Handshake

LEMMA HandshakeStep == TxInv /\ Handshake /\ [Next]_vars => Handshake'
<1> SUFFICES ASSUME TxInv, Handshake, [Next]_vars
             PROVE  Handshake'
  OBVIOUS
<1>0. /\ ~t.pend /\ (Resting \/ Kicked \/ Running \/ Echoed)
      /\ g.pc \in {"nbdp", "ctrl"} => Resting
      /\ g.pc \in {"bound", "reap"} /\ ~g.stat => Resting
      /\ acc => TxReq
  BY DEF Handshake
<1>a. ~sh.active => Resting
  BY <1>0 DEF Kicked, Running, Echoed, ActiveReq
<1>b. DOMAIN g = {"pc", "rule", "tail", "old", "inflight", "stat", "bound"}
  BY DEF TxInv, DriverOk
<1>c. ASSUME NEW m, NEW rsp, NEW rxi, Access(m), Clock(m, rsp, rxi),
             g'.pc \in {"nbdp", "ctrl"} => Resting /\ m.op # "ctrl",
             g'.pc \in {"bound", "reap"} /\ ~g'.stat => Resting /\ m.op # "ctrl"
      PROVE  Handshake'
  <2>1. /\ ~t'.pend /\ (acc' => TxReq')
        /\ Resting => IF m.op = "ctrl" THEN Kicked' ELSE Resting'
        /\ Kicked => Running'
        /\ Running => IF t.done THEN Echoed' ELSE Running'
        /\ Echoed => Resting'
    BY <1>c, ClockMoves
  <2> QED BY <1>0, <1>c, <2>1 DEF Handshake
<1>1. CASE Mem
  <2>1. acc' = TRUE /\ TxReq /\ UNCHANGED <<g, sh, gl, t>>
    BY <1>1 DEF Mem
  <2> QED BY <1>0, <2>1, HandshakeRest DEF Handshake
<1>2. ASSUME NEW rsp \in BOOLEAN, NEW rxi \in BOOLEAN, Idle(rsp, rxi)
      PROVE  Handshake'
  <2>1. Clock(NoMmio, rsp, rxi) /\ g' = g
    BY <1>2 DEF Idle
  <2>2. Access(NoMmio) /\ NoMmio.op # "ctrl"
    BY DEF Access, NoMmio
  <2> QED BY <1>0, <1>c, <2>1, <2>2
<1>3. ASSUME NEW rsp \in BOOLEAN, NEW rxi \in BOOLEAN, GuestIsr(rsp, rxi)
      PROVE  Handshake'
  <2> DEFINE m == [op |-> "clrirq", val |-> 0]
  <2>1. Clock(m, rsp, rxi) /\ g'.pc = "status"
    BY <1>3, <1>b DEF GuestIsr
  <2>2. Access(m)
    BY DEF Access
  <2> HIDE DEF m
  <2> QED BY <1>c, <2>1, <2>2
<1>4. ASSUME NEW rsp \in BOOLEAN, GuestNbdp(rsp)
      PROVE  Handshake'
  <2> DEFINE m == [op |-> "nbdp", val |-> FirstUnsent]
  <2>1. \/ g' = [g EXCEPT !.pc = "idle"] /\ Clock(NoMmio, rsp, FALSE)
        \/ g' = [g EXCEPT !.pc = "ctrl"] /\ Clock(m, rsp, FALSE)
    BY <1>4 DEF GuestNbdp
  <2>2. Resting
    BY <1>0, <1>4 DEF GuestNbdp
  <2>3. Access(NoMmio) /\ Access(m) /\ NoMmio.op # "ctrl" /\ m.op # "ctrl"
    BY <2>2 DEF Access, NoMmio
  <2> HIDE DEF m
  <2>4. g'.pc \notin {"bound", "reap"}
    BY <1>b, <2>1
  <2> QED BY <1>c, <2>1, <2>2, <2>3, <2>4
<1>5. ASSUME NEW rsp \in BOOLEAN, GuestKick(rsp)
      PROVE  Handshake'
  <2> DEFINE m == [op |-> "ctrl", val |-> 0]
  <2>1. Clock(m, rsp, FALSE) /\ g'.pc = "idle" /\ g.pc = "ctrl"
    BY <1>5, <1>b DEF GuestKick
  <2>2. Access(m)
    BY <1>0, <2>1 DEF Access
  <2> HIDE DEF m
  <2> QED BY <1>c, <2>1, <2>2
<1>6. ASSUME NEW s \in Shapes, GuestQueue(s)
      PROVE  Handshake'
  <2>1. g'.pc \in {"check", "append"} /\ UNCHANGED <<sh, gl, t, acc>>
    BY <1>6, <1>b DEF GuestQueue
  <2> QED BY <1>0, <2>1, HandshakeRest DEF Handshake
<1>7. CASE GuestAppend
  <2>1. g'.pc = "check" /\ UNCHANGED <<sh, gl, t, acc>>
    BY <1>7, <1>b DEF GuestAppend
  <2> QED BY <1>0, <2>1, HandshakeRest DEF Handshake
<1>8. CASE GuestCheck
  <2>1. g'.pc = (IF sh.active THEN "idle" ELSE "nbdp") /\ UNCHANGED <<sh, gl, t, acc>>
    BY <1>8, <1>b DEF GuestCheck
  <2> QED BY <1>0, <1>a, <2>1, HandshakeRest DEF Handshake
<1>9. CASE GuestStatus
  <2>1. g'.pc = "bound" /\ g'.stat = sh.active /\ UNCHANGED <<sh, gl, t, acc>>
    BY <1>9, <1>b DEF GuestStatus
  <2> QED BY <1>0, <1>a, <2>1, HandshakeRest DEF Handshake
<1>10. CASE GuestBound
  <2>1. g.pc = "bound" /\ g'.pc = "reap" /\ g'.stat = g.stat /\ UNCHANGED <<sh, gl, t, acc>>
    BY <1>10, <1>b DEF GuestBound
  <2> QED BY <1>0, <2>1, HandshakeRest DEF Handshake
<1>11. CASE GuestReap
  <2>1. g.pc = "reap" /\ UNCHANGED <<sh, gl, t, acc>>
    BY <1>11 DEF GuestReap
  <2>2. \/ g'.pc = "reap" /\ g'.stat = g.stat
        \/ g'.pc = "nbdp" /\ ~g.stat
        \/ g'.pc = "idle"
    <3>1. CASE Reapable
      BY <1>11, <1>b, <2>1, <3>1 DEF GuestReap
    <3>2. CASE ~Reapable
      BY <1>11, <1>b, <3>2 DEF GuestReap
    <3> QED BY <3>1, <3>2
  <2> QED BY <1>0, <2>1, <2>2, HandshakeRest DEF Handshake
<1>12. CASE ArmConsume \/ UNCHANGED vars
  <2>1. UNCHANGED <<g, sh, gl, t, acc>>
    BY <1>12 DEF ArmConsume, vars
  <2> QED BY <1>0, <2>1, HandshakeRest DEF Handshake
<1> QED BY <1>1, <1>2, <1>3, <1>4, <1>5, <1>6, <1>7, <1>8, <1>9, <1>10, <1>11, <1>12 DEF Next
-----------------------------------------------------------------------------
(* The driver's packets in the ring.  Packets are numbered in the order they were queued; *)
(* those after Reaped are in flight.                                                      *)

Queued == Len(sentq)
Reaped == Len(sentq) - Len(g.inflight)
InFlight == Reaped + 1 .. Queued
Heads == Reaped + 1 .. Queued + 1
Pk(p) == g.inflight[p - Reaped]
\* the first descriptor of a packet, of the next one to be queued too
Hd(p) == IF p = Queued + 1 THEN g.tail ELSE Pk(p).head
\* the k-th descriptor of a packet
At(p, k) == (Hd(p) + k) % NDesc
\* how far a descriptor is from the oldest one
Dist(d) == (d - g.old) % NDesc

\* The packets lie one after the other, the oldest first, and leave a descriptor free.
RingShape ==
  /\ Reaped >= 0 /\ Hd(Reaped + 1) = g.old
  /\ \A p \in InFlight : Pk(p).n \in 1 .. NDesc - 1 /\ Dist(Hd(p + 1)) = Dist(Hd(p)) + Pk(p).n
  /\ \A p \in InFlight : \A r \in p + 1 .. Queued + 1 : Dist(Hd(p)) + Pk(p).n <= Dist(Hd(r))
  /\ g.pc = "append" => Len(g.inflight) >= 2

\* Walking x descriptors on from a, and the distance from b to a.
LEMMA RingAdd ==
  ASSUME NEW a \in Desc, NEW x \in 0 .. NDesc - 1
  PROVE  (a + x) % NDesc = IF a + x < NDesc THEN a + x ELSE a + x - NDesc
<1>1. NDesc \in Nat /\ NDesc > 0 /\ a \in 0 .. NDesc - 1
  BY Consts DEF Desc
<1>2. CASE a + x < NDesc
  BY <1>1, <1>2
<1>3. CASE a + x >= NDesc
  <2> DEFINE y == a + x - NDesc
  <2>1. y \in 0 .. NDesc - 1 /\ a + x = y + NDesc
    BY <1>1, <1>3
  <2> HIDE DEF y
  <2>2. (y + NDesc) % NDesc = y
    BY <1>1, <2>1
  <2> QED BY <1>1, <1>3, <2>1, <2>2 DEF y
<1> QED BY <1>1, <1>2, <1>3

LEMMA RingSub ==
  ASSUME NEW a \in Desc, NEW b \in Desc
  PROVE  /\ (a - b) % NDesc = IF b <= a THEN a - b ELSE a - b + NDesc
         /\ (a - b) % NDesc \in 0 .. NDesc - 1
<1>1. NDesc \in Nat /\ NDesc > 0 /\ a \in 0 .. NDesc - 1 /\ b \in 0 .. NDesc - 1
  BY Consts DEF Desc
<1>2. CASE b <= a
  BY <1>1, <1>2
<1>3. CASE a < b
  <2> DEFINE y == a - b + NDesc
  <2>1. y \in 0 .. NDesc - 1 /\ a - b = y - NDesc
    BY <1>1, <1>3
  <2> HIDE DEF y
  <2>2. (y - NDesc) % NDesc = y
    BY <1>1, <2>1
  <2> QED BY <1>1, <1>3, <2>1, <2>2 DEF y
<1> QED BY <1>1, <1>2, <1>3

\* Distances from a descriptor o of the ring.
LEMMA RingWalkOn ==
  ASSUME NEW o \in Desc, NEW a \in Desc, NEW x \in 0 .. NDesc - 1
  PROVE  /\ (a + x) % NDesc \in Desc /\ (((a + x) % NDesc) - a) % NDesc = x
         /\ ((a - o) % NDesc) + x < NDesc => (((a + x) % NDesc) - o) % NDesc = ((a - o) % NDesc) + x
         /\ DP((a + x) % NDesc) = (a + x + 1) % NDesc
         /\ \A b \in Desc : (b - o) % NDesc = (a - o) % NDesc => a = b
         /\ \A b \in Desc : (b - a) % NDesc = x => b = (a + x) % NDesc
         /\ (a + 0) % NDesc = a
<1>1. NDesc \in Nat /\ NDesc > 1 /\ a \in 0 .. NDesc - 1 /\ o \in 0 .. NDesc - 1 /\ Desc = 0 .. NDesc - 1
  BY Consts DEF Desc
<1> DEFINE c == (a + x) % NDesc
<1>2. c = IF a + x < NDesc THEN a + x ELSE a + x - NDesc
  BY RingAdd
<1>3. c \in Desc
  BY <1>1, <1>2
<1> HIDE DEF c
<1>4. (c - a) % NDesc = x
  BY <1>1, <1>2, <1>3, RingSub
<1>5. ((a - o) % NDesc) + x < NDesc => (c - o) % NDesc = ((a - o) % NDesc) + x
  <2>1. (a - o) % NDesc = IF o <= a THEN a - o ELSE a - o + NDesc
    BY RingSub
  <2>2. (c - o) % NDesc = IF o <= c THEN c - o ELSE c - o + NDesc
    BY <1>3, RingSub
  <2> DEFINE u == (a - o) % NDesc
             w == (c - o) % NDesc
  <2>3. u = (IF o <= a THEN a - o ELSE a - o + NDesc) /\ w = IF o <= c THEN c - o ELSE c - o + NDesc
    BY <2>1, <2>2
  <2> HIDE DEF u, w
  <2>4. u + x < NDesc => w = u + x
    BY <1>1, <1>2, <1>3, <2>3
  <2> QED BY <2>4 DEF u, w
<1>6. DP(c) = (a + x + 1) % NDesc
  <2>1. 1 \in 0 .. NDesc - 1 /\ 0 \in 0 .. NDesc - 1
    BY <1>1
  <2>2. (c + 1) % NDesc = IF c + 1 < NDesc THEN c + 1 ELSE c + 1 - NDesc
    BY <1>3, <2>1, RingAdd
  <2>3. CASE a + x < NDesc
    BY <1>1, <1>2, <2>2, <2>3 DEF DP
  <2>4. CASE a + x >= NDesc
    <3> DEFINE y == a + x + 1 - NDesc
    <3>1. y \in 0 .. NDesc - 1 /\ a + x + 1 = y + NDesc /\ c + 1 = y
      BY <1>1, <1>2, <2>4
    <3> HIDE DEF y
    <3>2. (y + NDesc) % NDesc = y /\ y % NDesc = y
      BY <1>1, <3>1
    <3> QED BY <3>1, <3>2 DEF DP
  <2> QED BY <1>1, <2>3, <2>4
<1>7. \A b \in Desc : (b - o) % NDesc = (a - o) % NDesc => a = b
  <2> TAKE b \in Desc
  <2> DEFINE u == (a - o) % NDesc
             w == (b - o) % NDesc
  <2>1. u = (IF o <= a THEN a - o ELSE a - o + NDesc) /\ w = IF o <= b THEN b - o ELSE b - o + NDesc
    BY RingSub
  <2> HIDE DEF u, w
  <2>2. w = u => a = b
    BY <1>1, <2>1
  <2> QED BY <2>2 DEF u, w
<1>8. \A b \in Desc : (b - a) % NDesc = x => b = c
  <2> TAKE b \in Desc
  <2> DEFINE w == (b - a) % NDesc
  <2>1. w = IF a <= b THEN b - a ELSE b - a + NDesc
    BY RingSub
  <2> HIDE DEF w
  <2>2. w = x => b = c
    BY <1>1, <1>2, <2>1
  <2> QED BY <2>2 DEF w
<1>9. (a + 0) % NDesc = a
  BY <1>1
<1> QED BY <1>3, <1>4, <1>5, <1>6, <1>7, <1>8, <1>9 DEF c

\* What the shape says of every packet and of two of them.
LEMMA RingFacts ==
  ASSUME TxInv, RingShape
  PROVE  /\ Queued \in Nat /\ Reaped \in Nat /\ Len(g.inflight) = Queued - Reaped
         /\ \A p \in InFlight : Pk(p) \in Packets /\ Pk(p).n \in 1 .. NDesc - 1
         /\ \A p \in Heads : Hd(p) \in Desc /\ Dist(Hd(p)) \in 0 .. NDesc - 1
         /\ \A p \in InFlight : p \in Heads /\ p + 1 \in Heads /\ Dist(Hd(p)) + Pk(p).n <= NDesc - 1
<1>1. g.inflight \in Seq(Packets) /\ sentq \in Seq(Seq(Byte)) /\ g.tail \in Desc /\ g.old \in Desc
  BY DEF TxInv, DriverOk, HistoryOk
<1>2. Len(g.inflight) \in Nat /\ Len(sentq) \in Nat
  BY <1>1, LenProperties
<1>3. Queued \in Nat /\ Reaped \in Nat /\ Len(g.inflight) = Queued - Reaped
  BY <1>2 DEF Queued, Reaped, RingShape
<1>4. ASSUME NEW p \in InFlight PROVE Pk(p) \in Packets /\ Pk(p).n \in 1 .. NDesc - 1 /\ p # Queued + 1 /\ p + 1 \in Heads /\ p \in Heads
  <2>1. p - Reaped \in 1 .. Len(g.inflight) /\ p # Queued + 1 /\ p + 1 \in Heads /\ p \in Heads
    BY <1>3 DEF InFlight, Heads
  <2>2. Pk(p) \in Packets
    BY <1>1, <2>1, LenProperties DEF Pk
  <2>3. Pk(p).n \in 1 .. NDesc - 1
    BY DEF RingShape
  <2> QED BY <2>1, <2>2, <2>3
<1>5. ASSUME NEW p \in Heads PROVE Hd(p) \in Desc /\ Dist(Hd(p)) \in 0 .. NDesc - 1
  <2>1. Hd(p) \in Desc
    <3>1. CASE p = Queued + 1
      BY <1>1, <3>1 DEF Hd
    <3>2. CASE p # Queued + 1
      <4>1. p \in InFlight
        BY <1>3, <3>2 DEF InFlight, Heads
      <4> QED BY <1>4, <3>2, <4>1 DEF Hd, Packets
    <3> QED BY <3>1, <3>2
  <2> QED BY <1>1, <2>1, RingSub DEF Dist
<1>6. ASSUME NEW p \in InFlight PROVE Dist(Hd(p)) + Pk(p).n <= NDesc - 1
  <2>1. Dist(Hd(p + 1)) = Dist(Hd(p)) + Pk(p).n
    BY DEF RingShape
  <2>2. Dist(Hd(p + 1)) \in 0 .. NDesc - 1
    BY <1>4, <1>5
  <2> QED BY <2>1, <2>2, Consts
<1> QED BY <1>3, <1>4, <1>5, <1>6

\* A packet's descriptors.
LEMMA AtFacts ==
  ASSUME TxInv, RingShape, NEW p \in InFlight
  PROVE  /\ \A k \in 0 .. Pk(p).n : /\ At(p, k) \in Desc /\ Dist(At(p, k)) = Dist(Hd(p)) + k
                                    /\ (At(p, k) - Hd(p)) % NDesc = k
         /\ \A k \in 0 .. Pk(p).n - 1 : DP(At(p, k)) = At(p, k + 1)
         /\ At(p, 0) = Hd(p) /\ At(p, Pk(p).n) = Hd(p + 1)
         /\ (Hd(p + 1) - 1) % NDesc = At(p, Pk(p).n - 1)
         /\ \A d \in Desc : \A k \in 0 .. Pk(p).n : (d - Hd(p)) % NDesc = k => d = At(p, k)
<1>1. /\ Pk(p).n \in 1 .. NDesc - 1 /\ Hd(p) \in Desc /\ Hd(p + 1) \in Desc
      /\ Dist(Hd(p)) \in 0 .. NDesc - 1 /\ Dist(Hd(p)) + Pk(p).n <= NDesc - 1
      /\ Dist(Hd(p + 1)) = Dist(Hd(p)) + Pk(p).n
  BY RingFacts DEF RingShape
<1>2. g.old \in Desc /\ NDesc \in Nat /\ NDesc > 1
  BY Consts DEF TxInv, DriverOk
<1> DEFINE a == Hd(p)
           n == Pk(p).n
<1>3. a \in Desc /\ n \in 1 .. NDesc - 1 /\ Dist(a) \in 0 .. NDesc - 1 /\ Dist(a) + n <= NDesc - 1
  BY <1>1
<1>4. \A k : At(p, k) = (a + k) % NDesc
  BY DEF At
<1> HIDE DEF a, n
<1>5. ASSUME NEW k \in 0 .. n
      PROVE  /\ At(p, k) \in Desc /\ Dist(At(p, k)) = Dist(a) + k /\ (At(p, k) - a) % NDesc = k
             /\ DP(At(p, k)) = At(p, k + 1)
             /\ \A d \in Desc : (d - a) % NDesc = k => d = At(p, k)
  <2>1. k \in 0 .. NDesc - 1 /\ Dist(a) + k < NDesc
    BY <1>2, <1>3
  <2>a. g.old \in Desc /\ a \in Desc /\ k \in 0 .. NDesc - 1
    BY <1>2, <1>3, <2>1
  <2>2. /\ (a + k) % NDesc \in Desc
        /\ (((a + k) % NDesc) - a) % NDesc = k
        /\ DP((a + k) % NDesc) = (a + k + 1) % NDesc
        /\ \A b \in Desc : (b - a) % NDesc = k => b = (a + k) % NDesc
    <3>1. (a + k) % NDesc \in Desc
      BY <2>a, RingWalkOn
    <3>2. (((a + k) % NDesc) - a) % NDesc = k
      BY <2>a, RingWalkOn
    <3>3. DP((a + k) % NDesc) = (a + k + 1) % NDesc
      BY <2>a, RingWalkOn
    <3>4. \A b \in Desc : (b - a) % NDesc = k => b = (a + k) % NDesc
      BY <2>a, RingWalkOn
    <3> QED BY <3>1, <3>2, <3>3, <3>4
  <2>b. (((a + k) % NDesc) - g.old) % NDesc = ((a - g.old) % NDesc) + k
    <3>1. ((a - g.old) % NDesc) + k < NDesc
      BY <2>1 DEF Dist
    <3> QED BY <2>a, <3>1, RingWalkOn
  <2>3. a \in Nat /\ k \in Nat /\ a + k + 1 = a + (k + 1)
    BY <1>2, <1>3, <2>1 DEF Desc
  <2> QED BY <1>4, <2>2, <2>b, <2>3 DEF Dist
<1>6. At(p, 0) = a
  <2>1. 0 \in 0 .. NDesc - 1
    BY <1>2
  <2> QED BY <1>2, <1>3, <1>4, <2>1, RingWalkOn
<1>7. At(p, n) = Hd(p + 1)
  <2>1. n \in 0 .. n /\ 0 \in 0 .. NDesc - 1
    BY <1>2, <1>3
  <2>2. Dist(At(p, n)) = Dist(Hd(p + 1)) /\ At(p, n) \in Desc
    BY <1>1, <1>5, <2>1 DEF a, n
  <2>3. \A o, u, w \in Desc : (w - o) % NDesc = (u - o) % NDesc => u = w
    BY <2>1, RingWalkOn, Zenon
  <2> QED BY <1>1, <1>2, <2>2, <2>3 DEF Dist
<1>8. (Hd(p + 1) - 1) % NDesc = At(p, n - 1)
  <2>1. n - 1 \in 0 .. n /\ (n - 1) + 1 = n
    BY <1>2, <1>3
  <2> DEFINE e == At(p, n - 1)
  <2>2. DP(e) = Hd(p + 1) /\ e \in Desc
    BY <1>5, <1>7, <2>1
  <2> HIDE DEF e
  <2>3. 1 \in 0 .. NDesc - 1
    BY <1>2
  <2>4. DP(e) = IF e + 1 < NDesc THEN e + 1 ELSE e + 1 - NDesc
    BY <2>2, <2>3, RingAdd DEF DP
  <2>5. (Hd(p + 1) - 1) % NDesc = e
    <3>1. CASE e + 1 < NDesc
      <4>1. Hd(p + 1) - 1 = e /\ e \in 0 .. NDesc - 1
        BY <1>2, <2>2, <2>4, <3>1 DEF Desc
      <4> QED BY <4>1, <1>2
    <3>2. CASE e + 1 >= NDesc
      <4>1. Hd(p + 1) - 1 = e - NDesc /\ e \in 0 .. NDesc - 1
        BY <1>2, <2>2, <2>4, <3>2 DEF Desc
      <4>2. (e - NDesc) % NDesc = e
        BY <4>1, <1>2
      <4> QED BY <4>1, <4>2
    <3> QED BY <1>2, <2>2, <3>1, <3>2 DEF Desc
  <2> QED BY <2>5 DEF e
<1>9. \A k \in 0 .. n - 1 : k \in 0 .. n
  BY <1>2, <1>3
<1> QED BY <1>5, <1>6, <1>7, <1>8, <1>9 DEF a, n

\* A descriptor belongs to one packet, and a head is no packet's later descriptor.
LEMMA AtApart ==
  ASSUME TxInv, RingShape
  PROVE  /\ \A p, r \in InFlight : \A k \in 0 .. Pk(p).n - 1, j \in 0 .. Pk(r).n - 1 :
              At(p, k) = At(r, j) => p = r /\ k = j
         /\ \A p \in InFlight, r \in Heads : \A k \in 0 .. Pk(p).n - 1 : At(p, k) = Hd(r) => p = r /\ k = 0
         /\ \A p, r \in Heads : Hd(p) = Hd(r) => p = r
<1>1. /\ Queued \in Nat /\ Reaped \in Nat
      /\ \A p \in InFlight : Pk(p).n \in 1 .. NDesc - 1
      /\ \A p \in Heads : Dist(Hd(p)) \in 0 .. NDesc - 1
      /\ \A p \in InFlight : p \in Heads /\ p + 1 \in Heads /\ Dist(Hd(p)) + Pk(p).n <= NDesc - 1
  BY RingFacts
<1>2. \A p \in InFlight : \A r \in p + 1 .. Queued + 1 : Dist(Hd(p)) + Pk(p).n <= Dist(Hd(r))
  BY DEF RingShape
<1>3. \A p \in InFlight : \A k \in 0 .. Pk(p).n - 1 : k \in 0 .. Pk(p).n
  BY <1>1, Consts
<1>4. \A p \in InFlight : \A k \in 0 .. Pk(p).n - 1 : Dist(At(p, k)) = Dist(Hd(p)) + k
  BY <1>3, AtFacts
<1>5. NDesc \in Nat
  BY Consts
<1>6. \A p, r \in Heads : p = r \/ (p \in InFlight /\ r \in p + 1 .. Queued + 1) \/ (r \in InFlight /\ p \in r + 1 .. Queued + 1)
  BY <1>1 DEF Heads, InFlight
<1>7. ASSUME NEW p \in InFlight, NEW r \in Heads, NEW k \in 0 .. Pk(p).n - 1, NEW j \in Nat,
             p # r, Dist(Hd(p)) + k = Dist(Hd(r)) + j
      PROVE  r \in InFlight /\ j >= Pk(r).n
  <2> DEFINE x == Dist(Hd(p))
             y == Dist(Hd(r))
             n == Pk(p).n
  <2>1. x \in Nat /\ y \in Nat /\ n \in Nat /\ k \in Nat /\ k < n /\ x + k = y + j
    BY <1>1, <1>5, <1>7
  <2>2. p \in Heads
    BY <1>1
  <2>3. CASE r \in p + 1 .. Queued + 1
    <3>1. x + n <= y
      BY <1>2, <2>3
    <3> QED BY <2>1, <3>1
  <2>4. CASE r \in InFlight /\ p \in r + 1 .. Queued + 1
    <3>1. y + Pk(r).n <= x /\ Pk(r).n \in Nat
      BY <1>1, <1>2, <1>5, <2>4
    <3> QED BY <2>1, <2>4, <3>1
  <2> QED BY <1>6, <1>7, <2>2, <2>3, <2>4
<1>8. ASSUME NEW p \in InFlight, NEW r \in InFlight, NEW k \in 0 .. Pk(p).n - 1, NEW j \in 0 .. Pk(r).n - 1,
             At(p, k) = At(r, j)
      PROVE  p = r /\ k = j
  <2>1. Dist(Hd(p)) + k = Dist(Hd(r)) + j
    BY <1>4, <1>8
  <2>2. j \in Nat /\ j < Pk(r).n /\ k \in Nat /\ Dist(Hd(p)) \in Nat
    BY <1>1, <1>5
  <2>3. p = r
    BY <1>1, <1>7, <2>1, <2>2
  <2> QED BY <2>1, <2>2, <2>3
<1>9. ASSUME NEW p \in InFlight, NEW r \in Heads, NEW k \in 0 .. Pk(p).n - 1, At(p, k) = Hd(r)
      PROVE  p = r /\ k = 0
  <2>0. Dist(Hd(r)) \in Nat /\ Dist(Hd(p)) \in Nat /\ k \in Nat
    BY <1>1, <1>5
  <2>1. Dist(Hd(p)) + k = Dist(Hd(r)) + 0
    BY <1>4, <1>9, <2>0
  <2>2. p = r
    BY <1>1, <1>7, <2>1
  <2> QED BY <2>0, <2>1, <2>2
<1>10. ASSUME NEW p \in Heads, NEW r \in Heads, Hd(p) = Hd(r), p # r
       PROVE  FALSE
  <2>1. p \in InFlight \/ r \in InFlight
    BY <1>6, <1>10
  <2>2. \A q \in InFlight : 0 \in 0 .. Pk(q).n - 1 /\ At(q, 0) = Hd(q)
    BY <1>1, AtFacts
  <2> QED BY <1>9, <1>10, <2>1, <2>2
<1> QED BY <1>8, <1>9, <1>10

\* The oldest descriptor moves on by x.
LEMMA RingShift ==
  ASSUME NEW o \in Desc, NEW a \in Desc, NEW x \in 0 .. NDesc - 1, x <= (a - o) % NDesc
  PROVE  (a - ((o + x) % NDesc)) % NDesc = ((a - o) % NDesc) - x
<1>1. NDesc \in Nat /\ NDesc > 1 /\ a \in 0 .. NDesc - 1 /\ o \in 0 .. NDesc - 1 /\ Desc = 0 .. NDesc - 1
  BY Consts DEF Desc
<1> DEFINE c == (o + x) % NDesc
           u == (a - o) % NDesc
           w == (a - c) % NDesc
<1>2. c = IF o + x < NDesc THEN o + x ELSE o + x - NDesc
  BY RingAdd
<1>3. u = IF o <= a THEN a - o ELSE a - o + NDesc
  BY RingSub
<1>4. c \in Desc
  BY <1>1, <1>2
<1>5. w = IF c <= a THEN a - c ELSE a - c + NDesc
  BY <1>4, RingSub
<1>6. x <= u
  OBVIOUS
<1>8. w = (a - ((o + x) % NDesc)) % NDesc /\ u = (a - o) % NDesc
  OBVIOUS
<1> HIDE DEF c, u, w
<1>7. w = u - x
  BY <1>1, <1>2, <1>3, <1>4, <1>5, <1>6
<1> QED BY <1>7, <1>8

\* A step that moves no packet.
LEMMA RingSame ==
  ASSUME g'.tail = g.tail, g'.old = g.old, g'.inflight = g.inflight, sentq' = sentq
  PROVE  /\ Queued' = Queued /\ Reaped' = Reaped /\ InFlight' = InFlight /\ Heads' = Heads
         /\ \A p : Pk(p)' = Pk(p) /\ Hd(p)' = Hd(p) /\ \A k : At(p, k)' = At(p, k)
         /\ \A d : Dist(d)' = Dist(d)
         /\ RingShape /\ (g'.pc = "append" => Len(g.inflight) >= 2) => RingShape'
<1>1. Queued' = Queued /\ Reaped' = Reaped /\ InFlight' = InFlight /\ Heads' = Heads
  BY DEF Queued, Reaped, InFlight, Heads
<1>2. \A p : Pk(p)' = Pk(p)
  BY <1>1 DEF Pk
<1>3. \A p : Hd(p)' = Hd(p)
  BY <1>1, <1>2 DEF Hd
<1>4. \A p, k : At(p, k)' = At(p, k)
  BY <1>3 DEF At
<1>5. \A d : Dist(d)' = Dist(d)
  BY DEF Dist
<1>6. \A p : Dist(Hd(p))' = Dist(Hd(p))
  BY <1>3 DEF Dist
<1>7. \A p : Dist(Hd(p + 1))' = Dist(Hd(p + 1))
  BY <1>3 DEF Dist
<1>8. RingShape /\ (g'.pc = "append" => Len(g.inflight) >= 2) => RingShape'
  <2>1. Hd(Reaped + 1)' = Hd(Reaped + 1)
    BY <1>1, <1>2 DEF Hd, Pk
  <2> QED BY <1>1, <1>2, <1>6, <1>7, <2>1 DEF RingShape
<1> QED BY <1>1, <1>2, <1>3, <1>4, <1>5, <1>8

LEMMA QueueRing ==
  ASSUME TxInv, RingShape, NEW s \in Shapes, GuestQueue(s)
  PROVE  /\ Queued' = Queued + 1 /\ Reaped' = Reaped /\ InFlight' = Reaped + 1 .. Queued + 1
         /\ \A p \in InFlight : Pk(p)' = Pk(p) /\ \A k : At(p, k)' = At(p, k)
         /\ \A p \in Heads : Hd(p)' = Hd(p)
         /\ \A p : p = Queued + 1 => Pk(p)'.n = Len(s) /\ Hd(p)' = g.tail /\ \A k : At(p, k)' = (g.tail + k) % NDesc
         /\ Len(s) \in 1 .. NDesc - 1 /\ Dist(Hd(Queued + 1)) + Len(s) <= NDesc - 1
         /\ RingShape'
<1> DEFINE n == Len(s)
           new == [head |-> g.tail, n |-> n]
<1>1. /\ g'.tail = (g.tail + n) % NDesc /\ g'.inflight = Append(g.inflight, new) /\ g'.old = g.old
      /\ g'.pc = IF g.old = g.tail THEN "check" ELSE "append"
      /\ \E f : sentq' = Append(sentq, f)
      /\ n <= Free
  BY DEF GuestQueue, TxInv, DriverOk
<1>2. g.inflight \in Seq(Packets) /\ sentq \in Seq(Seq(Byte)) /\ g.tail \in Desc /\ g.old \in Desc
  BY DEF TxInv, DriverOk, HistoryOk
<1>3. n \in 1 .. NDesc - 1 /\ NDesc \in Nat /\ NDesc > 1
  BY TxConstants
<1> HIDE DEF n
<1>4. new \in Packets /\ new.head = g.tail /\ new.n = n
  BY <1>2, <1>3 DEF Packets
<1> HIDE DEF new
<1>5. Len(g'.inflight) = Len(g.inflight) + 1 /\ Len(g.inflight) \in Nat /\ Len(sentq) \in Nat
  BY <1>1, <1>2, <1>4
<1>6. Len(sentq') = Len(sentq) + 1
  <2>1. PICK f : sentq' = Append(sentq, f)
    BY <1>1
  <2> QED BY <1>2, <2>1
<1>7. Queued' = Queued + 1 /\ Reaped' = Reaped /\ Queued \in Nat /\ Reaped \in Nat /\ Len(g.inflight) = Queued - Reaped
  BY <1>5, <1>6, RingFacts DEF Queued, Reaped
<1>q. PICK q1 \in Nat : q1 = Queued + 1
  BY <1>7
<1>8. InFlight' = Reaped + 1 .. q1 /\ Heads' = Reaped + 1 .. q1 + 1
  BY <1>7, <1>q DEF InFlight, Heads
<1>9. ASSUME NEW p \in InFlight PROVE Pk(p)' = Pk(p) /\ p # q1 /\ p # q1 + 1
  <2>1. p - Reaped \in 1 .. Len(g.inflight) /\ p # q1 /\ p # q1 + 1
    BY <1>7, <1>q DEF InFlight
  <2>2. g'.inflight[p - Reaped] = g.inflight[p - Reaped]
    BY <1>1, <1>2, <1>4, <2>1, AppendProperties
  <2> QED BY <1>7, <2>1, <2>2 DEF Pk
<1>10. Pk(q1)' = new
  <2>1. q1 - Reaped = Len(g.inflight) + 1
    BY <1>7, <1>q
  <2>2. g'.inflight[Len(g.inflight) + 1] = new
    BY <1>1, <1>2, <1>4, AppendProperties
  <2> QED BY <1>7, <2>1, <2>2 DEF Pk
<1>11. ASSUME NEW p \in Heads PROVE Hd(p)' = Hd(p)
  <2>1. CASE p = q1
    BY <1>4, <1>7, <1>10, <1>q, <2>1 DEF Hd
  <2>2. CASE p # q1
    <3>1. p \in InFlight
      BY <1>7, <1>q, <2>2 DEF Heads, InFlight
    <3> QED BY <1>7, <1>9, <1>q, <2>2, <3>1 DEF Hd
  <2> QED BY <2>1, <2>2
<1>12. q1 \in Heads /\ Hd(q1) = g.tail /\ Hd(q1 + 1)' = (g.tail + n) % NDesc
  BY <1>1, <1>7, <1>q DEF Heads, Hd
<1>13. \A p \in InFlight : p \in Heads /\ p + 1 \in Heads
  BY RingFacts
<1>14. \A d : Dist(d)' = Dist(d)
  BY <1>1 DEF Dist
<1>15. Dist(g.tail) + n <= NDesc - 1 /\ Dist(g.tail) \in Nat /\ Dist((g.tail + n) % NDesc) = Dist(g.tail) + n
  <2> DEFINE x == (g.tail - g.old) % NDesc
  <2>1. x \in 0 .. NDesc - 1
    BY <1>2, RingSub
  <2>2. n <= NDesc - 1 - x
    BY <1>1 DEF Free
  <2>3. x = Dist(g.tail)
    BY DEF Dist
  <2> HIDE DEF x
  <2>4. n \in 0 .. NDesc - 1 /\ x + n < NDesc /\ x + n <= NDesc - 1 /\ x \in Nat
    BY <1>3, <2>1, <2>2
  <2>5. (((g.tail + n) % NDesc) - g.old) % NDesc = ((g.tail - g.old) % NDesc) + n
    <3>1. ((g.tail - g.old) % NDesc) + n < NDesc
      BY <2>4 DEF x
    <3> QED BY <1>2, <2>4, <3>1, RingWalkOn
  <2> QED BY <2>3, <2>4, <2>5 DEF Dist
<1>16. \A p \in Heads : Dist(Hd(p))' = Dist(Hd(p))
  BY <1>1, <1>11 DEF Dist
<1>17. Dist(Hd(q1 + 1))' = Dist(g.tail) + n
  BY <1>1, <1>12, <1>15 DEF Dist
<1>18. \A p \in InFlight : Dist(Hd(p + 1))' = Dist(Hd(p + 1))
  BY <1>1, <1>11, <1>13 DEF Dist
<1>19. \A p \in Reaped + 1 .. q1 : p = q1 \/ p \in InFlight
  BY <1>7, <1>q DEF InFlight
<1>20. \A p \in InFlight' : Pk(p).n' \in 1 .. NDesc - 1 /\ Dist(Hd(p + 1))' = Dist(Hd(p))' + Pk(p).n'
  <2> SUFFICES ASSUME NEW p \in Reaped + 1 .. q1
               PROVE  Pk(p).n' \in 1 .. NDesc - 1 /\ Dist(Hd(p + 1))' = Dist(Hd(p))' + Pk(p).n'
    BY <1>8
  <2>1. CASE p = q1
    BY <1>3, <1>4, <1>10, <1>12, <1>16, <1>17, <2>1
  <2>2. CASE p \in InFlight
    BY <1>9, <1>13, <1>16, <1>18, <2>2 DEF RingShape
  <2> QED BY <1>19, <2>1, <2>2
<1>21. ASSUME NEW p \in Reaped + 1 .. q1, NEW r \in p + 1 .. q1 + 1
       PROVE  Dist(Hd(p))' + Pk(p).n' <= Dist(Hd(r))'
  <2>1. CASE p = q1
    <3>1. r = q1 + 1
      BY <2>1, <1>q
    <3> QED BY <1>3, <1>4, <1>10, <1>12, <1>15, <1>16, <1>17, <2>1, <3>1
  <2>2. CASE p \in InFlight /\ r = q1 + 1
    <3>1. q1 \in p + 1 .. Queued + 1 /\ Pk(p).n \in Nat
      BY <1>3, <1>7, <1>q, <2>2, RingFacts DEF InFlight
    <3>2. Dist(Hd(p)) + Pk(p).n <= Dist(Hd(q1))
      BY <2>2, <3>1 DEF RingShape
    <3>3. Dist(Hd(p)) \in Nat
      BY <1>13, <2>2, Consts, RingFacts
    <3>4. Dist(Hd(p))' = Dist(Hd(p)) /\ Pk(p)' = Pk(p) /\ Dist(Hd(r))' = Dist(g.tail) + n
      BY <1>9, <1>13, <1>16, <1>17, <2>2
    <3> QED BY <1>3, <1>12, <1>15, <3>1, <3>2, <3>3, <3>4
  <2>3. CASE p \in InFlight /\ r # q1 + 1
    <3>1. r \in p + 1 .. Queued + 1 /\ r \in Heads
      BY <1>7, <1>q, <2>3 DEF InFlight, Heads
    <3> QED BY <1>9, <1>13, <1>16, <2>3, <3>1 DEF RingShape
  <2> QED BY <1>19, <2>1, <2>2, <2>3
<1>22. g'.pc = "append" => Len(g'.inflight) >= 2
  <2>1. g.old # g.tail => Len(g.inflight) # 0
    <3>1. Hd(Reaped + 1) = g.old
      BY DEF RingShape
    <3> QED BY <1>7, <3>1 DEF Hd
  <2> QED BY <1>1, <1>5, <2>1
<1>23. Reaped + 1 \in Heads
  BY <1>7 DEF Heads
<1>24. Hd(Reaped + 1)' = g'.old
  <2>1. PICK z : z = Reaped + 1
    OBVIOUS
  <2>2. Hd(z)' = Hd(z)
    BY <1>11, <1>23, <2>1
  <2>3. Hd(z) = g.old
    BY <2>1 DEF RingShape
  <2>4. z = (Reaped + 1)'
    BY <1>7, <2>1
  <2> QED BY <1>1, <2>2, <2>3, <2>4 DEF Hd, Pk
<1>25. RingShape'
  <2>1. (Queued + 1)' = q1 + 1
    BY <1>7, <1>q
  <2>2. \A p \in InFlight' : \A r \in p + 1 .. (Queued + 1)' : Dist(Hd(p))' + Pk(p).n' <= Dist(Hd(r))'
    BY <1>8, <1>21, <2>1
  <2> QED BY <1>7, <1>20, <1>22, <1>24, <2>2 DEF RingShape
<1>26. \A p \in InFlight : \A k : At(p, k)' = At(p, k)
  BY <1>11, <1>13 DEF At
<1>27. Hd(q1)' = g.tail /\ \A k : At(q1, k)' = (g.tail + k) % NDesc
  BY <1>11, <1>12 DEF At
<1> QED BY <1>3, <1>4, <1>7, <1>8, <1>9, <1>10, <1>11, <1>12, <1>15, <1>25, <1>26, <1>27, <1>q DEF n

\* Reclaiming the oldest packet.
LEMMA ReapRing ==
  ASSUME TxInv, RingShape, GuestReap, Reapable
  PROVE  /\ Queued' = Queued /\ Reaped' = Reaped + 1 /\ InFlight' = Reaped + 2 .. Queued
         /\ Reaped + 1 \in InFlight /\ g.inflight[1] = Pk(Reaped + 1)
         /\ \A p \in Reaped + 2 .. Queued : Pk(p)' = Pk(p) /\ \A k : At(p, k)' = At(p, k)
         /\ \A p \in Reaped + 2 .. Queued + 1 : Hd(p)' = Hd(p)
         /\ RingShape'
<1>1. g' = [g EXCEPT !.inflight = Tail(@), !.old = (@ + g.inflight[1].n) % NDesc] /\ g.inflight # <<>>
      /\ sentq' = sentq /\ g.pc = "reap"
  BY DEF GuestReap, Reapable
<1>2. /\ g'.inflight = Tail(g.inflight) /\ g'.old = (g.old + g.inflight[1].n) % NDesc /\ g'.tail = g.tail
      /\ g'.pc = "reap"
  BY <1>1 DEF TxInv, DriverOk
<1>3. g.inflight \in Seq(Packets) /\ sentq \in Seq(Seq(Byte)) /\ g.tail \in Desc /\ g.old \in Desc
  BY DEF TxInv, DriverOk, HistoryOk
<1>4. Len(g.inflight) \in Nat /\ Len(g.inflight) # 0 /\ Len(Tail(g.inflight)) = Len(g.inflight) - 1
      /\ \A i \in 1 .. Len(g.inflight) - 1 : Tail(g.inflight)[i] = g.inflight[i + 1]
  BY <1>1, <1>3, EmptySeq, HeadTailProperties
<1>5. Queued \in Nat /\ Reaped \in Nat /\ Len(g.inflight) = Queued - Reaped
  BY RingFacts
<1>6. Queued' = Queued /\ Reaped' = Reaped + 1
  <2>1. sentq' = sentq /\ Len(g'.inflight) = Len(g.inflight) - 1 /\ Len(g.inflight) \in Nat /\ Len(sentq) \in Nat
    BY <1>1, <1>2, <1>4, <1>3, LenProperties
  <2> QED BY <2>1 DEF Queued, Reaped
<1>7. InFlight' = Reaped + 2 .. Queued /\ Heads' = Reaped + 2 .. Queued + 1
  BY <1>5, <1>6 DEF InFlight, Heads
<1>8. PICK r1 \in Nat : r1 = Reaped + 1
  BY <1>5
<1>9. r1 \in InFlight /\ g.inflight[1] = Pk(r1) /\ r1 \in Heads
  <2>1. r1 - Reaped = 1 /\ r1 \in InFlight /\ r1 \in Heads
    BY <1>4, <1>5, <1>8 DEF InFlight, Heads
  <2> QED BY <2>1 DEF Pk
<1>10. ASSUME NEW p \in Reaped + 2 .. Queued PROVE Pk(p)' = Pk(p) /\ p \in InFlight /\ p \in Heads /\ p + 1 \in Reaped + 2 .. Queued + 1
  <2>1. p - (Reaped + 1) \in 1 .. Len(g.inflight) - 1 /\ (p - (Reaped + 1)) + 1 = p - Reaped
        /\ p \in InFlight /\ p \in Heads /\ p + 1 \in Reaped + 2 .. Queued + 1
    BY <1>5 DEF InFlight, Heads
  <2>2. Tail(g.inflight)[p - (Reaped + 1)] = g.inflight[p - Reaped]
    BY <1>4, <2>1
  <2> QED BY <1>2, <1>6, <2>1, <2>2 DEF Pk
<1>11. ASSUME NEW p \in Reaped + 2 .. Queued + 1 PROVE Hd(p)' = Hd(p) /\ p \in Heads
  <2>0. p \in Heads
    BY <1>5 DEF Heads
  <2>1. CASE p = Queued + 1
    BY <1>2, <1>6, <2>0, <2>1 DEF Hd
  <2>2. CASE p # Queued + 1
    <3>1. p \in Reaped + 2 .. Queued
      BY <1>5, <2>2
    <3> QED BY <1>6, <1>10, <2>0, <2>2, <3>1 DEF Hd
  <2> QED BY <2>1, <2>2
<1>12. Hd(r1) = g.old /\ Pk(r1).n \in 1 .. NDesc - 1 /\ g'.old = (g.old + Pk(r1).n) % NDesc
  BY <1>2, <1>8, <1>9, RingFacts DEF RingShape
<1>13. NDesc \in Nat /\ NDesc > 1
  BY Consts
<1> DEFINE n == Pk(r1).n
<1>14. g'.old = Hd(r1 + 1)
  <2>1. At(r1, n) = Hd(r1 + 1)
    BY <1>9, AtFacts
  <2> QED BY <1>12, <2>1 DEF At
<1>15. Dist(Hd(r1)) = 0
  <2>1. 0 \in 0 .. NDesc - 1
    BY <1>13
  <2> QED BY <1>3, <1>12, <1>13 DEF Dist, Desc
<1>16. n \in 0 .. NDesc - 1 /\ n \in Nat
  BY <1>12, <1>13
<1> HIDE DEF n
<1>17. ASSUME NEW p \in Reaped + 2 .. Queued + 1
       PROVE  Dist(Hd(p))' = Dist(Hd(p)) - n /\ Dist(Hd(p)) \in Nat
  <2>1. p \in r1 + 1 .. Queued + 1
    BY <1>5, <1>8
  <2>2. Dist(Hd(r1)) + Pk(r1).n <= Dist(Hd(p))
    BY <1>9, <2>1 DEF RingShape
  <2>3. Hd(p) \in Desc /\ Dist(Hd(p)) \in Nat
    BY <1>11, <1>13, RingFacts
  <2>4. n <= (Hd(p) - g.old) % NDesc
    BY <1>15, <1>16, <2>2, <2>3 DEF Dist, n
  <2>5. (Hd(p) - ((g.old + n) % NDesc)) % NDesc = ((Hd(p) - g.old) % NDesc) - n
    BY <1>3, <1>16, <2>3, <2>4, RingShift
  <2>6. g'.old = (g.old + n) % NDesc
    BY <1>12 DEF n
  <2> QED BY <1>11, <2>3, <2>5, <2>6 DEF Dist
<1>18. \A p \in InFlight' : Pk(p).n' \in 1 .. NDesc - 1 /\ Dist(Hd(p + 1))' = Dist(Hd(p))' + Pk(p).n'
  <2> SUFFICES ASSUME NEW p \in Reaped + 2 .. Queued
               PROVE  Pk(p).n' \in 1 .. NDesc - 1 /\ Dist(Hd(p + 1))' = Dist(Hd(p))' + Pk(p).n'
    BY <1>7
  <2>1. Pk(p)' = Pk(p) /\ p \in InFlight /\ p + 1 \in Reaped + 2 .. Queued + 1 /\ p \in Reaped + 2 .. Queued + 1
    BY <1>5, <1>10
  <2>2. Dist(Hd(p + 1)) = Dist(Hd(p)) + Pk(p).n /\ Pk(p).n \in 1 .. NDesc - 1
    BY <2>1, RingFacts DEF RingShape
  <2>3. Dist(Hd(p + 1))' = Dist(Hd(p + 1)) - n /\ Dist(Hd(p))' = Dist(Hd(p)) - n /\ Dist(Hd(p)) \in Nat /\ Pk(p).n \in Nat
    BY <1>13, <1>17, <2>1, <2>2
  <2> QED BY <1>16, <2>1, <2>2, <2>3
<1>19. ASSUME NEW p \in Reaped + 2 .. Queued, NEW r \in p + 1 .. Queued + 1
       PROVE  Dist(Hd(p))' + Pk(p).n' <= Dist(Hd(r))'
  <2>1. Pk(p)' = Pk(p) /\ p \in InFlight /\ p \in Reaped + 2 .. Queued + 1 /\ r \in Reaped + 2 .. Queued + 1
    BY <1>5, <1>10
  <2>2. Dist(Hd(p)) + Pk(p).n <= Dist(Hd(r)) /\ Pk(p).n \in 1 .. NDesc - 1
    BY <2>1, RingFacts DEF RingShape
  <2>3. /\ Dist(Hd(r))' = Dist(Hd(r)) - n /\ Dist(Hd(p))' = Dist(Hd(p)) - n
        /\ Dist(Hd(p)) \in Nat /\ Dist(Hd(r)) \in Nat /\ Pk(p).n \in Nat
    BY <1>13, <1>17, <2>1, <2>2
  <2> QED BY <1>16, <2>1, <2>2, <2>3
<1>20. Hd(Reaped + 1)' = g'.old
  <2>1. PICK z : z = r1 + 1
    OBVIOUS
  <2>2. z \in Reaped + 2 .. Queued + 1 /\ z = (Reaped + 1)'
    BY <1>4, <1>5, <1>6, <1>8, <2>1
  <2>3. Hd(z)' = Hd(z)
    BY <1>11, <2>2
  <2> QED BY <1>14, <2>1, <2>2, <2>3 DEF Hd, Pk
<1>21. RingShape'
  <2>1. \A p \in InFlight' : \A r \in p + 1 .. (Queued + 1)' : Dist(Hd(p))' + Pk(p).n' <= Dist(Hd(r))'
    BY <1>6, <1>7, <1>19
  <2> QED BY <1>2, <1>5, <1>6, <1>18, <1>20, <2>1 DEF RingShape
<1>22. \A p \in Reaped + 2 .. Queued : \A k : At(p, k)' = At(p, k)
  <2>1. \A p \in Reaped + 2 .. Queued : p \in Reaped + 2 .. Queued + 1
    BY <1>5
  <2> QED BY <1>11, <2>1 DEF At
<1> QED BY <1>6, <1>7, <1>8, <1>9, <1>10, <1>11, <1>21, <1>22

\* The fields of the driver after the actions that move no packet.
LEMMA DriverSame ==
  ASSUME TxInv, Next \/ UNCHANGED vars, ~(\E s \in Shapes : GuestQueue(s)), ~(GuestReap /\ Reapable)
  PROVE  /\ g'.tail = g.tail /\ g'.old = g.old /\ g'.inflight = g.inflight /\ sentq' = sentq /\ g'.rule = g.rule
         /\ g'.pc = "append" => g.pc = "append"
<1>1. DOMAIN g = {"pc", "rule", "tail", "old", "inflight", "stat", "bound"}
  BY DEF TxInv, DriverOk
<1>2. CASE Mem \/ ArmConsume \/ UNCHANGED vars
  BY <1>2 DEF Mem, ArmConsume, vars
<1>3. ASSUME NEW m, NEW rsp, NEW rxi, NEW c, Clock(m, rsp, rxi), g' = g \/ g' = [g EXCEPT !.pc = c], c # "append"
      PROVE  /\ g'.tail = g.tail /\ g'.old = g.old /\ g'.inflight = g.inflight /\ sentq' = sentq /\ g'.rule = g.rule
             /\ g'.pc = "append" => g.pc = "append"
  BY <1>1, <1>3 DEF Clock
<1>4. CASE \E rsp, rxi \in BOOLEAN : Idle(rsp, rxi) \/ GuestIsr(rsp, rxi)
  <2>1. PICK rsp, rxi \in BOOLEAN : Idle(rsp, rxi) \/ GuestIsr(rsp, rxi)
    BY <1>4
  <2>2. CASE Idle(rsp, rxi)
    <3>1. Clock(NoMmio, rsp, rxi) /\ g' = g /\ "idle" # "append"
      BY <2>2 DEF Idle
    <3> QED BY <1>3, <3>1
  <2>3. CASE GuestIsr(rsp, rxi)
    <3>1. Clock([op |-> "clrirq", val |-> 0], rsp, rxi) /\ g' = [g EXCEPT !.pc = "status"] /\ "status" # "append"
      BY <2>3 DEF GuestIsr
    <3> QED BY <1>3, <3>1
  <2> QED BY <2>1, <2>2, <2>3
<1>5. CASE \E rsp \in BOOLEAN : GuestNbdp(rsp) \/ GuestKick(rsp)
  <2>1. PICK rsp \in BOOLEAN : GuestNbdp(rsp) \/ GuestKick(rsp)
    BY <1>5
  <2>2. PICK m, c : Clock(m, rsp, FALSE) /\ g' = [g EXCEPT !.pc = c] /\ c # "append"
    <3>1. CASE GuestNbdp(rsp)
      <4>1. \/ g' = [g EXCEPT !.pc = "idle"] /\ Clock(NoMmio, rsp, FALSE)
            \/ g' = [g EXCEPT !.pc = "ctrl"] /\ Clock([op |-> "nbdp", val |-> FirstUnsent], rsp, FALSE)
        BY <3>1 DEF GuestNbdp
      <4>2. "idle" # "append" /\ "ctrl" # "append"
        OBVIOUS
      <4> QED BY <4>1, <4>2
    <3>2. CASE GuestKick(rsp)
      <4>1. g' = [g EXCEPT !.pc = "idle"] /\ Clock([op |-> "ctrl", val |-> 0], rsp, FALSE) /\ "idle" # "append"
        BY <3>2 DEF GuestKick
      <4> QED BY <4>1
    <3> QED BY <2>1, <3>1, <3>2
  <2> QED BY <1>3, <2>2
<1>6. CASE GuestAppend
  BY <1>1, <1>6 DEF GuestAppend
<1>7. CASE GuestCheck \/ GuestStatus \/ GuestBound
  BY <1>1, <1>7 DEF GuestCheck, GuestStatus, GuestBound
<1>8. CASE GuestReap /\ ~Reapable
  <2>1. g' = [g EXCEPT !.pc = IF g.inflight # <<>> /\ ~g.stat THEN "nbdp" ELSE "idle",
                       !.stat = FALSE, !.bound = 0] /\ sentq' = sentq
    BY <1>8 DEF GuestReap
  <2>2. g'.pc = (IF g.inflight # <<>> /\ ~g.stat THEN "nbdp" ELSE "idle")
    BY <1>1, <2>1
  <2> QED BY <1>1, <2>1, <2>2
<1> QED BY <1>2, <1>4, <1>5, <1>6, <1>7, <1>8 DEF Next

LEMMA RingInit == Init => RingShape
<1> SUFFICES ASSUME Init
             PROVE  RingShape
  OBVIOUS
<1>1. g.inflight = <<>> /\ g.tail = 0 /\ g.old = 0 /\ g.pc = "idle" /\ sentq = <<>>
  BY DEF Init, GuestInit
<1>2. Reaped = 0 /\ Queued = 0
  BY <1>1 DEF Reaped, Queued
<1>3. Hd(Reaped + 1) = g.old
  BY <1>1, <1>2 DEF Hd
<1>4. InFlight = {}
  BY <1>2 DEF InFlight
<1> QED BY <1>1, <1>2, <1>3, <1>4 DEF RingShape

LEMMA RingStep == TxInv /\ RingShape /\ [Next]_vars => RingShape'
<1> SUFFICES ASSUME TxInv, RingShape, [Next]_vars
             PROVE  RingShape'
  OBVIOUS
<1>1. CASE \E s \in Shapes : GuestQueue(s)
  BY <1>1, QueueRing
<1>2. CASE GuestReap /\ Reapable
  BY <1>2, ReapRing
<1>3. CASE ~(\E s \in Shapes : GuestQueue(s)) /\ ~(GuestReap /\ Reapable)
  <2>1. /\ g'.tail = g.tail /\ g'.old = g.old /\ g'.inflight = g.inflight /\ sentq' = sentq
        /\ g'.pc = "append" => g.pc = "append"
    BY <1>3, DriverSame
  <2>2. g'.pc = "append" => Len(g.inflight) >= 2
    BY <2>1 DEF RingShape
  <2> QED BY <2>1, <2>2, RingSame
<1> QED BY <1>1, <1>2, <1>3
-----------------------------------------------------------------------------
(* The descriptors of the packets in flight: end marks and bytes *)

\* Descriptor k of packet p has the end marks of its place: EOXP on the last one, EOX at most
\* there, and only the youngest packet may end without EOX.
Ends(eox, eoxp, p, k) ==
  /\ eoxp <=> k = Pk(p).n - 1
  /\ eox => k = Pk(p).n - 1
  /\ ~eox /\ k = Pk(p).n - 1 => p < Queued

EndsOk ==
  \A p \in InFlight : \A k \in 0 .. Pk(p).n - 1 :
     Ends(desc[At(p, k)].eox, desc[At(p, k)].eoxp, p, k)

\* b[k] bytes of packet p come before its descriptor k, and the buffers are the frame.
Starts(b, p) ==
  /\ b[0] = 0 /\ b[Pk(p).n] = Len(sentq[p])
  /\ \A k \in 0 .. Pk(p).n - 1 :
       /\ b[k] \in Nat /\ b[k + 1] = b[k] + Len(desc[At(p, k)].buf)
       /\ \A j \in 1 .. Len(desc[At(p, k)].buf) : sentq[p][b[k] + j] = desc[At(p, k)].buf[j]

FramesOk == \A p \in InFlight : \E b : Starts(b, p)

\* The bytes of the first buffers start those of all.
LEMMA BytesPrefix ==
  ASSUME NEW f, NEW n \in Nat, \A i \in 1 .. n : f[i] \in Seq(Byte)
  PROVE  \A m \in 0 .. n : \A l \in 0 .. m :
           /\ Len(BytesTo(f, l)) <= Len(BytesTo(f, m))
           /\ \A j \in 1 .. Len(BytesTo(f, l)) : BytesTo(f, m)[j] = BytesTo(f, l)[j]
<1> DEFINE P(m) == \A l \in 0 .. m :
                     /\ Len(BytesTo(f, l)) <= Len(BytesTo(f, m))
                     /\ \A j \in 1 .. Len(BytesTo(f, l)) : BytesTo(f, m)[j] = BytesTo(f, l)[j]
           S == {m \in Nat : m <= n => P(m)}
<1>1. \A m \in 0 .. n : BytesTo(f, m) \in Seq(Byte) /\ Len(BytesTo(f, m)) \in Nat
  <2>1. \A m \in 0 .. n : BytesTo(f, m) \in Seq(Byte)
    BY BytesType
  <2> QED BY <2>1, LenProperties
<1>2. 0 \in S
  <2>1. Len(BytesTo(f, 0)) \in Nat
    BY <1>1
  <2> QED BY <2>1
<1>3. \A m \in Nat : m \in S => m + 1 \in S
  <2> SUFFICES ASSUME NEW m \in Nat, m + 1 <= n, P(m)
               PROVE  P(m + 1)
    <3> HIDE DEF P
    <3> QED OBVIOUS
  <2> SUFFICES ASSUME NEW l \in 0 .. m + 1
               PROVE  /\ Len(BytesTo(f, l)) <= Len(BytesTo(f, m + 1))
                      /\ \A j \in 1 .. Len(BytesTo(f, l)) : BytesTo(f, m + 1)[j] = BytesTo(f, l)[j]
    BY Zenon
  <2> DEFINE x == BytesTo(f, m)
             y == BytesTo(f, m + 1)
             z == BytesTo(f, l)
  <2>1. y = x \o f[m + 1]
    BY BytesToFacts
  <2>2. x \in Seq(Byte) /\ y \in Seq(Byte) /\ z \in Seq(Byte) /\ f[m + 1] \in Seq(Byte)
    BY <1>1
  <2>3. l # m + 1 => Len(z) <= Len(x) /\ \A j \in 1 .. Len(z) : x[j] = z[j]
    OBVIOUS
  <2>4. l = m + 1 => z = y
    OBVIOUS
  <2> HIDE DEF x, y, z
  <2>5. Len(y) = Len(x) + Len(f[m + 1]) /\ \A j \in 1 .. Len(x) : y[j] = x[j]
    BY <2>1, <2>2, ConcatProperties
  <2>6. Len(x) \in Nat /\ Len(y) \in Nat /\ Len(z) \in Nat /\ Len(f[m + 1]) \in Nat
    BY <2>2, LenProperties
  <2>7. Len(z) <= Len(y) /\ \A j \in 1 .. Len(z) : y[j] = z[j]
    BY <2>3, <2>4, <2>5, <2>6
  <2> QED BY <2>7 DEF y, z
<1> HIDE DEF S
<1>4. \A m \in Nat : m \in S
  BY <1>2, <1>3, NatSetInduction
<1> QED BY <1>4 DEF S

\* Where the buffers of a frame start in its bytes.
LEMMA FrameStarts ==
  ASSUME NEW s \in Shapes, NEW p \in Nat
  PROVE  \E b : /\ b[0] = 0 /\ b[Len(s)] = Len(FlattenFrame(Frame(p, s)))
                /\ \A k \in 0 .. Len(s) - 1 :
                     /\ b[k] \in Nat /\ b[k + 1] = b[k] + Len(Frame(p, s)[k + 1])
                     /\ \A j \in 1 .. Len(Frame(p, s)[k + 1]) :
                          FlattenFrame(Frame(p, s))[b[k] + j] = Frame(p, s)[k + 1][j]
<1> DEFINE f == Frame(p, s)
           n == Len(s)
           all == FlattenFrame(f)
           b == [k \in 0 .. n |-> Len(BytesTo(f, k))]
<1>1. n \in Nat /\ n >= 1 /\ Len(f) = n /\ \A i \in 1 .. n : f[i] \in Seq(Byte)
  BY FrameType, Consts
<1> HIDE DEF f, n
<1>2. all = BytesTo(f, n)
  BY <1>1 DEF FlattenFrame, BytesTo
<1> HIDE DEF all
<1>3. \A m \in 0 .. n : BytesTo(f, m) \in Seq(Byte)
  BY <1>1, BytesType
<1>4. \A m \in 0 .. n : b[m] = Len(BytesTo(f, m)) /\ b[m] \in Nat
  BY <1>3, LenProperties
<1> HIDE DEF b
<1>5. b[0] = 0 /\ b[n] = Len(all)
  <2>1. BytesTo(f, 0) = <<>>
    BY BytesToFacts
  <2> QED BY <1>1, <1>2, <1>4, <2>1
<1>6. ASSUME NEW k \in 0 .. n - 1
      PROVE  /\ b[k] \in Nat /\ b[k + 1] = b[k] + Len(f[k + 1])
             /\ \A j \in 1 .. Len(f[k + 1]) : all[b[k] + j] = f[k + 1][j]
  <2> DEFINE x == BytesTo(f, k)
             y == BytesTo(f, k + 1)
  <2>1. k \in 0 .. n /\ k + 1 \in 0 .. n /\ k + 1 \in 1 .. n /\ k \in Nat /\ n \in 0 .. n /\ k + 1 \in 0 .. n
    BY <1>1
  <2>2. y = x \o f[k + 1]
    BY <2>1, BytesToFacts
  <2>3. x \in Seq(Byte) /\ f[k + 1] \in Seq(Byte) /\ Len(x) = b[k] /\ Len(y) = b[k + 1] /\ b[k] \in Nat /\ b[k + 1] \in Nat
    BY <1>1, <1>3, <1>4, <2>1
  <2>4. \A j \in 1 .. Len(y) : all[j] = y[j]
    BY <1>1, <1>2, <2>1, BytesPrefix
  <2> HIDE DEF x, y
  <2>5. Len(y) = Len(x) + Len(f[k + 1]) /\ \A j \in Len(x) + 1 .. Len(x) + Len(f[k + 1]) : y[j] = f[k + 1][j - Len(x)]
    <3> DEFINE z == f[k + 1]
    <3>1. y = x \o z /\ x \in Seq(Byte) /\ z \in Seq(Byte)
      BY <2>2, <2>3
    <3> HIDE DEF z
    <3>2. Len(y) = Len(x) + Len(z) /\ \A j \in 1 .. Len(x) + Len(z) : y[j] = IF j <= Len(x) THEN x[j] ELSE z[j - Len(x)]
      BY <3>1, ConcatProperties
    <3>3. Len(x) \in Nat /\ Len(z) \in Nat
      BY <3>1, LenProperties
    <3>4. \A j \in Len(x) + 1 .. Len(x) + Len(z) : y[j] = z[j - Len(x)]
      BY <3>2, <3>3
    <3> QED BY <3>2, <3>4 DEF z
  <2>6. Len(f[k + 1]) \in Nat
    BY <2>3, LenProperties
  <2>7. ASSUME NEW j \in 1 .. Len(f[k + 1]) PROVE all[b[k] + j] = f[k + 1][j]
    <3>1. b[k] + j \in Len(x) + 1 .. Len(x) + Len(f[k + 1]) /\ b[k] + j \in 1 .. Len(y) /\ (b[k] + j) - Len(x) = j
      BY <2>3, <2>5, <2>6
    <3> QED BY <2>4, <2>5, <3>1
  <2> QED BY <2>3, <2>5, <2>7
<1> QED BY <1>5, <1>6 DEF f, n, all

\* A packet whose buffers and frame stay has its starts.
LEMMA StartsSame ==
  ASSUME NEW p, NEW n \in Nat, Pk(p).n = n, Pk(p)'.n = n, sentq'[p] = sentq[p],
         \A k \in 0 .. n - 1 : desc'[At(p, k)'].buf = desc[At(p, k)].buf
  PROVE  \A b : Starts(b, p)' <=> Starts(b, p)
<1> TAKE b
<1> DEFINE B(k) == desc[At(p, k)].buf
           C(k) == desc'[At(p, k)'].buf
<1>1. \A k \in 0 .. n - 1 : C(k) = B(k)
  OBVIOUS
<1>2. Starts(b, p) <=> /\ b[0] = 0 /\ b[n] = Len(sentq[p])
                       /\ \A k \in 0 .. n - 1 : /\ b[k] \in Nat /\ b[k + 1] = b[k] + Len(B(k))
                                                 /\ \A j \in 1 .. Len(B(k)) : sentq[p][b[k] + j] = B(k)[j]
  BY DEF Starts
<1>3. Starts(b, p)' <=> /\ b[0] = 0 /\ b[n] = Len(sentq'[p])
                        /\ \A k \in 0 .. n - 1 : /\ b[k] \in Nat /\ b[k + 1] = b[k] + Len(C(k))
                                                  /\ \A j \in 1 .. Len(C(k)) : sentq'[p][b[k] + j] = C(k)[j]
  BY DEF Starts
<1> HIDE DEF B, C
<1> QED BY <1>1, <1>2, <1>3, SMTT(40)

\* Queueing fills free descriptors only.
LEMMA QueueDesc ==
  ASSUME TxInv, RingShape, NEW s \in Shapes, GuestQueue(s)
  PROVE  /\ \A p \in InFlight : \A k \in 0 .. Pk(p).n - 1 : desc'[At(p, k)] = desc[At(p, k)]
         /\ \A k \in 0 .. Len(s) - 1 :
              /\ desc'[(g.tail + k) % NDesc].eox <=> k = Len(s) - 1
              /\ desc'[(g.tail + k) % NDesc].eoxp <=> k = Len(s) - 1
              /\ ~desc'[(g.tail + k) % NDesc].etxd
              /\ desc'[(g.tail + k) % NDesc].buf = Frame(Queued + 1, s)[k + 1]
         /\ sentq' = Append(sentq, FlattenFrame(Frame(Queued + 1, s)))
<1> DEFINE f == Frame(Queued + 1, s)
           n == Len(s)
           pos(d) == ((d - g.tail) % NDesc) + 1
           fill(d) == [eox |-> pos(d) = n, eoxp |-> pos(d) = n, etxd |-> FALSE,
                       off |-> s[pos(d)].off, buf |-> f[pos(d)]]
<1>1. /\ desc' = [d \in Desc |-> IF pos(d) <= n THEN fill(d) ELSE desc[d]]
      /\ sentq' = Append(sentq, FlattenFrame(f))
  BY DEF GuestQueue, Queued
<1>2. /\ n \in 1 .. NDesc - 1 /\ Dist(Hd(Queued + 1)) + n <= NDesc - 1 /\ NDesc \in Nat /\ NDesc > 1
      /\ g.tail \in Desc /\ g.old \in Desc /\ Hd(Queued + 1) = g.tail
  BY QueueRing, Consts DEF TxInv, DriverOk, Hd
<1> HIDE DEF n, f
<1>3. ASSUME NEW p \in InFlight, NEW k \in 0 .. Pk(p).n - 1
      PROVE  desc'[At(p, k)] = desc[At(p, k)]
  <2> DEFINE d == At(p, k)
  <2>1. d \in Desc /\ Dist(d) = Dist(Hd(p)) + k
    <3>1. k \in 0 .. Pk(p).n
      BY RingFacts
    <3> QED BY <3>1, AtFacts
  <2>2. Dist(Hd(p)) + Pk(p).n <= Dist(g.tail)
    <3>1. Queued + 1 \in p + 1 .. Queued + 1
      BY RingFacts DEF InFlight
    <3> QED BY <1>2, <3>1 DEF RingShape
  <2>3. Dist(Hd(p)) \in Nat /\ Pk(p).n \in Nat /\ k \in Nat /\ k < Pk(p).n
    BY <1>2, RingFacts
  <2> HIDE DEF d
  <2>4. Dist(d) < Dist(g.tail) /\ Dist(g.tail) + n <= NDesc - 1
    <3>1. Dist(g.tail) \in Nat
      BY <1>2, RingSub DEF Dist
    <3> QED BY <1>2, <2>1, <2>2, <2>3, <3>1
  <2> DEFINE u == (d - g.old) % NDesc
             w == (g.tail - g.old) % NDesc
             v == (d - g.tail) % NDesc
  <2>5. /\ u = IF g.old <= d THEN d - g.old ELSE d - g.old + NDesc
        /\ w = IF g.old <= g.tail THEN g.tail - g.old ELSE g.tail - g.old + NDesc
        /\ v = IF g.tail <= d THEN d - g.tail ELSE d - g.tail + NDesc
    BY <1>2, <2>1, RingSub
  <2>6. u < w /\ w + n <= NDesc - 1 /\ pos(d) = v + 1
    BY <2>4 DEF Dist
  <2> HIDE DEF u, w, v, pos
  <2>7. ~(v + 1 <= n)
    BY <1>2, <2>1, <2>5, <2>6 DEF Desc
  <2>8. ~(pos(d) <= n)
    BY <2>6, <2>7
  <2>9. desc'[d] = desc[d]
    BY <1>1, <2>1, <2>8
  <2> QED BY <2>9 DEF d
<1>4. ASSUME NEW k \in 0 .. n - 1
      PROVE  /\ desc'[(g.tail + k) % NDesc].eox <=> k = n - 1
             /\ desc'[(g.tail + k) % NDesc].eoxp <=> k = n - 1
             /\ ~desc'[(g.tail + k) % NDesc].etxd
             /\ desc'[(g.tail + k) % NDesc].buf = f[k + 1]
  <2> DEFINE d == (g.tail + k) % NDesc
  <2>1. k \in 0 .. NDesc - 1
    BY <1>2
  <2>2. d \in Desc
    BY <1>2, <2>1, RingWalkOn
  <2>3. (((g.tail + k) % NDesc) - g.tail) % NDesc = k
    BY <1>2, <2>1, RingWalkOn
  <2>4. pos(d) = k + 1
    BY <2>3
  <2> HIDE DEF d
  <2>5. pos(d) <= n /\ (pos(d) = n <=> k = n - 1)
    BY <1>2, <2>4
  <2>6. desc'[d] = fill(d)
    BY <1>1, <2>2, <2>5
  <2> DEFINE u == desc'[d]
             e == pos(d) = n
             o == s[pos(d)].off
             w == f[pos(d)]
  <2>7. u = [eox |-> e, eoxp |-> e, etxd |-> FALSE, off |-> o, buf |-> w]
    BY <2>6
  <2>8. (e <=> k = n - 1) /\ w = f[k + 1]
    BY <2>4, <2>5
  <2> HIDE DEF pos, e, o, w, u, f, n
  <2>9. (u.eox <=> e) /\ (u.eoxp <=> e) /\ ~u.etxd /\ u.buf = w
    BY <2>7
  <2>10. (u.eox <=> k = n - 1) /\ (u.eoxp <=> k = n - 1) /\ ~u.etxd /\ u.buf = f[k + 1]
    BY <2>8, <2>9
  <2> QED BY <2>10 DEF d, u
<1> QED BY <1>1, <1>3, <1>4 DEF f, n

\* Reclaiming touches the oldest packet only.
LEMMA ReapDesc ==
  ASSUME TxInv, RingShape, GuestReap, Reapable
  PROVE  \A p \in Reaped + 2 .. Queued : \A k \in 0 .. Pk(p).n - 1 : desc'[At(p, k)] = desc[At(p, k)]
<1> SUFFICES ASSUME NEW p \in Reaped + 2 .. Queued, NEW k \in 0 .. Pk(p).n - 1
             PROVE  desc'[At(p, k)] = desc[At(p, k)]
  OBVIOUS
<1> DEFINE d == At(p, k)
           q == g.inflight[1]
<1>1. PICK r1 : r1 = Reaped + 1
  OBVIOUS
<1>2. r1 \in InFlight /\ q = Pk(r1) /\ Reaped \in Nat /\ Queued \in Nat /\ Hd(r1) = g.old
  BY <1>1, ReapRing, RingFacts DEF RingShape
<1>3. p \in InFlight /\ p \in r1 + 1 .. Queued + 1 /\ r1 # Queued + 1
  BY <1>1, <1>2 DEF InFlight
<1>4. q.head = g.old
  BY <1>2, <1>3 DEF Hd
<1>5. d \in Desc /\ Dist(d) = Dist(Hd(p)) + k /\ k \in Nat /\ Dist(Hd(p)) \in Nat
  <2>1. k \in 0 .. Pk(p).n /\ k \in Nat /\ Dist(Hd(p)) \in Nat
    BY <1>3, Consts, RingFacts
  <2> QED BY <1>3, <2>1, AtFacts
<1>6. Dist(Hd(r1)) + Pk(r1).n <= Dist(Hd(p)) /\ Dist(Hd(r1)) \in Nat /\ Pk(r1).n \in Nat
  BY <1>2, <1>3, Consts, RingFacts, SMTT(40) DEF RingShape
<1> HIDE DEF d
<1>7. ~(Dist(d) < q.n)
  BY <1>2, <1>5, <1>6
<1>8. ~((d - q.head) % NDesc < q.n)
  BY <1>4, <1>7 DEF Dist
<1>9. desc' = [e \in Desc |-> IF (e - q.head) % NDesc < q.n
                              THEN [NoDesc EXCEPT !.buf = [i \in 1 .. Len(desc[e].buf) |-> Junk]] ELSE desc[e]]
  BY DEF GuestReap
<1> HIDE DEF q
<1>10. desc'[d] = desc[d]
  BY <1>5, <1>8, <1>9
<1> QED BY <1>10 DEF d

\* An append clears EOX on the last descriptor of the youngest packet but one.
LEMMA AppendDesc ==
  ASSUME TxInv, RingShape, GuestAppend
  PROVE  /\ Queued - 1 \in InFlight
         /\ \A d \in Desc : /\ desc'[d].buf = desc[d].buf /\ desc'[d].eoxp = desc[d].eoxp /\ desc'[d].etxd = desc[d].etxd
                            /\ d # At(Queued - 1, Pk(Queued - 1).n - 1) => desc'[d].eox = desc[d].eox
                            /\ desc'[d].eox => desc[d].eox
<1> DEFINE L == Len(g.inflight)
           last == (g.inflight[L].head - 1) % NDesc
<1>1. g.pc = "append" /\ desc' = [desc EXCEPT ![last].eox = FALSE]
  BY DEF GuestAppend
<1>2. L >= 2 /\ Queued \in Nat /\ Reaped \in Nat /\ L = Queued - Reaped
  BY <1>1, RingFacts DEF RingShape
<1>3. PICK p : p = Queued - 1
  OBVIOUS
<1>4. p \in InFlight /\ p + 1 = Queued /\ p + 1 # Queued + 1 /\ (p + 1) - Reaped = L
  BY <1>2, <1>3 DEF InFlight
<1>5. Hd(p + 1) = g.inflight[L].head
  BY <1>4 DEF Hd, Pk
<1>6. last = At(p, Pk(p).n - 1)
  BY <1>4, <1>5, AtFacts
<1>7. DOMAIN desc = Desc /\ \A d \in Desc : IsDesc(desc[d])
  BY DEF TxInv, RingOk
<1> HIDE DEF last
<1>8. \A d \in Desc : /\ desc'[d].buf = desc[d].buf /\ desc'[d].eoxp = desc[d].eoxp /\ desc'[d].etxd = desc[d].etxd
                      /\ d # last => desc'[d].eox = desc[d].eox
                      /\ desc'[d].eox => desc[d].eox
  <2> TAKE d \in Desc
  <2>1. CASE d # last
    BY <1>1, <1>7, <2>1
  <2>2. CASE d = last
    <3>1. desc'[d] = [desc[d] EXCEPT !.eox = FALSE]
      BY <1>1, <1>7, <2>2
    <3>2. IsDesc(desc[d])
      BY <1>7
    <3> QED BY <2>2, <3>1, <3>2 DEF IsDesc
  <2> QED BY <2>1, <2>2
<1> QED BY <1>3, <1>4, <1>6, <1>8

\* The channel's write-back sets ETXD of one descriptor.
LEMMA MemDesc ==
  ASSUME TxInv, Mem
  PROVE  /\ \A d \in Desc : /\ desc'[d].buf = desc[d].buf /\ desc'[d].eoxp = desc[d].eoxp /\ desc'[d].eox = desc[d].eox
                            /\ desc[d].etxd => desc'[d].etxd
         /\ t.state = "T_BCWB" => \A d \in Desc : desc'[d].etxd <=> (desc[d].etxd \/ d = t.nbdp)
         /\ t.state = "T_HEAD" => \A d \in Desc : desc'[d].etxd <=> (desc[d].etxd \/ d = t.first)
         /\ t.state \notin {"T_BCWB", "T_HEAD"} => desc' = desc
<1>1. DOMAIN desc = Desc /\ \A d \in Desc : IsDesc(desc[d])
  BY DEF TxInv, RingOk
<1>2. t.nbdp \in Desc /\ t.first \in Desc
  BY DEF TxInv, IsChan
<1>3. ASSUME NEW e \in Desc, WriteBC(e)
      PROVE  \A d \in Desc : /\ desc'[d].buf = desc[d].buf /\ desc'[d].eoxp = desc[d].eoxp /\ desc'[d].eox = desc[d].eox
                             /\ desc'[d].etxd <=> (desc[d].etxd \/ d = e)
  <2> TAKE d \in Desc
  <2>1. CASE d # e
    BY <1>1, <1>3, <2>1 DEF WriteBC
  <2>2. CASE d = e
    <3>1. desc'[d] = [desc[d] EXCEPT !.etxd = TRUE]
      BY <1>1, <1>3, <2>2 DEF WriteBC
    <3>2. IsDesc(desc[d])
      BY <1>1
    <3> QED BY <2>2, <3>1, <3>2 DEF IsDesc
  <2> QED BY <2>1, <2>2
<1>4. \/ t.state = "T_BCWB" /\ WriteBC(t.nbdp)
      \/ t.state = "T_HEAD" /\ WriteBC(t.first)
      \/ t.state \notin {"T_BCWB", "T_HEAD"} /\ desc' = desc
  BY DEF Mem
<1> QED BY <1>2, <1>3, <1>4

\* All other steps leave the descriptors alone.
LEMMA OtherDesc ==
  ASSUME [Next]_vars, ~(\E s \in Shapes : GuestQueue(s)), ~(GuestReap /\ Reapable), ~GuestAppend, ~Mem
  PROVE  desc' = desc
<1>1. ASSUME NEW m, NEW rsp, NEW rxi, Clock(m, rsp, rxi) PROVE desc' = desc
  BY <1>1 DEF Clock
<1>2. CASE \E rsp, rxi \in BOOLEAN : Idle(rsp, rxi) \/ GuestIsr(rsp, rxi)
  BY <1>1, <1>2 DEF Idle, GuestIsr
<1>3. CASE \E rsp \in BOOLEAN : GuestNbdp(rsp) \/ GuestKick(rsp)
  BY <1>1, <1>3 DEF GuestNbdp, GuestKick
<1>4. CASE GuestCheck \/ GuestStatus \/ GuestBound \/ (GuestReap /\ ~Reapable) \/ ArmConsume \/ UNCHANGED vars
  BY <1>4 DEF GuestCheck, GuestStatus, GuestBound, GuestReap, ArmConsume, vars
<1> QED BY <1>2, <1>3, <1>4 DEF Next

\* What a step that moves no packet does to the descriptors in flight.
LEMMA SettledDesc ==
  ASSUME TxInv, RingShape, [Next]_vars, ~(\E s \in Shapes : GuestQueue(s)), ~(GuestReap /\ Reapable)
  PROVE  \A d \in Desc : /\ desc'[d].buf = desc[d].buf /\ desc'[d].eoxp = desc[d].eoxp
                         /\ desc'[d].eox => desc[d].eox
                         /\ \/ desc'[d].eox = desc[d].eox
                            \/ Queued - 1 \in InFlight /\ d = At(Queued - 1, Pk(Queued - 1).n - 1)
<1>1. CASE GuestAppend
  BY <1>1, AppendDesc
<1>2. CASE Mem
  BY <1>2, MemDesc
<1>3. CASE ~GuestAppend /\ ~Mem
  <2>1. desc' = desc
    BY <1>3, OtherDesc
  <2> QED BY <2>1
<1> QED BY <1>1, <1>2, <1>3

LEMMA EndsStep ==
  ASSUME TxInv, RingShape, EndsOk, [Next]_vars
  PROVE  EndsOk'
<1>1. CASE \E s \in Shapes : GuestQueue(s)
  <2>1. PICK s \in Shapes : GuestQueue(s)
    BY <1>1
  <2>2. PICK q1 \in Nat : q1 = Queued + 1
    BY RingFacts
  <2> SUFFICES ASSUME NEW p \in InFlight', NEW k \in 0 .. Pk(p)'.n - 1
               PROVE  Ends(desc[At(p, k)].eox, desc[At(p, k)].eoxp, p, k)'
    BY DEF EndsOk
  <2>3. Queued' = Queued + 1 /\ (p \in InFlight \/ p = q1) /\ Queued \in Nat
    <3>1. InFlight' = Reaped + 1 .. Queued + 1 /\ Queued' = Queued + 1
      BY <2>1, QueueRing
    <3>2. Queued \in Nat /\ Reaped \in Nat
      BY RingFacts
    <3>3. p \in Reaped + 1 .. Queued + 1
      BY <3>1
    <3>4. p \in Reaped + 1 .. Queued \/ p = q1
      BY <2>2, <3>2, <3>3
    <3> QED BY <3>1, <3>2, <3>4 DEF InFlight
  <2>4. CASE p \in InFlight
    <3>1. Pk(p)' = Pk(p) /\ At(p, k)' = At(p, k)
      BY <2>1, <2>4, QueueRing
    <3>2. desc'[At(p, k)] = desc[At(p, k)]
      BY <2>1, <2>4, <3>1, QueueDesc
    <3>3. Ends(desc[At(p, k)].eox, desc[At(p, k)].eoxp, p, k)
      BY <2>4, <3>1 DEF EndsOk
    <3>4. p \in Int /\ p <= Queued
      BY <2>3, <2>4, RingFacts DEF InFlight
    <3> QED BY <2>3, <3>1, <3>2, <3>3, <3>4 DEF Ends
  <2>5. CASE p = q1
    <3>1. Pk(p)'.n = Len(s) /\ At(p, k)' = (g.tail + k) % NDesc
      BY <2>1, <2>2, <2>5, QueueRing
    <3>2. /\ desc'[(g.tail + k) % NDesc].eox <=> k = Len(s) - 1
          /\ desc'[(g.tail + k) % NDesc].eoxp <=> k = Len(s) - 1
      BY <2>1, <3>1, QueueDesc
    <3> QED BY <3>1, <3>2 DEF Ends
  <2> QED BY <2>3, <2>4, <2>5
<1>2. CASE GuestReap /\ Reapable
  <2> SUFFICES ASSUME NEW p \in InFlight', NEW k \in 0 .. Pk(p)'.n - 1
               PROVE  Ends(desc[At(p, k)].eox, desc[At(p, k)].eoxp, p, k)'
    BY DEF EndsOk
  <2>1. p \in Reaped + 2 .. Queued /\ Queued' = Queued
    BY <1>2, ReapRing
  <2>2. Pk(p)' = Pk(p) /\ At(p, k)' = At(p, k)
    BY <1>2, <2>1, ReapRing
  <2>3. desc'[At(p, k)] = desc[At(p, k)]
    BY <1>2, <2>1, <2>2, ReapDesc
  <2>4. p \in InFlight
    BY <2>1, RingFacts DEF InFlight
  <2>5. Ends(desc[At(p, k)].eox, desc[At(p, k)].eoxp, p, k)
    BY <2>2, <2>4 DEF EndsOk
  <2> QED BY <2>1, <2>2, <2>3, <2>5 DEF Ends
<1>3. CASE ~(\E s \in Shapes : GuestQueue(s)) /\ ~(GuestReap /\ Reapable)
  <2>1. g'.tail = g.tail /\ g'.old = g.old /\ g'.inflight = g.inflight /\ sentq' = sentq
    BY <1>3, DriverSame
  <2>2. Queued' = Queued /\ InFlight' = InFlight
    BY <2>1, RingSame
  <2> SUFFICES ASSUME NEW p \in InFlight', NEW k \in 0 .. Pk(p)'.n - 1
               PROVE  Ends(desc[At(p, k)].eox, desc[At(p, k)].eoxp, p, k)'
    BY DEF EndsOk
  <2>3. p \in InFlight /\ Pk(p)' = Pk(p) /\ At(p, k)' = At(p, k)
    BY <2>1, <2>2, RingSame
  <2> DEFINE d == At(p, k)
             v == desc'[d]
             w == desc[d]
  <2>4. Ends(w.eox, w.eoxp, p, k)
    BY <2>3 DEF EndsOk
  <2>5. k \in 0 .. Pk(p).n /\ d \in Desc
    <3>1. k \in 0 .. Pk(p).n
      BY <2>3, RingFacts
    <3> QED BY <2>3, <3>1, AtFacts
  <2>6. /\ v.eoxp = w.eoxp /\ (v.eox => w.eox)
        /\ v.eox = w.eox \/ (Queued - 1 \in InFlight /\ d = At(Queued - 1, Pk(Queued - 1).n - 1))
    BY <1>3, <2>5, SettledDesc
  <2>7. (Queued - 1 \in InFlight /\ d = At(Queued - 1, Pk(Queued - 1).n - 1)) => p < Queued
    <3> HAVE Queued - 1 \in InFlight /\ d = At(Queued - 1, Pk(Queued - 1).n - 1)
    <3>1. PICK r \in InFlight : r = Queued - 1
      OBVIOUS
    <3>2. Pk(r).n - 1 \in 0 .. Pk(r).n - 1
      BY RingFacts, SMTT(40)
    <3>3. p = r
      BY <2>3, <3>1, <3>2, AtApart
    <3> QED BY <3>1, <3>3, RingFacts
  <2>8. Pk(p)' = Pk(p) /\ desc'[At(p, k)'] = v
    BY <2>3
  <2> HIDE DEF d, v, w
  <2> QED BY <2>2, <2>4, <2>6, <2>7, <2>8 DEF Ends
<1> QED BY <1>1, <1>2, <1>3

\* A packet that stays in flight keeps its place, its buffers and its frame.
LEMMA Kept ==
  ASSUME TxInv, RingShape, [Next]_vars, NEW p \in InFlight, p \in InFlight'
  PROVE  /\ Pk(p)' = Pk(p) /\ (\A k : At(p, k)' = At(p, k)) /\ Hd(p)' = Hd(p) /\ sentq'[p] = sentq[p]
         /\ \A k \in 0 .. Pk(p).n - 1 : desc'[At(p, k)].buf = desc[At(p, k)].buf
         /\ \A b : Starts(b, p)' <=> Starts(b, p)
<1>1. /\ Pk(p)' = Pk(p) /\ (\A k : At(p, k)' = At(p, k)) /\ Hd(p)' = Hd(p) /\ sentq'[p] = sentq[p]
      /\ \A k \in 0 .. Pk(p).n - 1 : desc'[At(p, k)].buf = desc[At(p, k)].buf
  <2>1. CASE \E s \in Shapes : GuestQueue(s)
    <3>1. PICK s \in Shapes : GuestQueue(s)
      BY <2>1
    <3>2. Pk(p)' = Pk(p) /\ (\A k : At(p, k)' = At(p, k))
      BY <3>1, QueueRing
    <3>3. Hd(p)' = Hd(p)
      BY <3>1, QueueRing, RingFacts
    <3>4. \A k \in 0 .. Pk(p).n - 1 : desc'[At(p, k)] = desc[At(p, k)]
      BY <3>1, QueueDesc
    <3>5. PICK x \in Seq(Byte) : sentq' = Append(sentq, x)
      <4>1. Queued + 1 \in Nat
        BY RingFacts
      <4>2. FlattenFrame(Frame(Queued + 1, s)) \in Seq(Byte)
        BY <4>1, FrameType
      <4> QED BY <3>1, <4>2, QueueDesc
    <3>6. p \in 1 .. Len(sentq) /\ sentq \in Seq(Seq(Byte))
      BY RingFacts DEF InFlight, Queued, TxInv, HistoryOk
    <3>7. sentq'[p] = sentq[p]
      BY <3>5, <3>6, AppendProperties
    <3> QED BY <3>2, <3>3, <3>4, <3>7
  <2>2. CASE GuestReap /\ Reapable
    <3>1. p \in Reaped + 2 .. Queued
      BY <2>2, ReapRing
    <3>2. Pk(p)' = Pk(p) /\ \A k : At(p, k)' = At(p, k)
      BY <2>2, <3>1, ReapRing
    <3>3. Hd(p)' = Hd(p)
      <4>1. p \in Reaped + 2 .. Queued + 1
        BY <3>1, RingFacts
      <4> QED BY <2>2, <4>1, ReapRing
    <3>4. \A k \in 0 .. Pk(p).n - 1 : desc'[At(p, k)] = desc[At(p, k)]
      BY <2>2, <3>1, ReapDesc
    <3>5. sentq' = sentq
      BY <2>2 DEF GuestReap
    <3> QED BY <3>2, <3>3, <3>4, <3>5
  <2>3. CASE ~(\E s \in Shapes : GuestQueue(s)) /\ ~(GuestReap /\ Reapable)
    <3>1. g'.tail = g.tail /\ g'.old = g.old /\ g'.inflight = g.inflight /\ sentq' = sentq
      BY <2>3, DriverSame
    <3>2. Pk(p)' = Pk(p) /\ (\A k : At(p, k)' = At(p, k)) /\ Hd(p)' = Hd(p)
      BY <3>1, RingSame
    <3>3. \A k \in 0 .. Pk(p).n - 1 : At(p, k) \in Desc
      <4>1. \A k \in 0 .. Pk(p).n - 1 : k \in 0 .. Pk(p).n
        BY RingFacts
      <4> QED BY <4>1, AtFacts
    <3>4. \A d \in Desc : desc'[d].buf = desc[d].buf
      BY <2>3, SettledDesc
    <3> QED BY <3>1, <3>2, <3>3, <3>4
  <2> QED BY <2>1, <2>2, <2>3
<1>2. PICK n \in Nat : n = Pk(p).n
  BY RingFacts
<1>3. Pk(p).n = n /\ Pk(p)'.n = n /\ \A k \in 0 .. n - 1 : desc'[At(p, k)'].buf = desc[At(p, k)].buf
  BY <1>1, <1>2
<1>4. \A b : Starts(b, p)' <=> Starts(b, p)
  BY <1>1, <1>3, StartsSame
<1> QED BY <1>1, <1>4

LEMMA FramesStep ==
  ASSUME TxInv, RingShape, FramesOk, [Next]_vars
  PROVE  FramesOk'
<1> SUFFICES ASSUME NEW p \in InFlight'
             PROVE  \E b : Starts(b, p)'
  BY DEF FramesOk
<1>1. CASE p \in InFlight
  <2>1. PICK b : Starts(b, p)
    BY <1>1 DEF FramesOk
  <2> QED BY <1>1, <2>1, Kept
<1>2. CASE p \notin InFlight
  <2>1. \E s \in Shapes : GuestQueue(s)
    <3>1. CASE GuestReap /\ Reapable
      <4>1. p \in Reaped + 2 .. Queued
        BY <3>1, ReapRing
      <4>2. p \in InFlight
        BY <4>1, RingFacts DEF InFlight
      <4> QED BY <1>2, <4>2
    <3>2. CASE ~(\E s \in Shapes : GuestQueue(s)) /\ ~(GuestReap /\ Reapable)
      <4>1. g'.tail = g.tail /\ g'.old = g.old /\ g'.inflight = g.inflight /\ sentq' = sentq
        BY <3>2, DriverSame
      <4>2. InFlight' = InFlight
        BY <4>1, RingSame
      <4> QED BY <1>2, <4>2
    <3> QED BY <3>1, <3>2
  <2>2. PICK s \in Shapes : GuestQueue(s)
    BY <2>1
  <2>3. p = Queued + 1 /\ p \in Nat
    <3>1. p \in Reaped + 1 .. Queued + 1
      BY <2>2, QueueRing
    <3>2. Queued \in Nat /\ Reaped \in Nat
      BY RingFacts
    <3> QED BY <1>2, <3>1, <3>2 DEF InFlight
  <2> DEFINE x == FlattenFrame(Frame(p, s))
  <2>4. sentq' = Append(sentq, x) /\ sentq \in Seq(Seq(Byte)) /\ x \in Seq(Byte)
    <3>1. sentq' = Append(sentq, x)
      BY <2>2, <2>3, QueueDesc
    <3>2. x \in Seq(Byte)
      BY <2>3, FrameType
    <3> QED BY <3>1, <3>2 DEF TxInv, HistoryOk
  <2>5. /\ Pk(p)'.n = Len(s)
        /\ \A k : At(p, k)' = (g.tail + k) % NDesc
    BY <2>2, <2>3, QueueRing
  <2>6. \A k \in 0 .. Len(s) - 1 : desc'[(g.tail + k) % NDesc].buf = Frame(p, s)[k + 1]
    BY <2>2, <2>3, QueueDesc
  <2>7. PICK b : /\ b[0] = 0 /\ b[Len(s)] = Len(x)
                 /\ \A k \in 0 .. Len(s) - 1 :
                      /\ b[k] \in Nat /\ b[k + 1] = b[k] + Len(Frame(p, s)[k + 1])
                      /\ \A j \in 1 .. Len(Frame(p, s)[k + 1]) : x[b[k] + j] = Frame(p, s)[k + 1][j]
    BY <2>3, FrameStarts
  <2> HIDE DEF x
  <2>8. sentq'[p] = x
    BY <2>3, <2>4, AppendProperties DEF Queued
  <2> DEFINE n == Len(s)
             C(k) == Frame(p, s)[k + 1]
  <2>9. /\ b[0] = 0 /\ b[n] = Len(x)
        /\ \A k \in 0 .. n - 1 : /\ b[k] \in Nat /\ b[k + 1] = b[k] + Len(C(k))
                                 /\ \A j \in 1 .. Len(C(k)) : x[b[k] + j] = C(k)[j]
    BY <2>7
  <2>10. Pk(p)'.n = n /\ \A k \in 0 .. n - 1 : desc'[At(p, k)'].buf = C(k)
    BY <2>5, <2>6
  <2> HIDE DEF n, C
  <2>11. Starts(b, p)'
    BY <2>8, <2>9, <2>10 DEF Starts
  <2> QED BY <2>11
<1> QED BY <1>1, <1>2

\* No packet is in flight at the start.
LEMMA MarksInit == Init => EndsOk /\ FramesOk
<1> SUFFICES ASSUME Init PROVE InFlight = {}
  BY DEF EndsOk, FramesOk
<1>1. g.inflight = <<>> /\ sentq = <<>>
  BY DEF Init, GuestInit
<1> QED BY <1>1, EmptySeq DEF InFlight, Reaped, Queued
-----------------------------------------------------------------------------
(* The free-running indices *)

\* The distance of two indices, and what one step of either does to it.
LEMMA DiffValue ==
  ASSUME NEW a \in Counts, NEW b \in Counts
  PROVE  /\ Diff(a, b) = IF b <= a THEN a - b ELSE a - b + CntMod
         /\ Diff(a, b) \in Counts
<1>1. CntMod \in Nat /\ CntMod > 0 /\ a \in 0 .. CntMod - 1 /\ b \in 0 .. CntMod - 1
  BY Consts DEF Counts
<1>2. CASE b <= a
  BY <1>1, <1>2 DEF Diff, Counts
<1>3. CASE a < b
  <2> DEFINE y == a - b + CntMod
  <2>1. y \in 0 .. CntMod - 1 /\ a - b = y - CntMod
    BY <1>1, <1>3
  <2> HIDE DEF y
  <2>2. (y - CntMod) % CntMod = y
    BY <1>1, <2>1
  <2> QED BY <1>1, <1>3, <2>1, <2>2 DEF y, Diff, Counts
<1> QED BY <1>1, <1>2, <1>3

LEMMA IncValue ==
  ASSUME NEW c \in Counts
  PROVE  Inc(c) = IF c = CntMod - 1 THEN 0 ELSE c + 1
<1>1. CntMod \in Nat /\ CntMod > 1 /\ c \in 0 .. CntMod - 1
  BY Consts DEF Counts
<1>2. CASE c = CntMod - 1
  BY <1>1, <1>2 DEF Inc
<1>3. CASE c # CntMod - 1
  <2>1. c + 1 \in 0 .. CntMod - 1
    BY <1>1, <1>3
  <2>2. (c + 1) % CntMod = c + 1
    BY <1>1, <2>1
  <2> QED BY <1>1, <1>3, <2>2 DEF Inc
<1> QED BY <1>2, <1>3

LEMMA DiffSteps ==
  ASSUME NEW a \in Counts, NEW b \in Counts
  PROVE  /\ Diff(a, b) < NSlot => Diff(Inc(a), b) = Diff(a, b) + 1
         /\ a # b => Diff(a, b) >= 1 /\ Diff(a, Inc(b)) = Diff(a, b) - 1
         /\ Diff(a, b) \in Nat
<1>1. CntMod \in Nat /\ CntMod > NSlot /\ NSlot \in Nat /\ NSlot > 0 /\ a \in 0 .. CntMod - 1 /\ b \in 0 .. CntMod - 1
  BY Consts DEF Counts
<1> DEFINE x == Inc(a)
           y == Inc(b)
           u == Diff(a, b)
           v == Diff(x, b)
           w == Diff(a, y)
<1>2. x = (IF a = CntMod - 1 THEN 0 ELSE a + 1) /\ y = IF b = CntMod - 1 THEN 0 ELSE b + 1
  BY IncValue
<1>3. x \in Counts /\ y \in Counts
  BY IncType
<1>4. /\ u = IF b <= a THEN a - b ELSE a - b + CntMod
      /\ v = IF b <= x THEN x - b ELSE x - b + CntMod
      /\ w = IF y <= a THEN a - y ELSE a - y + CntMod
  BY <1>3, DiffValue
<1> HIDE DEF x, y, u, v, w
<1>5. u < NSlot => v = u + 1
  BY <1>1, <1>2, <1>4
<1>6. a # b => u >= 1 /\ w = u - 1
  BY <1>1, <1>2, <1>4
<1>7. u \in Nat
  BY <1>1, <1>4
<1> QED BY <1>5, <1>6, <1>7 DEF x, y, u, v, w
-----------------------------------------------------------------------------
(* The kinds of steps *)

\* the driver or nobody moves
GuestOnly ==
  /\ \/ \E s \in Shapes : GuestQueue(s)
     \/ GuestAppend \/ GuestCheck \/ GuestStatus \/ GuestBound \/ GuestReap \/ UNCHANGED vars
  /\ UNCHANGED <<t, acc, ld, sh, gl, slot, cq, txprod, cons, wire>>

\* a clock, and what it does to the request of shim and driver
Ticked ==
  /\ Moves /\ UNCHANGED <<desc, ld, slot, cq, txprod, cons, wire, sentq>>
  /\ g'.tail = g.tail /\ g'.old = g.old /\ g'.inflight = g.inflight /\ g'.rule = g.rule /\ g'.bound = g.bound
  /\ g'.pc = "reap" => g.pc = "reap"
  /\ g'.pc = "ctrl" => g.pc = "ctrl" \/ (Resting /\ FirstUnsent # g.tail)
  /\ Kicked' => Resting /\ g.pc = "ctrl" /\ sh'.req_nbdp = sh.nbdp
  /\ Resting' => \/ Echoed /\ sh'.nbdp = t.crbdp
                 \/ Resting /\ sh'.nbdp \in {sh.nbdp, FirstUnsent}

LEMMA PhasesAfter ==
  ASSUME ShimOk', Handshake'
  PROVE  /\ Kicked' => ~Running' /\ ~Echoed' /\ ~Resting'
         /\ Resting' => ~Running' /\ ~Echoed'
<1>1. Inc(sh'.done_seq) # sh'.done_seq
  BY IncMoves DEF ShimOk
<1> QED BY <1>1 DEF Kicked, Running, Echoed, Resting, ActiveReq

LEMMA StepKinds ==
  ASSUME TxInv, Handshake, [Next]_vars
  PROVE  GuestOnly \/ Mem \/ ArmConsume \/ Ticked
<1>0. /\ g.pc \in {"nbdp", "ctrl"} => Resting
      /\ (Resting \/ Kicked \/ Running \/ Echoed)
  BY DEF Handshake
<1>b. DOMAIN g = {"pc", "rule", "tail", "old", "inflight", "stat", "bound"}
  BY DEF TxInv, DriverOk
<1>c. TxInv' /\ Handshake' /\ ShimOk'
  BY NextTx, HandshakeStep DEF TxInv
<1>d. ASSUME NEW m, NEW rsp, NEW rxi, Access(m), Clock(m, rsp, rxi),
             g'.tail = g.tail /\ g'.old = g.old /\ g'.inflight = g.inflight /\ g'.rule = g.rule /\ g'.bound = g.bound,
             g'.pc = "reap" => g.pc = "reap",
             g'.pc = "ctrl" => g.pc = "ctrl" \/ (Resting /\ FirstUnsent # g.tail),
             m.op = "ctrl" => g.pc = "ctrl",
             m.op = "nbdp" => m.val = FirstUnsent
      PROVE  Ticked
  <2>1. Moves
    BY <1>d, ClockMoves
  <2>2. /\ Resting => IF m.op = "ctrl" THEN Kicked' ELSE Resting'
        /\ Kicked => Running'
        /\ Running => IF t.done THEN Echoed' ELSE Running'
        /\ Echoed => Resting'
    BY <1>d, ClockMoves
  <2>3. sh'.nbdp = (IF m.op = "nbdp" THEN m.val ELSE IF Echoed THEN t.crbdp ELSE sh.nbdp)
    BY <1>d, ClockMoves
  <2>4. sh'.req_nbdp = (IF m.op = "ctrl" THEN sh.nbdp ELSE sh.req_nbdp)
    BY <1>d, ClockMoves
  <2>5. UNCHANGED <<desc, ld, slot, cq, txprod, cons, wire, sentq>>
    BY <1>d DEF Clock
  <2>6. /\ Kicked' => ~Running' /\ ~Echoed' /\ ~Resting'
        /\ Resting' => ~Running' /\ ~Echoed'
    BY <1>c, PhasesAfter
  <2>7. Kicked' => Resting /\ m.op = "ctrl"
    BY <1>0, <2>2, <2>6
  <2>8. Resting' => (Echoed \/ Resting)
    BY <1>0, <2>2, <2>6
  <2>9. Echoed => ~Resting
    BY DEF Echoed, Resting, ActiveReq
  <2>10. m.op = "nbdp" => Resting
    BY <1>d DEF Access
  <2>11. Resting' => \/ Echoed /\ sh'.nbdp = t.crbdp
                     \/ Resting /\ sh'.nbdp \in {sh.nbdp, FirstUnsent}
    BY <1>d, <2>3, <2>8, <2>9, <2>10
  <2>12. Kicked' => Resting /\ g.pc = "ctrl" /\ sh'.req_nbdp = sh.nbdp
    BY <1>d, <2>4, <2>7
  <2> QED BY <1>d, <2>1, <2>5, <2>11, <2>12 DEF Ticked
<1>2. ASSUME NEW rsp \in BOOLEAN, NEW rxi \in BOOLEAN, Idle(rsp, rxi)
      PROVE  Ticked
  <2>1. Clock(NoMmio, rsp, rxi) /\ g' = g
    BY <1>2 DEF Idle
  <2>2. Access(NoMmio) /\ NoMmio.op # "ctrl" /\ NoMmio.op # "nbdp"
    BY DEF Access, NoMmio
  <2> QED BY <1>d, <2>1, <2>2
<1>3. ASSUME NEW rsp \in BOOLEAN, NEW rxi \in BOOLEAN, GuestIsr(rsp, rxi)
      PROVE  Ticked
  <2> DEFINE m == [op |-> "clrirq", val |-> 0]
  <2>1. Clock(m, rsp, rxi) /\ g' = [g EXCEPT !.pc = "status"]
    BY <1>3 DEF GuestIsr
  <2>2. Access(m) /\ m.op # "ctrl" /\ m.op # "nbdp"
    BY DEF Access
  <2> HIDE DEF m
  <2>3. /\ g'.tail = g.tail /\ g'.old = g.old /\ g'.inflight = g.inflight /\ g'.rule = g.rule /\ g'.bound = g.bound
        /\ g'.pc = "status"
    BY <1>b, <2>1
  <2> QED BY <1>d, <2>1, <2>2, <2>3
<1>4. ASSUME NEW rsp \in BOOLEAN, GuestNbdp(rsp)
      PROVE  Ticked
  <2> DEFINE m == [op |-> "nbdp", val |-> FirstUnsent]
  <2>1. \/ g' = [g EXCEPT !.pc = "idle"] /\ Clock(NoMmio, rsp, FALSE)
        \/ FirstUnsent # g.tail /\ g' = [g EXCEPT !.pc = "ctrl"] /\ Clock(m, rsp, FALSE)
    BY <1>4 DEF GuestNbdp
  <2>2. Resting
    BY <1>0, <1>4 DEF GuestNbdp
  <2>3. Access(NoMmio) /\ Access(m) /\ NoMmio.op # "ctrl" /\ m.op # "ctrl" /\ NoMmio.op # "nbdp" /\ m.val = FirstUnsent
    BY <2>2 DEF Access, NoMmio
  <2> HIDE DEF m
  <2>4. CASE g' = [g EXCEPT !.pc = "idle"] /\ Clock(NoMmio, rsp, FALSE)
    <3>1. /\ g'.tail = g.tail /\ g'.old = g.old /\ g'.inflight = g.inflight /\ g'.rule = g.rule /\ g'.bound = g.bound
          /\ g'.pc = "idle"
      BY <1>b, <2>4
    <3> QED BY <1>d, <2>3, <2>4, <3>1
  <2>5. CASE FirstUnsent # g.tail /\ g' = [g EXCEPT !.pc = "ctrl"] /\ Clock(m, rsp, FALSE)
    <3>1. /\ g'.tail = g.tail /\ g'.old = g.old /\ g'.inflight = g.inflight /\ g'.rule = g.rule /\ g'.bound = g.bound
          /\ g'.pc = "ctrl"
      BY <1>b, <2>5
    <3> QED BY <1>d, <2>2, <2>3, <2>5, <3>1
  <2> QED BY <2>1, <2>4, <2>5
<1>5. ASSUME NEW rsp \in BOOLEAN, GuestKick(rsp)
      PROVE  Ticked
  <2> DEFINE m == [op |-> "ctrl", val |-> 0]
  <2>1. Clock(m, rsp, FALSE) /\ g' = [g EXCEPT !.pc = "idle"] /\ g.pc = "ctrl"
    BY <1>5 DEF GuestKick
  <2>2. Access(m) /\ m.op # "nbdp"
    BY <1>0, <2>1 DEF Access
  <2> HIDE DEF m
  <2>3. /\ g'.tail = g.tail /\ g'.old = g.old /\ g'.inflight = g.inflight /\ g'.rule = g.rule /\ g'.bound = g.bound
        /\ g'.pc = "idle"
    BY <1>b, <2>1
  <2> QED BY <1>d, <2>1, <2>2, <2>3
<1>6. ASSUME (\E s \in Shapes : GuestQueue(s)) \/ GuestAppend \/ GuestCheck \/ GuestStatus \/ GuestBound \/ GuestReap \/ UNCHANGED vars
      PROVE  GuestOnly
  <2>1. UNCHANGED <<t, acc, ld, sh, gl, slot, cq, txprod, cons, wire>>
    BY <1>6 DEF GuestQueue, GuestAppend, GuestCheck, GuestStatus, GuestBound, GuestReap, vars, staging
  <2> QED BY <1>6, <2>1, SMTT(40) DEF GuestOnly
<1> QED BY <1>2, <1>3, <1>4, <1>5, <1>6 DEF Next
-----------------------------------------------------------------------------
(* How far the channel has come: packets published, packets sent *)

\* the head of the current packet is marked, its index not yet published
Ahead == \/ t.state = "T_HEAD" /\ acc
         \/ t.state = "T_CQ"
         \/ t.state = "T_IDX" /\ ~acc
\* the packets published to the ARM, and those whose head is marked
Staged == Len(wire) + Diff(txprod, cons)
Sent == IF Ahead THEN Staged + 1 ELSE Staged
\* the bytes of packet Sent + 1 are gathered; its first descriptor is fetched; the packet is
\* closed and the next not begun
Gather == \/ t.state \in {"T_MEM", "T_PUT", "T_BCWB", "T_FLUSH"}
          \/ t.state = "T_HEAD" /\ ~acc
          \/ t.state \in {"T_DESC", "T_NEXT"} /\ t.open
Fetch == t.state = "T_SLOT" \/ (t.state = "T_DESC" /\ ~t.open)
Closed == Ahead \/ t.state = "T_IDX" \/ (t.state = "T_NEXT" /\ ~t.open)

WireTyped == wire \in Seq(Seq(Byte)) /\ DOMAIN cq = Slots /\ \A i \in Slots : cq[i].len \in Nat

\* The published index follows the channel's, and a slot is free while a packet is gathered.
CountsOk ==
  /\ txprod = IF t.state = "T_IDX" /\ acc THEN Inc(t.prod) ELSE t.prod
  /\ Diff(txprod, cons) <= NSlot
  /\ (Gather \/ Ahead) => Diff(txprod, cons) < NSlot
  /\ t.state \in {"T_MEM", "T_PUT", "T_BCWB", "T_FLUSH", "T_HEAD", "T_CQ", "T_IDX"} => t.open
  /\ t.state = "T_SLOT" => ~t.open

LEMMA CountsInit == Init => WireTyped /\ CountsOk
<1> SUFFICES ASSUME Init PROVE WireTyped /\ CountsOk
  OBVIOUS
<1>1. wire = <<>> /\ cq = [i \in Slots |-> [len |-> 0, trunc |-> FALSE]] /\ t = ChanReset /\ txprod = 0 /\ cons = 0
  BY DEF Init, Slots
<1>2. WireTyped
  BY <1>1, EmptySeq DEF WireTyped
<1>3. t.state = "T_IDLE" /\ t.prod = 0
  BY <1>1 DEF ChanReset
<1>4. Diff(txprod, cons) = 0
  BY <1>1, Consts DEF Diff
<1>5. NSlot \in Nat /\ NSlot > 0
  BY Consts
<1> QED BY <1>1, <1>2, <1>3, <1>4, <1>5 DEF CountsOk, Gather, Ahead

LEMMA WireStep ==
  ASSUME TxInv, Handshake, WireTyped, [Next]_vars
  PROVE  WireTyped'
<1>1. CASE GuestOnly \/ Ticked
  BY <1>1 DEF GuestOnly, Ticked, WireTyped
<1>2. CASE Mem
  <2>1. wire' = wire /\ (cq' = cq \/ cq' = [cq EXCEPT ![t.prod % NSlot] = [len |-> t.len, trunc |-> t.trunc]])
    BY <1>2 DEF Mem, staging
  <2>2. t.len \in Nat
    BY DEF TxInv, IsChan
  <2> QED BY <2>1, <2>2 DEF WireTyped
<1>3. CASE ArmConsume
  <2> DEFINE i == cons % NSlot
             e == cq[i].len
             b == slot[i]
             m == Min2(e, Len(b))
  <2>1. wire' = Append(wire, SubSeq(b, 1, m)) /\ cq' = cq
    BY <1>3 DEF ArmConsume, staging
  <2>2. cons \in Int
    BY Consts DEF TxInv, StagingOk, Counts
  <2>3. i \in Slots
    BY <2>2, CountIndex
  <2> HIDE DEF i
  <2>4. e \in Nat /\ b \in Seq(Byte) /\ Len(b) \in Nat
    BY <2>3, LenProperties DEF WireTyped, TxInv, StagingOk
  <2> HIDE DEF e, b
  <2>5. m \in Nat /\ m <= Len(b)
    BY <2>4 DEF Min2
  <2> HIDE DEF m
  <2>6. SubSeq(b, 1, m) \in Seq(Byte)
    BY <2>4, <2>5, SubSeqProperties
  <2> QED BY <2>1, <2>6, AppendProperties DEF WireTyped
<1> QED BY <1>1, <1>2, <1>3, StepKinds

\* What a step does to the two counts.
LEMMA CountsStep ==
  ASSUME TxInv, Handshake, WireTyped, CountsOk, [Next]_vars
  PROVE  /\ CountsOk'
         /\ Staged' = IF Mem /\ t.state = "T_IDX" THEN Staged + 1 ELSE Staged
         /\ Sent' = IF Mem /\ t.state = "T_HEAD" THEN Sent + 1 ELSE Sent
         /\ Staged \in Nat /\ Sent \in Nat
<1>0. /\ txprod \in Counts /\ cons \in Counts /\ t.prod \in Counts /\ NSlot \in Nat /\ NSlot > 0
      /\ Len(wire) \in Nat /\ wire \in Seq(Seq(Byte))
  BY Consts, LenProperties DEF TxInv, StagingOk, IsChan, WireTyped
<1> DEFINE n == Diff(txprod, cons)
<1>1. n \in Nat
  BY <1>0, DiffSteps
<1>2. Staged \in Nat /\ Sent \in Nat
  BY <1>0, <1>1 DEF Staged, Sent
<1>3. /\ txprod = IF t.state = "T_IDX" /\ acc THEN Inc(t.prod) ELSE t.prod
      /\ n <= NSlot /\ ((Gather \/ Ahead) => n < NSlot)
      /\ t.state \in {"T_MEM", "T_PUT", "T_BCWB", "T_FLUSH", "T_HEAD", "T_CQ", "T_IDX"} => t.open
      /\ t.state = "T_SLOT" => ~t.open
  BY DEF CountsOk
<1>4. CASE GuestOnly
  <2>1. ~Mem
    <3>1. acc' = acc
      BY <1>4 DEF GuestOnly
    <3> QED BY <3>1 DEF Mem
  <2>2. (Ahead' <=> Ahead) /\ (Gather' <=> Gather) /\ Staged' = Staged /\ Diff(txprod, cons)' = n
    BY <1>4 DEF GuestOnly, Ahead, Gather, Staged
  <2>3. Sent' = Sent
    BY <2>2 DEF Sent
  <2>4. CountsOk'
    BY <1>3, <1>4, <2>2 DEF CountsOk, GuestOnly
  <2> QED BY <1>2, <2>1, <2>2, <2>3, <2>4
<1>5. CASE Mem
  <2>1. TxReq /\ ~acc /\ acc' = TRUE /\ UNCHANGED <<t, cons, wire>>
    BY <1>5 DEF Mem
  <2>2. CASE t.state = "T_IDX"
    <3>1. txprod' = Inc(t.prod)
      BY <1>5, <2>2 DEF Mem
    <3>2. Ahead /\ ~Ahead' /\ ~Gather'
      BY <2>1, <2>2 DEF Ahead, Gather
    <3>3. txprod = t.prod
      BY <1>3, <2>1
    <3>4. Diff(txprod, cons)' = n + 1
      BY <1>0, <1>3, <2>1, <3>1, <3>2, <3>3, DiffSteps
    <3>5. Staged' = Staged + 1
      BY <1>0, <1>1, <2>1, <3>4 DEF Staged
    <3>6. Sent' = Sent
      BY <3>2, <3>5 DEF Sent
    <3>7. CountsOk'
      BY <1>0, <1>1, <1>3, <2>1, <2>2, <3>1, <3>2, <3>4 DEF CountsOk
    <3> QED BY <1>2, <1>5, <2>2, <3>5, <3>6, <3>7
  <2>3. CASE t.state # "T_IDX"
    <3>1. txprod' = txprod
      BY <1>5, <2>3 DEF Mem, staging
    <3>2. Diff(txprod, cons)' = n /\ Staged' = Staged
      BY <2>1, <3>1 DEF Staged
    <3>3. /\ Ahead' <=> (Ahead \/ t.state = "T_HEAD")
          /\ t.state = "T_HEAD" => Gather /\ ~Ahead
          /\ Gather' => Gather
      BY <2>1, <2>3 DEF Ahead, Gather
    <3>4. Sent' = IF t.state = "T_HEAD" THEN Sent + 1 ELSE Sent
      BY <3>2, <3>3 DEF Sent
    <3>5. CountsOk'
      BY <1>3, <2>1, <2>3, <3>1, <3>2, <3>3 DEF CountsOk
    <3> QED BY <1>2, <1>5, <2>3, <3>2, <3>4, <3>5
  <2> QED BY <2>2, <2>3
<1>6. CASE ArmConsume
  <2>1. cons # txprod /\ cons' = Inc(cons) /\ UNCHANGED <<t, acc, txprod>>
    BY <1>6 DEF ArmConsume, staging
  <2>2. PICK x : wire' = Append(wire, x) /\ x \in Seq(Byte)
    <3>1. \E x : wire' = Append(wire, x)
      BY <1>6 DEF ArmConsume
    <3>2. wire' \in Seq(Seq(Byte))
      BY WireStep DEF WireTyped
    <3> QED BY <1>0, <3>1, <3>2
  <2>3. Len(wire') = Len(wire) + 1
    BY <1>0, <2>2, AppendProperties
  <2>4. Diff(txprod, cons)' = n - 1 /\ n >= 1
    BY <1>0, <2>1, DiffSteps
  <2>5. Staged' = Staged
    BY <1>0, <1>1, <2>3, <2>4 DEF Staged
  <2>6. (Ahead' <=> Ahead) /\ (Gather' <=> Gather)
    BY <2>1 DEF Ahead, Gather
  <2>7. Sent' = Sent
    BY <2>5, <2>6 DEF Sent
  <2>8. CountsOk'
    BY <1>0, <1>1, <1>3, <2>1, <2>4, <2>6 DEF CountsOk
  <2>9. ~Mem
    BY <2>1 DEF Mem
  <2> QED BY <1>2, <2>5, <2>7, <2>8, <2>9
<1>7. CASE Ticked
  <2>1. UNCHANGED <<txprod, cons, wire>> /\ Moves
    BY <1>7 DEF Ticked
  <2>2. Diff(txprod, cons)' = n /\ Staged' = Staged
    BY <2>1 DEF Staged
  <2>3. acc' => acc
    BY <2>1 DEF Moves, Stay, MvIdle, MvDesc, MvSlot, MvMem, MvPut, MvBcwb, MvFlush, MvHead, MvCq, MvIdx, MvEnd, MvOn
  <2>4. ~Mem
    BY <2>3 DEF Mem
  <2>5. /\ t'.state \in {"T_MEM", "T_PUT", "T_BCWB", "T_FLUSH", "T_HEAD", "T_CQ", "T_IDX"} => t'.open
        /\ t'.state = "T_SLOT" => ~t'.open
    BY <1>3, <2>1 DEF Moves, Stay, MvIdle, MvDesc, MvSlot, MvMem, MvPut, MvBcwb, MvFlush, MvHead, MvCq, MvIdx, MvEnd, MvOn, AfterBeat
  <2>6. /\ txprod' = IF t'.state = "T_IDX" /\ acc' THEN Inc(t'.prod) ELSE t'.prod
        /\ Ahead' <=> Ahead
        /\ Gather' => Gather \/ (Diff(t.prod, cons) < NSlot /\ t.state = "T_SLOT")
    <3>1. CASE Stay \/ MvIdle
      BY <1>3, <2>1, <3>1 DEF Stay, MvIdle, Ahead, Gather
    <3>2. CASE MvDesc
      BY <1>3, <2>1, <3>2 DEF MvDesc, Ahead, Gather, AfterBeat
    <3>3. CASE MvSlot
      BY <1>3, <2>1, <3>3 DEF MvSlot, Ahead, Gather, AfterBeat
    <3>4. CASE MvMem
      BY <1>3, <2>1, <3>4 DEF MvMem, Ahead, Gather, AfterBeat
    <3>5. CASE MvPut
      BY <1>3, <2>1, <3>5 DEF MvPut, Ahead, Gather, AfterBeat
    <3>6. CASE MvBcwb \/ MvFlush
      BY <1>3, <2>1, <3>6 DEF MvBcwb, MvFlush, Ahead, Gather
    <3>7. CASE MvHead \/ MvCq
      BY <1>3, <2>1, <3>7 DEF MvHead, MvCq, Ahead, Gather
    <3>8. CASE MvIdx
      BY <1>3, <2>1, <3>8 DEF MvIdx, Ahead, Gather
    <3>9. CASE MvEnd \/ MvOn
      BY <1>3, <2>1, <3>9 DEF MvEnd, MvOn, Ahead, Gather
    <3> QED BY <2>1, <3>1, <3>2, <3>3, <3>4, <3>5, <3>6, <3>7, <3>8, <3>9 DEF Moves
  <2>7. Sent' = Sent
    BY <2>2, <2>6 DEF Sent
  <2>8. t.state = "T_SLOT" => txprod = t.prod
    BY <1>3
  <2>9. (Gather' \/ Ahead') => n < NSlot
    BY <1>3, <2>6, <2>8
  <2>10. CountsOk'
    BY <1>3, <2>2, <2>5, <2>6, <2>9 DEF CountsOk
  <2> QED BY <1>2, <2>2, <2>4, <2>7, <2>10
<1> QED BY <1>4, <1>5, <1>6, <1>7, StepKinds
-----------------------------------------------------------------------------
(* Where the channel is in the driver's ring; s is the number of packets sent *)

\* the descriptor at work, counted from the head of the packet
Pos(s) == (t.nbdp - Hd(s + 1)) % NDesc

\* The channel works on the first packet not sent, from its head to its last descriptor, and
\* after it is closed stands on that last one.
Where(s) ==
  /\ Gather \/ Fetch => s < Queued /\ Pos(s) < Pk(s + 1).n
  /\ Fetch => t.nbdp = Hd(s + 1)
  /\ Gather => t.first = Hd(s + 1)
  /\ t.state \in {"T_FLUSH", "T_HEAD"} /\ Gather => Pos(s) = Pk(s + 1).n - 1
  /\ t.state = "T_NEXT" /\ t.open => Pos(s) < Pk(s + 1).n - 1
  /\ Closed => DP(t.nbdp) = Hd(s + 1) /\ (~t.eox => s < Queued)

\* The end marks it has loaded are those of the descriptor; a missing EOX has a packet behind it.
Loaded(s) ==
  /\ (Gather \/ Fetch) /\ t.state # "T_DESC" => Ends(t.eox, t.eoxp, s + 1, Pos(s))
  /\ t.state = "T_DESC" /\ acc => /\ Ends(ld.desc.eox, ld.desc.eoxp, s + 1, Pos(s))
                                  /\ ld.desc.buf = desc[t.nbdp].buf

\* A stopped channel and the requests to restart it name the first packet not sent.
Asked(s) ==
  /\ t.state = "T_IDLE" => t.crbdp = Hd(s + 1)
  /\ Kicked => sh.req_nbdp = Hd(s + 1) /\ s < Queued
  /\ Resting => sh.nbdp = Hd(s + 1)
  /\ g.pc = "ctrl" => s < Queued

\* ETXD: on all descriptors of the packets sent, on those of the packet at work that are behind
\* the channel but its head, on no other.
Passed == t.state \in {"T_FLUSH", "T_HEAD", "T_NEXT"} \/ (t.state = "T_BCWB" /\ acc)
MarkOk(e, s, p, k) ==
  /\ p <= s => e
  /\ p > s /\ k = 0 => ~e
  /\ p > s /\ ~(Gather /\ p = s + 1) => ~e
  /\ Gather /\ p = s + 1 /\ k > 0 /\ (k < Pos(s) \/ (k = Pos(s) /\ Passed)) => e
Marks(s) == \A p \in InFlight : \A k \in 0 .. Pk(p).n - 1 : MarkOk(desc[At(p, k)].etxd, s, p, k)

\* CRBDP is the head of a packet, not beyond the first one not sent, and a bound that a reap has
\* read is a head not beyond it.
Bounds(s) ==
  /\ g.rule \in {"etxd", "crbdp"}
  /\ g.rule = "crbdp" =>
       \E c \in Reaped + 1 .. s + 1 :
          /\ t.crbdp = Hd(c)
          /\ g.pc = "reap" => \E b \in Reaped + 1 .. c : g.bound = Hd(b)

Place(s) == s \in Reaped .. Queued /\ Where(s) /\ Loaded(s) /\ Asked(s) /\ Marks(s) /\ Bounds(s)

\* The descriptor at work is one of packet s + 1.
LEMMA Here ==
  ASSUME TxInv, RingShape, NEW s \in Reaped .. Queued
  PROVE  /\ s \in Nat /\ s + 1 \in Heads /\ Hd(s + 1) \in Desc /\ Pos(s) \in 0 .. NDesc - 1
         /\ s < Queued => s + 1 \in InFlight
         /\ s < Queued /\ Pos(s) < Pk(s + 1).n =>
              /\ Pos(s) \in 0 .. Pk(s + 1).n - 1 /\ t.nbdp = At(s + 1, Pos(s))
              /\ DP(t.nbdp) = At(s + 1, Pos(s) + 1)
         /\ s < Queued => (t.nbdp = Hd(s + 1) <=> Pos(s) = 0)
<1>1. Queued \in Nat /\ Reaped \in Nat /\ s \in Nat
  BY RingFacts
<1>2. s + 1 \in Heads /\ (s < Queued => s + 1 \in InFlight)
  BY <1>1 DEF Heads, InFlight
<1>3. Hd(s + 1) \in Desc
  BY <1>2, RingFacts
<1>4. t.nbdp \in Desc
  BY DEF TxInv, IsChan
<1>5. Pos(s) \in 0 .. NDesc - 1
  BY <1>3, <1>4, RingSub DEF Pos
<1>6. ASSUME s < Queued, Pos(s) < Pk(s + 1).n
      PROVE  /\ Pos(s) \in 0 .. Pk(s + 1).n - 1 /\ t.nbdp = At(s + 1, Pos(s))
             /\ DP(t.nbdp) = At(s + 1, Pos(s) + 1)
  <2>1. s + 1 \in InFlight /\ Pk(s + 1).n \in 1 .. NDesc - 1
    BY <1>2, <1>6, RingFacts
  <2>2. Pos(s) \in 0 .. Pk(s + 1).n - 1 /\ Pos(s) \in 0 .. Pk(s + 1).n
    BY <1>5, <1>6, <2>1, Consts
  <2>3. t.nbdp = At(s + 1, Pos(s))
    BY <1>4, <2>1, <2>2, AtFacts DEF Pos
  <2>4. DP(At(s + 1, Pos(s))) = At(s + 1, Pos(s) + 1)
    BY <2>1, <2>2, AtFacts
  <2> QED BY <2>2, <2>3, <2>4
<1>7. t.nbdp = Hd(s + 1) <=> Pos(s) = 0
  <2> DEFINE h == Hd(s + 1)
             u == (t.nbdp - h) % NDesc
  <2>1. u = IF h <= t.nbdp THEN t.nbdp - h ELSE t.nbdp - h + NDesc
    BY <1>3, <1>4, RingSub
  <2>2. Pos(s) = u /\ h \in Desc
    BY <1>3 DEF Pos
  <2> HIDE DEF h, u
  <2>3. t.nbdp = h <=> u = 0
    BY <1>4, <2>1, <2>2, Consts DEF Desc
  <2> QED BY <2>2, <2>3 DEF h
<1> QED BY <1>1, <1>2, <1>3, <1>5, <1>6, <1>7

\* A step that leaves the channel and the packets at its place alone.
LEMMA PlaceSame ==
  ASSUME NEW s \in Nat, Where(s), Loaded(s), Asked(s), UNCHANGED <<t, acc, ld, sh, gl>>,
         Queued \in Nat, Queued' \in Nat, Queued <= Queued', Hd(s + 1)' = Hd(s + 1),
         s < Queued => Pk(s + 1)' = Pk(s + 1),
         Gather \/ Fetch => desc'[t.nbdp].buf = desc[t.nbdp].buf,
         g'.pc = "ctrl" => g.pc = "ctrl"
  PROVE  Where(s)' /\ Loaded(s)' /\ Asked(s)'
<1>1. /\ (Gather' <=> Gather) /\ (Fetch' <=> Fetch) /\ (Closed' <=> Closed)
      /\ (Kicked' <=> Kicked) /\ (Resting' <=> Resting)
  BY DEF Gather, Fetch, Closed, Ahead, Kicked, Resting, ActiveReq
<1>2. Pos(s)' = Pos(s)
  BY DEF Pos
<1>3. Where(s)'
  <2>1. (t.state = "T_NEXT" /\ t.open => Gather) /\ (Gather \/ Fetch => s < Queued)
    BY DEF Gather, Where
  <2>2. t' = t /\ (Gather \/ Fetch => Pk(s + 1)' = Pk(s + 1)) /\ DP(t.nbdp)' = DP(t.nbdp)
    BY <2>1 DEF DP
  <2> QED BY <1>1, <1>2, <2>1, <2>2 DEF Where
<1>4. t.state = "T_DESC" => Gather \/ Fetch
  BY DEF Gather, Fetch
<1>5. Loaded(s)'
  <2>1. ASSUME (Gather \/ Fetch)', t'.state # "T_DESC" PROVE Ends(t.eox, t.eoxp, s + 1, Pos(s))'
    <3>1. Ends(t.eox, t.eoxp, s + 1, Pos(s)) /\ s < Queued
      BY <1>1, <2>1 DEF Loaded, Where
    <3> QED BY <1>2, <3>1 DEF Ends
  <2>2. ASSUME t'.state = "T_DESC", acc'
        PROVE  Ends(ld.desc.eox, ld.desc.eoxp, s + 1, Pos(s))' /\ ld'.desc.buf = desc'[t'.nbdp].buf
    <3>1. /\ Ends(ld.desc.eox, ld.desc.eoxp, s + 1, Pos(s)) /\ s < Queued /\ ld.desc.buf = desc[t.nbdp].buf
          /\ desc'[t.nbdp].buf = desc[t.nbdp].buf
      BY <1>4, <2>2 DEF Loaded, Where
    <3>2. Ends(ld.desc.eox, ld.desc.eoxp, s + 1, Pos(s))'
      BY <1>2, <3>1 DEF Ends
    <3> QED BY <3>1, <3>2
  <2> QED BY <2>1, <2>2 DEF Loaded
<1>6. Asked(s)'
  BY <1>1 DEF Asked
<1> QED BY <1>3, <1>5, <1>6

\* The driver's and the ARM's steps change nothing at the channel's place.
LEMMA PlaceGuest ==
  ASSUME TxInv, Handshake, RingShape, NEW s, Place(s), [Next]_vars, GuestOnly \/ ArmConsume
  PROVE  Place(s)'
<1>0. /\ s \in Reaped .. Queued /\ Where(s) /\ Loaded(s) /\ Asked(s) /\ Marks(s) /\ Bounds(s)
      /\ Queued \in Nat /\ Reaped \in Nat /\ s \in Nat
  BY RingFacts DEF Place
<1>1. UNCHANGED <<t, acc, ld, sh, gl>>
  BY DEF GuestOnly, ArmConsume
<1>2. /\ s + 1 \in Heads /\ (s < Queued => s + 1 \in InFlight)
      /\ Gather \/ Fetch => /\ s + 1 \in InFlight /\ Pos(s) \in 0 .. Pk(s + 1).n - 1
                            /\ t.nbdp = At(s + 1, Pos(s))
  <2>1. /\ s + 1 \in Heads /\ (s < Queued => s + 1 \in InFlight)
        /\ s < Queued /\ Pos(s) < Pk(s + 1).n => Pos(s) \in 0 .. Pk(s + 1).n - 1 /\ t.nbdp = At(s + 1, Pos(s))
    BY <1>0, Here
  <2> QED BY <1>0, <2>1 DEF Where
<1>3. /\ (Gather' <=> Gather) /\ (Passed' <=> Passed)
  BY <1>1 DEF Gather, Passed
<1>4. DOMAIN g = {"pc", "rule", "tail", "old", "inflight", "stat", "bound"}
  BY DEF TxInv, DriverOk
<1>5. CASE \E z \in Shapes : GuestQueue(z)
  <2>1. PICK z \in Shapes : GuestQueue(z)
    BY <1>5
  <2>2. Queued' = Queued + 1 /\ Reaped' = Reaped /\ InFlight' = Reaped + 1 .. Queued + 1
    BY <2>1, QueueRing
  <2>3. \A p \in Heads : Hd(p)' = Hd(p)
    BY <2>1, QueueRing
  <2>4. \A p \in InFlight : Pk(p)' = Pk(p) /\ \A k : At(p, k)' = At(p, k)
    BY <2>1, QueueRing
  <2>5. \A p \in InFlight : \A k \in 0 .. Pk(p).n - 1 : desc'[At(p, k)] = desc[At(p, k)]
    BY <2>1, QueueDesc
  <2>6. g'.pc \in {"check", "append"} /\ g'.rule = g.rule
    BY <1>4, <2>1 DEF GuestQueue
  <2>7. Hd(s + 1)' = Hd(s + 1) /\ (s < Queued => Pk(s + 1)' = Pk(s + 1))
    BY <1>2, <2>3, <2>4
  <2>8. Gather \/ Fetch => desc'[t.nbdp].buf = desc[t.nbdp].buf
    BY <1>2, <2>5
  <2>9. Where(s)' /\ Loaded(s)' /\ Asked(s)'
    <3>1. Queued' \in Nat /\ Queued <= Queued'
      BY <1>0, <2>2
    <3> QED BY <1>0, <1>1, <2>6, <2>7, <2>8, <3>1, PlaceSame
  <2>10. Pos(s)' = Pos(s)
    BY <1>1, <2>7 DEF Pos
  <2>11. Marks(s)'
    <3> SUFFICES ASSUME NEW p \in InFlight', NEW k \in 0 .. Pk(p)'.n - 1
                 PROVE  MarkOk(desc[At(p, k)].etxd, s, p, k)'
      BY DEF Marks
    <3>1. p \in Reaped + 1 .. Queued + 1
      BY <2>2
    <3>2. CASE p \in InFlight
      <4>1. Pk(p)' = Pk(p) /\ At(p, k)' = At(p, k)
        BY <2>4, <3>2
      <4>2. desc'[At(p, k)] = desc[At(p, k)]
        BY <2>5, <3>2, <4>1
      <4>3. MarkOk(desc[At(p, k)].etxd, s, p, k)
        BY <1>0, <3>2, <4>1 DEF Marks
      <4> QED BY <1>3, <2>10, <4>1, <4>2, <4>3 DEF MarkOk
    <3>3. CASE p \notin InFlight
      <4>1. p = Queued + 1
        BY <1>0, <3>1, <3>3 DEF InFlight
      <4>2. Pk(p)'.n = Len(z) /\ At(p, k)' = (g.tail + k) % NDesc
        BY <2>1, <4>1, QueueRing
      <4>3. ~desc'[At(p, k)'].etxd
        BY <2>1, <4>2, QueueDesc
      <4>4. ~(Gather /\ p = s + 1) /\ ~(p <= s)
        BY <1>0, <1>2, <3>3, <4>1
      <4> QED BY <1>3, <4>3, <4>4 DEF MarkOk
    <3> QED BY <3>2, <3>3
  <2>12. Bounds(s)'
    <3>1. \A c \in Reaped + 1 .. s + 1 : c \in Heads
      BY <1>0 DEF Heads
    <3> QED BY <1>0, <1>1, <2>2, <2>3, <2>6, <3>1 DEF Bounds
  <2>13. s \in Reaped' .. Queued'
    BY <1>0, <2>2
  <2> QED BY <2>9, <2>11, <2>12, <2>13 DEF Place
<1>6. CASE GuestReap /\ Reapable
  <2>1. Queued' = Queued /\ Reaped' = Reaped + 1 /\ InFlight' = Reaped + 2 .. Queued
    BY <1>6, ReapRing
  <2>2. Reaped + 1 \in InFlight /\ g.inflight[1] = Pk(Reaped + 1)
    BY <1>6, ReapRing
  <2>3. \A p \in Reaped + 2 .. Queued : Pk(p)' = Pk(p) /\ \A k : At(p, k)' = At(p, k)
    BY <1>6, ReapRing
  <2>4. \A p \in Reaped + 2 .. Queued + 1 : Hd(p)' = Hd(p)
    BY <1>6, ReapRing
  <2>5. \A p \in Reaped + 2 .. Queued : \A k \in 0 .. Pk(p).n - 1 : desc'[At(p, k)] = desc[At(p, k)]
    BY <1>6, ReapDesc
  <2>6. g.pc = "reap" /\ g'.pc = "reap" /\ g'.rule = g.rule /\ g'.bound = g.bound
    BY <1>4, <1>6 DEF GuestReap
  <2>7. g.rule = "etxd" => Reaped + 1 <= s
    <3> HAVE g.rule = "etxd"
    <3>1. desc[g.inflight[1].head].etxd
      BY <1>6 DEF Reapable
    <3>2. PICK r \in InFlight : r = Reaped + 1
      BY <2>2
    <3>3. Hd(r) = Pk(r).head /\ At(r, 0) = Hd(r) /\ 0 \in 0 .. Pk(r).n - 1
      <4>1. r # Queued + 1
        BY <1>0, <3>2 DEF InFlight
      <4>2. Pk(r).n \in 1 .. NDesc - 1 /\ NDesc \in Nat
        BY RingFacts, Consts
      <4> QED BY <4>1, <4>2, AtFacts DEF Hd
    <3>4. desc[At(r, 0)].etxd
      BY <2>2, <3>1, <3>2, <3>3
    <3>5. MarkOk(desc[At(r, 0)].etxd, s, r, 0)
      BY <1>0, <3>3 DEF Marks
    <3>6. ~(r > s)
      BY <3>4, <3>5 DEF MarkOk
    <3> QED BY <1>0, <3>2, <3>6
  <2>8. g.rule = "crbdp" => \E c \in Reaped + 2 .. s + 1 : t.crbdp = Hd(c) /\ \E b \in Reaped + 2 .. c : g.bound = Hd(b)
    <3> HAVE g.rule = "crbdp"
    <3>1. g.old # g.bound
      BY <1>6 DEF Reapable
    <3>2. PICK c \in Reaped + 1 .. s + 1 : t.crbdp = Hd(c) /\ \E b \in Reaped + 1 .. c : g.bound = Hd(b)
      BY <1>0, <2>6 DEF Bounds
    <3>3. PICK b \in Reaped + 1 .. c : g.bound = Hd(b)
      BY <3>2
    <3>4. b # Reaped + 1
      BY <3>1, <3>3 DEF RingShape
    <3>5. b \in Reaped + 2 .. c /\ c \in Reaped + 2 .. s + 1
      BY <1>0, <3>4
    <3> QED BY <3>2, <3>3, <3>5
  <2>9. Reaped + 1 <= s
    <3>1. g.rule \in {"etxd", "crbdp"}
      BY <1>0 DEF Bounds
    <3> QED BY <1>0, <2>7, <2>8, <3>1
  <2>10. Hd(s + 1)' = Hd(s + 1) /\ (s < Queued => Pk(s + 1)' = Pk(s + 1) /\ s + 1 \in Reaped + 2 .. Queued)
    <3>1. s + 1 \in Reaped + 2 .. Queued + 1 /\ (s < Queued => s + 1 \in Reaped + 2 .. Queued)
      BY <1>0, <2>9
    <3> QED BY <2>3, <2>4, <3>1
  <2>11. Gather \/ Fetch => desc'[t.nbdp].buf = desc[t.nbdp].buf
    <3>1. Gather \/ Fetch => s < Queued
      BY <1>0 DEF Where
    <3> QED BY <1>2, <2>5, <2>10, <3>1
  <2>12. Where(s)' /\ Loaded(s)' /\ Asked(s)'
    <3>1. Queued' \in Nat /\ Queued <= Queued'
      BY <1>0, <2>1
    <3> QED BY <1>0, <1>1, <2>6, <2>10, <2>11, <3>1, PlaceSame
  <2>13. Pos(s)' = Pos(s)
    BY <1>1, <2>10 DEF Pos
  <2>14. Marks(s)'
    <3> SUFFICES ASSUME NEW p \in InFlight', NEW k \in 0 .. Pk(p)'.n - 1
                 PROVE  MarkOk(desc[At(p, k)].etxd, s, p, k)'
      BY DEF Marks
    <3>1. p \in Reaped + 2 .. Queued
      BY <2>1
    <3>2. Pk(p)' = Pk(p) /\ At(p, k)' = At(p, k)
      BY <2>3, <3>1
    <3>3. desc'[At(p, k)] = desc[At(p, k)]
      BY <2>5, <3>1, <3>2
    <3>4. p \in InFlight
      BY <1>0, <3>1 DEF InFlight
    <3>5. MarkOk(desc[At(p, k)].etxd, s, p, k)
      BY <1>0, <3>2, <3>4 DEF Marks
    <3> QED BY <1>3, <2>13, <3>2, <3>3, <3>5 DEF MarkOk
  <2>15. Bounds(s)'
    <3>1. \A c \in Reaped + 2 .. s + 1 : Hd(c)' = Hd(c)
      BY <1>0, <2>4
    <3>2. g.rule = "crbdp" => \E c \in Reaped + 2 .. s + 1 : t.crbdp = Hd(c)' /\ \E b \in Reaped + 2 .. c : g.bound = Hd(b)'
      <4> HAVE g.rule = "crbdp"
      <4>1. PICK c \in Reaped + 2 .. s + 1 : t.crbdp = Hd(c) /\ \E b \in Reaped + 2 .. c : g.bound = Hd(b)
        BY <2>8
      <4>2. PICK b \in Reaped + 2 .. c : g.bound = Hd(b)
        BY <4>1
      <4>3. b \in Reaped + 2 .. s + 1
        BY <1>0
      <4>4. Hd(c)' = Hd(c) /\ Hd(b)' = Hd(b)
        BY <3>1, <4>3
      <4> QED BY <4>1, <4>2, <4>4
    <3>3. Reaped' + 1 = Reaped + 2
      BY <1>0, <2>1
    <3>4. g.rule \in {"etxd", "crbdp"} /\ t' = t
      BY <1>0, <1>1 DEF Bounds
    <3> QED BY <2>6, <3>2, <3>3, <3>4 DEF Bounds
  <2>16. s \in Reaped' .. Queued'
    BY <1>0, <2>1, <2>9
  <2> QED BY <2>12, <2>14, <2>15, <2>16 DEF Place
<1>7. CASE ~(\E z \in Shapes : GuestQueue(z)) /\ ~(GuestReap /\ Reapable)
  <2>1. g'.tail = g.tail /\ g'.old = g.old /\ g'.inflight = g.inflight /\ sentq' = sentq /\ g'.rule = g.rule
    BY <1>7, DriverSame
  <2>2. Queued' = Queued /\ Reaped' = Reaped /\ InFlight' = InFlight
    BY <2>1, RingSame
  <2>3. \A p : Pk(p)' = Pk(p) /\ Hd(p)' = Hd(p) /\ \A k : At(p, k)' = At(p, k)
    BY <2>1, RingSame
  <2>4. ~Mem
    BY <1>1 DEF Mem
  <2>5. \A d \in Desc : desc'[d].etxd = desc[d].etxd
    <3>1. CASE GuestAppend
      BY <3>1, AppendDesc
    <3>2. CASE ~GuestAppend
      <4>1. desc' = desc
        BY <1>7, <2>4, <3>2, OtherDesc
      <4> QED BY <4>1
    <3> QED BY <3>1, <3>2
  <2>6. \A d \in Desc : desc'[d].buf = desc[d].buf
    BY <1>7, SettledDesc
  <2>7. /\ g'.pc = "ctrl" => g.pc = "ctrl"
        /\ g'.pc = "reap" => \/ g.pc = "reap" /\ g'.bound = g.bound
                             \/ GuestBound
    <3>1. CASE GuestAppend \/ GuestCheck \/ GuestStatus
      <4>1. g'.pc \in {"check", "idle", "nbdp", "bound"}
        BY <1>4, <3>1 DEF GuestAppend, GuestCheck, GuestStatus
      <4> QED BY <4>1
    <3>2. CASE GuestBound
      <4>1. g'.pc = "reap"
        BY <1>4, <3>2 DEF GuestBound
      <4> QED BY <3>2, <4>1
    <3>3. CASE GuestReap /\ ~Reapable
      <4>1. g'.pc \in {"nbdp", "idle"}
        BY <1>4, <3>3 DEF GuestReap
      <4> QED BY <4>1
    <3>4. CASE UNCHANGED vars \/ ArmConsume
      BY <3>4 DEF vars, ArmConsume
    <3> QED BY <1>7, <3>1, <3>2, <3>3, <3>4 DEF GuestOnly
  <2>8. Where(s)' /\ Loaded(s)' /\ Asked(s)'
    <3>1. Queued' \in Nat /\ Queued <= Queued'
      BY <1>0, <2>2
    <3>2. t.nbdp \in Desc
      BY DEF TxInv, IsChan
    <3>3. desc'[t.nbdp].buf = desc[t.nbdp].buf
      BY <2>6, <3>2
    <3> QED BY <1>0, <1>1, <2>3, <2>7, <3>1, <3>3, PlaceSame
  <2>9. Pos(s)' = Pos(s)
    BY <1>1, <2>3 DEF Pos
  <2>10. Marks(s)'
    <3> SUFFICES ASSUME NEW p \in InFlight', NEW k \in 0 .. Pk(p)'.n - 1
                 PROVE  MarkOk(desc[At(p, k)].etxd, s, p, k)'
      BY DEF Marks
    <3>1. p \in InFlight /\ Pk(p)' = Pk(p) /\ At(p, k)' = At(p, k)
      BY <2>2, <2>3
    <3>2. At(p, k) \in Desc
      <4>1. k \in 0 .. Pk(p).n
        BY <3>1, RingFacts
      <4> QED BY <3>1, <4>1, AtFacts
    <3>3. desc'[At(p, k)].etxd = desc[At(p, k)].etxd
      BY <2>5, <3>2
    <3>4. MarkOk(desc[At(p, k)].etxd, s, p, k)
      BY <1>0, <3>1 DEF Marks
    <3> QED BY <1>3, <2>9, <3>1, <3>3, <3>4 DEF MarkOk
  <2>11. Bounds(s)'
    <3>1. g.rule \in {"etxd", "crbdp"} /\ t' = t
      BY <1>0, <1>1 DEF Bounds
    <3>2. CASE ~GuestBound
      BY <1>0, <2>1, <2>2, <2>3, <2>7, <3>1, <3>2 DEF Bounds
    <3>3. CASE GuestBound
      <4>1. g'.pc = "reap" /\ g'.bound = (IF g.stat THEN t.crbdp ELSE sh.nbdp) /\ g.pc = "bound"
        BY <1>4, <3>3 DEF GuestBound
      <4>2. ~g.stat => sh.nbdp = t.crbdp
        <5> HAVE ~g.stat
        <5>1. Resting
          BY <4>1 DEF Handshake
        <5>2. t.state = "T_IDLE"
          BY <5>1 DEF Resting
        <5> QED BY <1>0, <5>1, <5>2 DEF Asked
      <4>3. g'.bound = t.crbdp
        BY <4>1, <4>2
      <4>4. ASSUME g.rule = "crbdp"
            PROVE  \E c \in Reaped + 1 .. s + 1 : t.crbdp = Hd(c) /\ \E b \in Reaped + 1 .. c : g'.bound = Hd(b)
        <5>1. PICK c \in Reaped + 1 .. s + 1 : t.crbdp = Hd(c)
          BY <1>0, <4>4 DEF Bounds
        <5>2. c \in Reaped + 1 .. c
          BY <1>0
        <5> QED BY <4>3, <5>1, <5>2
      <4> QED BY <2>1, <2>2, <2>3, <3>1, <4>4 DEF Bounds
    <3> QED BY <3>2, <3>3
  <2>12. s \in Reaped' .. Queued'
    BY <1>0, <2>2
  <2> QED BY <2>8, <2>10, <2>11, <2>12 DEF Place
<1> QED BY <1>5, <1>6, <1>7

\* DRAM performs the channel's access: marking the head makes the packet a sent one.
LEMMA PlaceMem ==
  ASSUME TxInv, Handshake, RingShape, EndsOk, NEW s, Place(s), Mem
  PROVE  IF t.state = "T_HEAD" THEN Place(s + 1)' ELSE Place(s)'
<1>0. /\ s \in Reaped .. Queued /\ Where(s) /\ Loaded(s) /\ Asked(s) /\ Marks(s) /\ Bounds(s)
      /\ Queued \in Nat /\ Reaped \in Nat /\ s \in Nat
  BY RingFacts DEF Place
<1>1. TxReq /\ ~acc /\ acc' = TRUE /\ UNCHANGED <<g, sh, gl, t, sentq>>
  BY DEF Mem
<1>2. /\ s + 1 \in Heads /\ (s < Queued => s + 1 \in InFlight)
      /\ Gather \/ Fetch => /\ s < Queued /\ s + 1 \in InFlight /\ Pos(s) \in 0 .. Pk(s + 1).n - 1
                            /\ t.nbdp = At(s + 1, Pos(s)) /\ DP(t.nbdp) = At(s + 1, Pos(s) + 1)
      /\ s < Queued => (t.nbdp = Hd(s + 1) <=> Pos(s) = 0)
  <2>1. /\ s + 1 \in Heads /\ (s < Queued => s + 1 \in InFlight)
        /\ s < Queued => (t.nbdp = Hd(s + 1) <=> Pos(s) = 0)
    BY <1>0, Here
  <2>2. s < Queued /\ Pos(s) < Pk(s + 1).n => Pos(s) \in 0 .. Pk(s + 1).n - 1 /\ t.nbdp = At(s + 1, Pos(s))
                                              /\ DP(t.nbdp) = At(s + 1, Pos(s) + 1)
    BY <1>0, Here
  <2> QED BY <1>0, <2>1, <2>2 DEF Where
<1>3. Queued' = Queued /\ Reaped' = Reaped /\ InFlight' = InFlight
  BY <1>1, RingSame
<1>4. \A p : Pk(p)' = Pk(p) /\ Hd(p)' = Hd(p) /\ \A k : At(p, k)' = At(p, k)
  BY <1>1, RingSame
<1>5. \A p : Pos(p)' = Pos(p)
  BY <1>1, <1>4 DEF Pos
<1>6. (Kicked' <=> Kicked) /\ (Resting' <=> Resting)
  BY <1>1 DEF Kicked, Resting, ActiveReq
<1>7. \A p \in InFlight : \A k \in 0 .. Pk(p).n - 1 : At(p, k) \in Desc /\ k \in Nat
  <2>1. \A p \in InFlight : \A k \in 0 .. Pk(p).n - 1 : k \in 0 .. Pk(p).n /\ k \in Nat
    BY RingFacts
  <2> QED BY <2>1, AtFacts
<1>8. t.nbdp \in Desc
  BY DEF TxInv, IsChan
<1>9. CASE t.state # "T_HEAD"
  <2>1. /\ (Gather' <=> Gather) /\ (Fetch' <=> Fetch) /\ (Closed' <=> Closed)
    BY <1>1, <1>9 DEF Gather, Fetch, Closed, Ahead
  <2>2. Where(s)'
    BY <1>0, <1>1, <1>3, <1>4, <1>5, <2>1 DEF Where, DP
  <2>3. Loaded(s)'
    <3>1. ASSUME (Gather \/ Fetch)', t'.state # "T_DESC" PROVE Ends(t.eox, t.eoxp, s + 1, Pos(s))'
      <4>1. Ends(t.eox, t.eoxp, s + 1, Pos(s))
        BY <1>0, <1>1, <2>1, <3>1 DEF Loaded
      <4> QED BY <1>1, <1>3, <1>4, <1>5, <4>1 DEF Ends
    <3>2. ASSUME t'.state = "T_DESC"
          PROVE  Ends(ld.desc.eox, ld.desc.eoxp, s + 1, Pos(s))' /\ ld'.desc.buf = desc'[t'.nbdp].buf
      <4>1. ld' = [ld EXCEPT !.desc = desc[t.nbdp]] /\ desc' = desc
        BY <1>1, <3>2 DEF Mem
      <4>2. DOMAIN ld = {"desc", "bytes"}
        BY DEF TxInv, LoadOk
      <4>3. ld'.desc = desc[t.nbdp]
        BY <4>1, <4>2
      <4>4. Gather \/ Fetch
        BY <1>1, <3>2 DEF Gather, Fetch
      <4>5. Ends(desc[t.nbdp].eox, desc[t.nbdp].eoxp, s + 1, Pos(s))
        BY <1>2, <4>4 DEF EndsOk
      <4>6. Ends(ld.desc.eox, ld.desc.eoxp, s + 1, Pos(s))'
        BY <1>3, <1>4, <1>5, <4>3, <4>5 DEF Ends
      <4> QED BY <1>1, <4>1, <4>3, <4>6
    <3> QED BY <3>1, <3>2 DEF Loaded
  <2>4. Asked(s)'
    BY <1>0, <1>1, <1>3, <1>4, <1>6 DEF Asked
  <2>5. Marks(s)'
    <3> SUFFICES ASSUME NEW p \in InFlight', NEW k \in 0 .. Pk(p)'.n - 1
                 PROVE  MarkOk(desc[At(p, k)].etxd, s, p, k)'
      BY DEF Marks
    <3>1. p \in InFlight /\ Pk(p)' = Pk(p) /\ At(p, k)' = At(p, k)
      BY <1>3, <1>4
    <3>2. MarkOk(desc[At(p, k)].etxd, s, p, k)
      BY <1>0, <3>1 DEF Marks
    <3>3. CASE t.state # "T_BCWB"
      <4>1. desc' = desc
        BY <1>9, <3>3, MemDesc
      <4>2. Passed' <=> Passed
        BY <1>1, <3>3 DEF Passed
      <4> QED BY <1>5, <2>1, <3>1, <3>2, <4>1, <4>2 DEF MarkOk
    <3>4. CASE t.state = "T_BCWB"
      <4>1. At(p, k) \in Desc /\ k \in Nat
        BY <1>7, <3>1
      <4>2. desc'[At(p, k)].etxd <=> (desc[At(p, k)].etxd \/ At(p, k) = t.nbdp)
        BY <3>4, <4>1, MemDesc
      <4>3. Gather /\ t.nbdp # t.first
        BY <1>1, <3>4 DEF Gather, TxReq
      <4>4. Pos(s) # 0
        BY <1>0, <1>2, <4>3 DEF Where
      <4>5. At(p, k) = t.nbdp <=> (p = s + 1 /\ k = Pos(s))
        BY <1>2, <3>1, <4>3, AtApart
      <4> DEFINE e == desc[At(p, k)].etxd
                 f == desc'[At(p, k)].etxd
      <4>6. (f <=> (e \/ (p = s + 1 /\ k = Pos(s)))) /\ MarkOk(e, s, p, k)
        BY <3>2, <4>2, <4>5
      <4>7. desc'[At(p, k)'].etxd = f
        BY <3>1
      <4> HIDE DEF e, f
      <4>8. /\ p <= s => f
            /\ p > s /\ k = 0 => ~f
            /\ p > s /\ ~(Gather /\ p = s + 1) => ~f
            /\ Gather /\ p = s + 1 /\ k > 0 /\ (k < Pos(s) \/ k = Pos(s)) => f
        BY <1>0, <4>3, <4>4, <4>6 DEF MarkOk
      <4> QED BY <1>5, <2>1, <4>7, <4>8 DEF MarkOk
    <3> QED BY <3>3, <3>4
  <2>6. Bounds(s)'
    BY <1>0, <1>1, <1>3, <1>4 DEF Bounds
  <2> QED BY <1>0, <1>3, <1>9, <2>2, <2>3, <2>4, <2>5, <2>6 DEF Place
<1>10. CASE t.state = "T_HEAD"
  <2>1. Gather /\ ~Gather' /\ ~Fetch' /\ Closed' /\ t'.state = "T_HEAD"
    BY <1>1, <1>10 DEF Gather, Fetch, Closed, Ahead
  <2>2. PICK r \in Nat : r = s + 1
    BY <1>0
  <2>3. r \in InFlight /\ Pos(s) = Pk(r).n - 1 /\ t.first = Hd(r) /\ r <= Queued /\ r \in Reaped .. Queued
    BY <1>0, <1>2, <1>10, <2>1, <2>2 DEF Where
  <2>4. Pk(r).n \in 1 .. NDesc - 1
    BY <2>3, RingFacts
  <2>5. DP(t.nbdp) = Hd(r + 1)
    <3>1. DP(t.nbdp) = At(r, Pk(r).n)
      BY <1>2, <2>1, <2>2, <2>3, <2>4
    <3> QED BY <2>3, <3>1, AtFacts
  <2>6. ~t.eox => r < Queued
    <3>1. Ends(t.eox, t.eoxp, r, Pos(s))
      BY <1>0, <1>10, <2>1, <2>2 DEF Loaded
    <3> QED BY <2>3, <3>1 DEF Ends
  <2>7. Where(r)'
    <3>1. DP(t.nbdp)' = DP(t.nbdp)
      BY <1>1 DEF DP
    <3> QED BY <1>3, <1>4, <1>1, <2>1, <2>5, <2>6, <3>1 DEF Where
  <2>8. Loaded(r)'
    BY <2>1 DEF Loaded
  <2>9. Asked(r)'
    <3>1. ~Kicked /\ ~Resting
      BY <1>10 DEF Kicked, Resting
    <3>2. g.pc # "ctrl"
      BY <3>1 DEF Handshake
    <3> QED BY <1>1, <1>6, <1>10, <3>1, <3>2 DEF Asked
  <2>10. Marks(r)'
    <3> SUFFICES ASSUME NEW p \in InFlight', NEW k \in 0 .. Pk(p)'.n - 1
                 PROVE  MarkOk(desc[At(p, k)].etxd, r, p, k)'
      BY DEF Marks
    <3>1. p \in InFlight /\ Pk(p)' = Pk(p) /\ At(p, k)' = At(p, k)
      BY <1>3, <1>4
    <3>2. MarkOk(desc[At(p, k)].etxd, s, p, k)
      BY <1>0, <3>1 DEF Marks
    <3>3. At(p, k) \in Desc /\ k \in Nat /\ k \in 0 .. Pk(p).n - 1 /\ p \in Nat
      BY <1>0, <1>7, <3>1 DEF InFlight
    <3>4. desc'[At(p, k)].etxd <=> (desc[At(p, k)].etxd \/ At(p, k) = t.first)
      BY <1>10, <3>3, MemDesc
    <3>5. At(p, k) = t.first <=> (p = r /\ k = 0)
      <4>1. r \in Heads
        BY <2>3, RingFacts
      <4>2. At(r, 0) = Hd(r)
        BY <2>3, AtFacts
      <4> QED BY <2>3, <3>1, <3>3, <4>1, <4>2, AtApart
    <3> DEFINE e == desc[At(p, k)].etxd
               f == desc'[At(p, k)].etxd
    <3>6. (f <=> (e \/ (p = r /\ k = 0))) /\ MarkOk(e, s, p, k)
      BY <3>2, <3>4, <3>5
    <3>7. desc'[At(p, k)'].etxd = f
      BY <3>1
    <3> HIDE DEF e, f
    <3>8. Passed
      BY <1>10 DEF Passed
    <3>9. p = r => f
      <4> HAVE p = r
      <4>1. k = 0 \/ k < Pos(s) \/ k = Pos(s)
        BY <2>3, <2>4, <3>3
      <4> QED BY <2>1, <2>2, <3>3, <3>6, <3>8, <4>1 DEF MarkOk
    <3>10. p <= s => f
      BY <3>6 DEF MarkOk
    <3>11. p > r => ~f
      BY <1>0, <2>2, <3>3, <3>6 DEF MarkOk
    <3>12. (p <= r => f) /\ (p > r => ~f)
      BY <1>0, <2>2, <3>3, <3>9, <3>10, <3>11
    <3> QED BY <2>1, <3>7, <3>12 DEF MarkOk
  <2>11. Bounds(r)'
    <3>1. \A c \in Reaped + 1 .. s + 1 : c \in Reaped + 1 .. r + 1
      BY <1>0, <2>2
    <3> QED BY <1>0, <1>1, <1>3, <1>4, <3>1 DEF Bounds
  <2>12. Place(r)'
    BY <1>3, <2>3, <2>7, <2>8, <2>9, <2>10, <2>11 DEF Place
  <2> QED BY <1>10, <2>2, <2>12
<1> QED BY <1>9, <1>10

\* The descriptors before a head belong to the packets before it.
LEMMA BeforeHead ==
  ASSUME TxInv, RingShape, NEW q \in Heads, NEW j \in Nat, j < Dist(Hd(q))
  PROVE  \E p \in InFlight : p < q /\ \E k \in 0 .. Pk(p).n - 1 : (g.old + j) % NDesc = At(p, k)
<1>0. Queued \in Nat /\ Reaped \in Nat /\ NDesc \in Nat /\ NDesc > 1 /\ g.old \in Desc
  BY RingFacts, Consts DEF TxInv, DriverOk
<1>1. \A p \in Heads : p \in Nat /\ Dist(Hd(p)) \in 0 .. NDesc - 1
  BY <1>0, RingFacts DEF Heads
<1> DEFINE T == {p \in Heads : j < Dist(Hd(p))}
<1>2. q \in T /\ T \subseteq Nat /\ T # {}
  BY <1>1
<1>3. PICK x \in T : \A y \in T : x <= y
  <2> HIDE DEF T
  <2> QED BY <1>2, LeastNat
<1>4. x \in Heads /\ j < Dist(Hd(x)) /\ x <= q /\ x \in Nat /\ q \in Nat
  BY <1>1, <1>2, <1>3
<1>5. x # Reaped + 1
  <2>1. Dist(Hd(Reaped + 1)) = 0
    <3>1. Hd(Reaped + 1) = g.old
      BY DEF RingShape
    <3>2. (g.old - g.old) % NDesc = 0
      BY <1>0, RingSub DEF Desc
    <3> QED BY <3>1, <3>2 DEF Dist
  <2> QED BY <1>1, <1>4, <2>1
<1>6. PICK p \in InFlight : p = x - 1
  BY <1>0, <1>4, <1>5 DEF Heads, InFlight
<1>7. p \in Heads /\ x = p + 1 /\ p < q /\ Pk(p).n \in 1 .. NDesc - 1
  BY <1>1, <1>4, <1>6, RingFacts
<1>8. Dist(Hd(x)) = Dist(Hd(p)) + Pk(p).n
  BY <1>6, <1>7 DEF RingShape
<1>9. Dist(Hd(p)) <= j
  BY <1>1, <1>3, <1>4, <1>7
<1> DEFINE k == j - Dist(Hd(p))
           d == (g.old + j) % NDesc
<1>10. k \in 0 .. Pk(p).n - 1 /\ k \in 0 .. Pk(p).n /\ j = Dist(Hd(p)) + k /\ j \in 0 .. NDesc - 1
  BY <1>0, <1>1, <1>4, <1>7, <1>8, <1>9
<1> HIDE DEF k
<1>11. d \in Desc /\ (d - g.old) % NDesc = j
  BY <1>0, <1>10, RingWalkOn
<1>12. At(p, k) \in Desc /\ (At(p, k) - g.old) % NDesc = j
  BY <1>6, <1>10, AtFacts DEF Dist
<1> HIDE DEF d
<1>13. d = At(p, k)
  BY <1>0, <1>10, <1>11, <1>12, RingWalkOn, SMTT(40)
<1> QED BY <1>6, <1>7, <1>10, <1>13 DEF d

\* The driver's search finds the first packet not sent, and the tail when there is none.
LEMMA FirstUnsentHead ==
  ASSUME TxInv, RingShape, NEW s, Place(s), ~Gather
  PROVE  FirstUnsent = Hd(s + 1)
<1>0. s \in Reaped .. Queued /\ Marks(s) /\ Queued \in Nat /\ Reaped \in Nat /\ s \in Nat
  BY RingFacts DEF Place
<1>1. s + 1 \in Heads /\ Hd(s + 1) \in Desc /\ Queued + 1 \in Heads /\ Hd(Queued + 1) = g.tail
  BY <1>0, RingFacts DEF Heads, Hd
<1>2. NDesc \in Nat /\ NDesc > 1 /\ g.old \in Desc /\ g.tail \in Desc
  BY Consts DEF TxInv, DriverOk
<1> DEFINE K == Dist(Hd(s + 1))
           D(k) == (g.old + k) % NDesc
           P(k) == /\ ~desc[D(k)].etxd \/ D(k) = g.tail
                   /\ \A j \in 0 .. k - 1 : desc[D(j)].etxd /\ D(j) # g.tail
<1>3. K \in 0 .. NDesc - 1 /\ K \in Nat
  BY <1>1, <1>2, RingFacts
<1>4. D(K) = Hd(s + 1)
  <2>1. (Hd(s + 1) - g.old) % NDesc = K
    BY DEF Dist
  <2> QED BY <1>1, <1>2, <1>3, <2>1, RingWalkOn, SMTT(40)
<1>5. \A j \in 0 .. K - 1 : desc[D(j)].etxd /\ D(j) # g.tail
  <2> TAKE j \in 0 .. K - 1
  <2>1. j \in Nat /\ j < Dist(Hd(s + 1))
    BY <1>3
  <2>2. PICK p \in InFlight : p < s + 1 /\ \E k \in 0 .. Pk(p).n - 1 : D(j) = At(p, k)
    BY <1>1, <2>1, BeforeHead
  <2>3. PICK k \in 0 .. Pk(p).n - 1 : D(j) = At(p, k)
    BY <2>2
  <2>4. p \in Nat /\ p <= s /\ p # Queued + 1
    BY <1>0, <2>2 DEF InFlight
  <2>5. desc[At(p, k)].etxd
    BY <1>0, <2>4 DEF Marks, MarkOk
  <2>6. At(p, k) # Hd(Queued + 1)
    BY <1>1, <2>4, AtApart
  <2> QED BY <1>1, <2>3, <2>5, <2>6
<1>6. ~desc[D(K)].etxd \/ D(K) = g.tail
  <2>1. CASE s = Queued
    BY <1>1, <1>4, <2>1
  <2>2. CASE s < Queued
    <3>1. PICK r \in InFlight : r = s + 1
      BY <1>0, <2>2 DEF InFlight
    <3>2. At(r, 0) = Hd(r) /\ 0 \in 0 .. Pk(r).n - 1
      <4>1. Pk(r).n \in 1 .. NDesc - 1
        BY RingFacts
      <4> QED BY <1>2, <4>1, AtFacts
    <3>3. ~desc[At(r, 0)].etxd
      BY <1>0, <3>1, <3>2 DEF Marks, MarkOk
    <3> QED BY <1>4, <3>1, <3>2, <3>3
  <2> QED BY <1>0, <2>1, <2>2
<1>7. FirstUnsent = D(CHOOSE k \in 0 .. NDesc - 1 : P(k))
  BY DEF FirstUnsent
<1> HIDE DEF K, D
<1>8. P(K)
  BY <1>5, <1>6
<1>9. \A k \in 0 .. NDesc - 1 : P(k) => k = K
  <2> TAKE k \in 0 .. NDesc - 1
  <2>1. k < K => k \in 0 .. K - 1
    BY <1>2, <1>3
  <2>2. k > K => K \in 0 .. k - 1
    BY <1>2, <1>3
  <2>3. k \in Int
    BY <1>2
  <2> QED BY <1>3, <1>5, <1>6, <2>1, <2>2, <2>3
<1> HIDE DEF P
<1>10. (CHOOSE k \in 0 .. NDesc - 1 : P(k)) = K
  BY <1>3, <1>8, <1>9
<1> QED BY <1>4, <1>7, <1>10

\* No chain has reached the descriptor cap.
NoCap == t.state # "T_IDLE" => t.ndesc # NdescMax

\* What one move of the channel has to keep.
Moved(s) ==
  /\ Where(s)' /\ Loaded(s)'
  /\ t'.state = "T_IDLE" => t'.crbdp = Hd(s + 1)
  /\ t'.crbdp \in {t.crbdp, Hd(s + 1)}
  /\ Gather => Gather'
  /\ \A k \in Nat : k > 0 /\ Gather' /\ (k < Pos(s)' \/ (k = Pos(s)' /\ Passed')) =>
        Gather /\ (k < Pos(s) \/ (k = Pos(s) /\ Passed))

LEMMA PlaceMoves ==
  ASSUME TxInv, Handshake, RingShape, CountsOk, NoCap, NEW s, Place(s), Ticked
  PROVE  Moved(s)
<1>0. /\ s \in Reaped .. Queued /\ Where(s) /\ Loaded(s) /\ Asked(s)
      /\ Queued \in Nat /\ Reaped \in Nat /\ s \in Nat
  BY RingFacts DEF Place
<1>1. /\ Moves /\ UNCHANGED <<desc, ld, slot, cq, txprod, cons, wire, sentq>>
      /\ g'.tail = g.tail /\ g'.old = g.old /\ g'.inflight = g.inflight
  BY DEF Ticked
<1>2. Queued' = Queued /\ Hd(s + 1)' = Hd(s + 1) /\ Pk(s + 1)' = Pk(s + 1)
  BY <1>1, RingSame
<1>3. /\ s + 1 \in Heads /\ (s < Queued => s + 1 \in InFlight) /\ Hd(s + 1) \in Desc /\ Pos(s) \in Nat
      /\ Gather \/ Fetch => /\ s < Queued /\ s + 1 \in InFlight /\ Pos(s) \in 0 .. Pk(s + 1).n - 1
                            /\ DP(t.nbdp) = At(s + 1, Pos(s) + 1) /\ Pk(s + 1).n \in 1 .. NDesc - 1
      /\ s < Queued => (t.nbdp = Hd(s + 1) <=> Pos(s) = 0)
  <2>1. /\ s + 1 \in Heads /\ (s < Queued => s + 1 \in InFlight) /\ Hd(s + 1) \in Desc /\ Pos(s) \in 0 .. NDesc - 1
        /\ s < Queued => (t.nbdp = Hd(s + 1) <=> Pos(s) = 0)
    BY <1>0, Here
  <2>2. s < Queued /\ Pos(s) < Pk(s + 1).n => Pos(s) \in 0 .. Pk(s + 1).n - 1 /\ DP(t.nbdp) = At(s + 1, Pos(s) + 1)
    BY <1>0, Here
  <2>3. s < Queued => Pk(s + 1).n \in 1 .. NDesc - 1
    BY <2>1, RingFacts
  <2> QED BY <1>0, <2>1, <2>2, <2>3, Consts DEF Where
<1>4. t'.nbdp = t.nbdp => Pos(s)' = Pos(s) /\ DP(t.nbdp)' = DP(t.nbdp)
  BY <1>2 DEF Pos, DP
<1>5. t'.nbdp = Hd(s + 1) => Pos(s)' = 0
  <2> DEFINE h == Hd(s + 1)
  <2>1. h \in Desc /\ NDesc \in Nat /\ NDesc > 1
    BY <1>3, Consts
  <2> HIDE DEF h
  <2>2. (h - h) % NDesc = 0
    BY <2>1 DEF Desc
  <2> QED BY <1>2, <2>2 DEF Pos, h
<1>6. CountsOk /\ (t.state \in {"T_MEM", "T_PUT", "T_BCWB", "T_FLUSH", "T_HEAD", "T_CQ", "T_IDX"} => t.open)
      /\ (t.state = "T_SLOT" => ~t.open)
  BY DEF CountsOk
<1>7. /\ (Gather \/ Fetch) /\ t.state # "T_DESC" =>
           /\ t.eoxp <=> Pos(s) = Pk(s + 1).n - 1
           /\ t.eox => Pos(s) = Pk(s + 1).n - 1
           /\ ~t.eox /\ Pos(s) = Pk(s + 1).n - 1 => s + 1 < Queued
      /\ t.state = "T_DESC" /\ acc =>
           /\ ld.desc.eoxp <=> Pos(s) = Pk(s + 1).n - 1
           /\ ld.desc.eox => Pos(s) = Pk(s + 1).n - 1
           /\ ~ld.desc.eox /\ Pos(s) = Pk(s + 1).n - 1 => s + 1 < Queued
           /\ ld.desc.buf = desc[t.nbdp].buf
  BY <1>0 DEF Loaded, Ends
<1>8. ASSUME (Gather \/ Fetch) /\ t.state # "T_DESC", t'.nbdp = t.nbdp, t'.eox = t.eox, t'.eoxp = t.eoxp, t'.state # "T_DESC"
      PROVE  Loaded(s)'
  <2>1. Ends(t.eox, t.eoxp, s + 1, Pos(s))'
    BY <1>2, <1>4, <1>7, <1>8 DEF Ends
  <2> QED BY <1>8, <2>1 DEF Loaded
<1>9. ASSUME ~Gather', ~Fetch' PROVE Loaded(s)'
  BY <1>9 DEF Loaded, Gather, Fetch
<1>10. CASE Stay
  <2>1. /\ (Gather' <=> Gather) /\ (Fetch' <=> Fetch) /\ (Closed' <=> Closed) /\ (Passed' <=> Passed)
        /\ t'.nbdp = t.nbdp /\ t'.crbdp = t.crbdp
    BY <1>10 DEF Stay, Gather, Fetch, Closed, Ahead, Passed
  <2>2. Where(s)'
    BY <1>0, <1>2, <1>4, <1>10, <2>1 DEF Where, Stay
  <2>3. Loaded(s)'
    BY <1>0, <1>1, <1>2, <1>4, <1>10, <2>1 DEF Loaded, Stay, Ends
  <2>4. t'.state = t.state
    BY <1>10 DEF Stay
  <2> QED BY <1>0, <1>4, <2>1, <2>2, <2>3, <2>4 DEF Moved, Asked
<1>11. CASE Kicked /\ MvIdle
  <2>1. /\ ~Gather /\ ~Gather' /\ Fetch' /\ ~Closed' /\ t'.state = "T_DESC" /\ ~acc' /\ t'.crbdp = t.crbdp
        /\ t'.nbdp = sh.req_nbdp /\ ~t'.open
    BY <1>11 DEF MvIdle, Gather, Fetch, Closed, Ahead
  <2>2. t'.nbdp = Hd(s + 1) /\ s < Queued
    BY <1>0, <1>11, <2>1 DEF Asked
  <2>3. Pos(s)' = 0 /\ Pk(s + 1).n \in 1 .. NDesc - 1
    BY <1>3, <1>5, <2>2, RingFacts
  <2>4. Where(s)'
    BY <1>2, <2>1, <2>2, <2>3 DEF Where
  <2>5. Loaded(s)'
    BY <2>1 DEF Loaded
  <2> QED BY <2>1, <2>4, <2>5 DEF Moved
<1>12. CASE MvDesc
  <2>1. /\ t.state = "T_DESC" /\ acc /\ (t'.open <=> t.open) /\ t'.nbdp = t.nbdp /\ t'.first = t.first /\ t'.crbdp = t.crbdp
        /\ t'.eox = ld.desc.eox /\ t'.eoxp = ld.desc.eoxp /\ ~acc'
        /\ t'.state \in {"T_SLOT", "T_MEM", "T_BCWB"} /\ (t'.state = "T_SLOT" <=> ~t.open)
    BY <1>12 DEF MvDesc, AfterBeat
  <2>2. /\ (Gather <=> t.open) /\ (Fetch <=> ~t.open) /\ (Gather' <=> t.open) /\ (Fetch' <=> ~t.open) /\ ~Closed' /\ ~Passed'
    BY <2>1 DEF Gather, Fetch, Closed, Ahead, Passed
  <2>3. Where(s)'
    BY <1>0, <1>2, <1>4, <2>1, <2>2 DEF Where
  <2>4. Ends(t.eox, t.eoxp, s + 1, Pos(s))'
    BY <1>2, <1>4, <1>7, <2>1 DEF Ends
  <2>5. Loaded(s)'
    BY <2>1, <2>4 DEF Loaded
  <2> QED BY <1>4, <2>1, <2>2, <2>3, <2>5 DEF Moved
<1>13. CASE MvSlot
  <2>1. /\ t.state = "T_SLOT" /\ t'.open /\ t'.nbdp = t.nbdp /\ t'.first = t.nbdp /\ t'.crbdp = t.nbdp
        /\ t'.eox = t.eox /\ t'.eoxp = t.eoxp /\ ~acc' /\ t'.state \in {"T_MEM", "T_BCWB"}
    BY <1>13 DEF MvSlot, AfterBeat
  <2>2. ~Gather /\ Fetch /\ Gather' /\ ~Fetch' /\ ~Closed' /\ ~Passed'
    BY <2>1 DEF Gather, Fetch, Closed, Ahead, Passed
  <2>3. t.nbdp = Hd(s + 1) /\ Pos(s)' = 0
    BY <1>0, <1>5, <2>1, <2>2 DEF Where
  <2>4. Where(s)'
    BY <1>0, <1>2, <1>4, <2>1, <2>2, <2>3 DEF Where
  <2>5. Loaded(s)'
    BY <1>8, <2>1, <2>2
  <2> QED BY <2>1, <2>2, <2>3, <2>4, <2>5 DEF Moved
<1>14. CASE MvMem \/ MvPut
  <2>1. /\ t.state \in {"T_MEM", "T_PUT"} /\ t'.open = t.open /\ t'.nbdp = t.nbdp /\ t'.first = t.first /\ t'.crbdp = t.crbdp
        /\ t'.eox = t.eox /\ t'.eoxp = t.eoxp /\ ~acc' /\ t'.state \in {"T_MEM", "T_PUT", "T_BCWB"}
    BY <1>14 DEF MvMem, MvPut, AfterBeat
  <2>2. Gather /\ Gather' /\ ~Fetch' /\ ~Closed' /\ ~Passed'
    BY <2>1 DEF Gather, Fetch, Closed, Ahead, Passed
  <2>3. Where(s)'
    BY <1>0, <1>2, <1>4, <2>1, <2>2 DEF Where
  <2>4. Loaded(s)'
    BY <1>8, <2>1, <2>2
  <2> QED BY <1>4, <2>1, <2>2, <2>3, <2>4 DEF Moved
<1>15. CASE MvBcwb
  <2>1. /\ t.state = "T_BCWB" /\ t'.open = t.open /\ t.open /\ t'.nbdp = t.nbdp /\ t'.first = t.first /\ t'.crbdp = t.crbdp
        /\ t'.eox = t.eox /\ t'.eoxp = t.eoxp /\ ~acc' /\ t'.state = (IF PacketEnd THEN "T_FLUSH" ELSE "T_NEXT")
        /\ t.nbdp # t.first => acc
    BY <1>6, <1>15 DEF MvBcwb
  <2>2. Gather /\ Gather' /\ ~Fetch' /\ ~Closed' /\ (acc => Passed)
    BY <2>1 DEF Gather, Fetch, Closed, Ahead, Passed
  <2>3. PacketEnd <=> Pos(s) = Pk(s + 1).n - 1
    BY <1>7, <2>1, <2>2 DEF PacketEnd, ChainEnd, NoCap
  <2>4. Where(s)'
    <3>1. Pos(s)' = Pos(s) /\ Pos(s) \in 0 .. Pk(s + 1).n - 1 /\ Pk(s + 1).n \in Int
      BY <1>3, <1>4, <2>1, <2>2, Consts
    <3>2. t'.state = "T_NEXT" => Pos(s) < Pk(s + 1).n - 1
      BY <2>1, <2>3, <3>1
    <3> QED BY <1>0, <1>2, <2>1, <2>2, <2>3, <3>1, <3>2 DEF Where
  <2>5. Loaded(s)'
    BY <1>8, <2>1, <2>2
  <2>6. Pos(s) > 0 => Passed
    BY <1>0, <1>3, <2>1, <2>2 DEF Where
  <2> QED BY <1>3, <1>4, <2>1, <2>2, <2>4, <2>5, <2>6 DEF Moved
<1>16. CASE MvFlush
  <2>1. /\ t.state = "T_FLUSH" /\ t'.open = t.open /\ t'.nbdp = t.nbdp /\ t'.first = t.first /\ t'.crbdp = t.crbdp
        /\ t'.eox = t.eox /\ t'.eoxp = t.eoxp /\ ~acc' /\ t'.state = "T_HEAD"
    BY <1>16 DEF MvFlush
  <2>2. Gather /\ Gather' /\ ~Fetch' /\ ~Closed' /\ Passed
    BY <2>1 DEF Gather, Fetch, Closed, Ahead, Passed
  <2>3. Where(s)'
    BY <1>0, <1>2, <1>4, <2>1, <2>2 DEF Where
  <2>4. Loaded(s)'
    BY <1>8, <2>1, <2>2
  <2> QED BY <1>4, <2>1, <2>2, <2>3, <2>4 DEF Moved
<1>17. CASE MvHead \/ MvCq \/ MvIdx
  <2>1. /\ t'.nbdp = t.nbdp /\ t'.eox = t.eox /\ t'.crbdp = t.crbdp /\ t'.state # "T_IDLE"
    BY <1>17 DEF MvHead, MvCq, MvIdx
  <2>2. ~Gather /\ ~Gather' /\ ~Fetch' /\ Closed /\ Closed'
    BY <1>17 DEF MvHead, MvCq, MvIdx, Gather, Fetch, Closed, Ahead
  <2>3. t'.state = "T_NEXT" => ~t'.open
    BY <1>17 DEF MvHead, MvCq, MvIdx
  <2>4. Where(s)'
    BY <1>0, <1>2, <1>4, <2>1, <2>2, <2>3 DEF Where
  <2>5. Loaded(s)'
    BY <1>9, <2>2
  <2> QED BY <2>1, <2>2, <2>4, <2>5 DEF Moved
<1>18. CASE MvEnd
  <2>1. t.state = "T_NEXT" /\ ChainEnd /\ t'.state = "T_IDLE" /\ t'.crbdp = DP(t.nbdp) /\ acc' = FALSE
    BY <1>18 DEF MvEnd
  <2>2. t.eox
    BY <2>1 DEF ChainEnd, NoCap
  <2>3. ~t.open
    <3> SUFFICES ASSUME t.open PROVE FALSE
      OBVIOUS
    <3>1. Gather
      BY <2>1 DEF Gather
    <3>2. Pos(s) = Pk(s + 1).n - 1 /\ Pos(s) < Pk(s + 1).n - 1 /\ Pos(s) \in Nat
      BY <1>0, <1>3, <1>7, <2>1, <2>2, <3>1 DEF Where
    <3> QED BY <3>2
  <2>4. ~Gather /\ ~Gather' /\ ~Fetch' /\ Closed /\ ~Closed'
    BY <2>1, <2>3 DEF Gather, Fetch, Closed, Ahead
  <2>5. t'.crbdp = Hd(s + 1)
    BY <1>0, <2>1, <2>4 DEF Where
  <2>6. Where(s)' /\ Loaded(s)'
    BY <1>9, <2>1, <2>4 DEF Where
  <2> QED BY <2>4, <2>5, <2>6 DEF Moved
<1>19. CASE MvOn
  <2>1. /\ t.state = "T_NEXT" /\ ~ChainEnd /\ t'.state = "T_DESC" /\ t'.nbdp = DP(t.nbdp) /\ acc' = FALSE
        /\ (t'.open <=> t.open) /\ t'.first = t.first /\ t'.crbdp = t.crbdp
    BY <1>19 DEF MvOn
  <2>2. Loaded(s)'
    BY <2>1 DEF Loaded
  <2>3. CASE t.open
    <3>1. Gather /\ Gather' /\ ~Fetch' /\ ~Closed' /\ Passed /\ ~Passed'
      BY <2>1, <2>3 DEF Gather, Fetch, Closed, Ahead, Passed
    <3>2. Pos(s) < Pk(s + 1).n - 1 /\ s < Queued /\ s + 1 \in InFlight /\ Pos(s) \in Nat /\ Pk(s + 1).n \in Nat
      BY <1>0, <1>3, <2>1, <2>3, <3>1, Consts DEF Where
    <3>3. t'.nbdp = At(s + 1, Pos(s) + 1)
      BY <1>3, <2>1, <3>1
    <3>4. Pos(s)' = Pos(s) + 1
      <4>1. Pos(s) + 1 \in 0 .. Pk(s + 1).n
        BY <3>2
      <4>2. (At(s + 1, Pos(s) + 1) - Hd(s + 1)) % NDesc = Pos(s) + 1
        BY <3>2, <4>1, AtFacts
      <4>3. Pos(s)' = (t'.nbdp - Hd(s + 1)) % NDesc
        BY <1>2 DEF Pos
      <4> QED BY <3>3, <4>2, <4>3
    <3>5. Where(s)'
      BY <1>0, <1>2, <2>1, <3>1, <3>2, <3>4 DEF Where
    <3>6. \A k \in Nat : k < Pos(s)' => k < Pos(s) \/ k = Pos(s)
      BY <3>2, <3>4
    <3> QED BY <2>1, <2>2, <3>1, <3>5, <3>6 DEF Moved
  <2>4. CASE ~t.open
    <3>1. ~Gather /\ ~Gather' /\ Fetch' /\ Closed /\ ~Closed'
      BY <2>1, <2>4 DEF Gather, Fetch, Closed, Ahead
    <3>2. t'.nbdp = Hd(s + 1) /\ s < Queued
      BY <1>0, <2>1, <3>1 DEF Where, ChainEnd
    <3>3. Pos(s)' = 0 /\ Pk(s + 1).n \in 1 .. NDesc - 1
      BY <1>3, <1>5, <3>2, RingFacts
    <3>4. Where(s)'
      BY <1>2, <2>1, <3>1, <3>2, <3>3 DEF Where
    <3> QED BY <2>1, <2>2, <3>1, <3>4 DEF Moved
  <2> QED BY <2>3, <2>4
<1> QED BY <1>1, <1>10, <1>11, <1>12, <1>13, <1>14, <1>15, <1>16, <1>17, <1>18, <1>19 DEF Moves

\* A clock keeps the place.
LEMMA PlaceTick ==
  ASSUME TxInv, Handshake, RingShape, CountsOk, NoCap, NEW s, Place(s), Ticked
  PROVE  Place(s)'
<1>0. /\ s \in Reaped .. Queued /\ Where(s) /\ Loaded(s) /\ Asked(s) /\ Marks(s) /\ Bounds(s)
      /\ Queued \in Nat /\ Reaped \in Nat /\ s \in Nat
  BY RingFacts DEF Place
<1>1. /\ g'.tail = g.tail /\ g'.old = g.old /\ g'.inflight = g.inflight /\ g'.rule = g.rule /\ g'.bound = g.bound
      /\ desc' = desc /\ sentq' = sentq
      /\ g'.pc = "reap" => g.pc = "reap"
      /\ g'.pc = "ctrl" => g.pc = "ctrl" \/ (Resting /\ FirstUnsent # g.tail)
  BY DEF Ticked
<1>2. /\ Kicked' => Resting /\ g.pc = "ctrl" /\ sh'.req_nbdp = sh.nbdp
      /\ Resting' => \/ Echoed /\ sh'.nbdp = t.crbdp
                     \/ Resting /\ sh'.nbdp \in {sh.nbdp, FirstUnsent}
  BY DEF Ticked
<1>3. Queued' = Queued /\ Reaped' = Reaped /\ InFlight' = InFlight
  BY <1>1, RingSame
<1>4. \A p : Pk(p)' = Pk(p) /\ Hd(p)' = Hd(p) /\ \A k : At(p, k)' = At(p, k)
  BY <1>1, RingSame
<1>5. Moved(s)
  BY PlaceMoves
<1>6. (Resting => t.state = "T_IDLE") /\ (Echoed => t.state = "T_IDLE") /\ (t.state = "T_IDLE" => ~Gather)
  BY DEF Resting, Echoed, Gather
<1>7. ~Gather => FirstUnsent = Hd(s + 1)
  BY FirstUnsentHead
<1>8. Asked(s)'
  <2>1. t'.state = "T_IDLE" => t'.crbdp = Hd(s + 1)'
    BY <1>4, <1>5 DEF Moved
  <2>2. Kicked' => sh'.req_nbdp = Hd(s + 1)' /\ s < Queued'
    BY <1>0, <1>2, <1>3, <1>4 DEF Asked
  <2>3. Resting' => sh'.nbdp = Hd(s + 1)'
    BY <1>0, <1>2, <1>4, <1>6, <1>7 DEF Asked
  <2>4. g'.pc = "ctrl" => s < Queued'
    <3>1. Resting /\ FirstUnsent # g.tail => s # Queued
      BY <1>6, <1>7 DEF Hd
    <3> QED BY <1>0, <1>1, <1>3, <3>1 DEF Asked
  <2> QED BY <2>1, <2>2, <2>3, <2>4 DEF Asked
<1>9. Marks(s)'
  <2> SUFFICES ASSUME NEW p \in InFlight', NEW k \in 0 .. Pk(p)'.n - 1
               PROVE  MarkOk(desc[At(p, k)].etxd, s, p, k)'
    BY DEF Marks
  <2>1. p \in InFlight /\ Pk(p)' = Pk(p) /\ At(p, k)' = At(p, k)
    BY <1>3, <1>4
  <2>2. k \in Nat
    BY <2>1, RingFacts
  <2> DEFINE e == desc[At(p, k)].etxd
  <2>3. MarkOk(e, s, p, k) /\ desc'[At(p, k)'].etxd = e
    BY <1>0, <1>1, <2>1 DEF Marks
  <2> HIDE DEF e
  <2>4. /\ Gather => Gather'
        /\ k > 0 /\ Gather' /\ (k < Pos(s)' \/ (k = Pos(s)' /\ Passed')) =>
             Gather /\ (k < Pos(s) \/ (k = Pos(s) /\ Passed))
    BY <1>5, <2>2 DEF Moved
  <2> QED BY <2>3, <2>4 DEF MarkOk
<1>10. Bounds(s)'
  <2>1. g.rule \in {"etxd", "crbdp"}
    BY <1>0 DEF Bounds
  <2>2. ASSUME g.rule = "crbdp"
        PROVE  \E c \in Reaped + 1 .. s + 1 :
                  t'.crbdp = Hd(c) /\ (g'.pc = "reap" => \E b \in Reaped + 1 .. c : g'.bound = Hd(b))
    <3>1. PICK c \in Reaped + 1 .. s + 1 :
             t.crbdp = Hd(c) /\ (g.pc = "reap" => \E b \in Reaped + 1 .. c : g.bound = Hd(b))
      BY <1>0, <2>2 DEF Bounds
    <3>2. CASE t'.crbdp = t.crbdp
      BY <1>1, <3>1, <3>2
    <3>3. CASE t'.crbdp = Hd(s + 1)
      <4>1. s + 1 \in Reaped + 1 .. s + 1 /\ \A b \in Reaped + 1 .. c : b \in Reaped + 1 .. s + 1
        BY <1>0
      <4> QED BY <1>1, <3>1, <3>3, <4>1
    <3> QED BY <1>5, <3>2, <3>3 DEF Moved
  <2> QED BY <1>1, <1>3, <1>4, <2>1, <2>2 DEF Bounds
<1> QED BY <1>0, <1>3, <1>5, <1>8, <1>9, <1>10 DEF Place, Moved

\* The place of the channel, for the packets sent.
PlaceOk == \E s \in Nat : s = Sent /\ Place(s)

LEMMA PlaceInit == Init => PlaceOk
<1> SUFFICES ASSUME Init PROVE PlaceOk
  OBVIOUS
<1>1. /\ t = ChanReset /\ sh = ShimReset /\ g \in {GuestInit(rule) : rule \in {"etxd", "crbdp"}}
      /\ wire = <<>> /\ sentq = <<>> /\ txprod = 0 /\ cons = 0
  BY DEF Init
<1>2. t.state = "T_IDLE" /\ t.crbdp = 0 /\ ~sh.active /\ sh.nbdp = 0
  BY <1>1 DEF ChanReset, ShimReset
<1>3. g.pc = "idle" /\ g.rule \in {"etxd", "crbdp"} /\ g.tail = 0 /\ g.inflight = <<>>
  BY <1>1 DEF GuestInit
<1>4. Sent = 0
  <2>1. Diff(txprod, cons) = 0
    BY <1>1, Consts DEF Diff
  <2> QED BY <1>1, <1>2, <2>1, EmptySeq DEF Sent, Staged, Ahead
<1>5. Queued = 0 /\ Reaped = 0 /\ InFlight = {}
  BY <1>1, <1>3, EmptySeq DEF Queued, Reaped, InFlight
<1>6. Hd(1) = 0
  BY <1>3, <1>5 DEF Hd
<1>7. ~Gather /\ ~Fetch /\ ~Closed /\ ~Kicked
  BY <1>2 DEF Gather, Fetch, Closed, Ahead, Kicked, ActiveReq
<1>8. Where(0) /\ Loaded(0)
  BY <1>2, <1>7 DEF Where, Loaded
<1>9. Asked(0)
  BY <1>2, <1>3, <1>6, <1>7 DEF Asked
<1>10. Marks(0)
  BY <1>5 DEF Marks
<1>11. Bounds(0)
  <2>1. 1 \in Reaped + 1 .. 0 + 1
    BY <1>5
  <2> QED BY <1>2, <1>3, <1>6, <2>1 DEF Bounds
<1> QED BY <1>4, <1>5, <1>8, <1>9, <1>10, <1>11 DEF PlaceOk, Place

LEMMA PlaceStep ==
  ASSUME TxInv, Handshake, RingShape, EndsOk, WireTyped, CountsOk, PlaceOk, NoCap, [Next]_vars
  PROVE  PlaceOk'
<1>1. PICK s \in Nat : s = Sent /\ Place(s)
  BY DEF PlaceOk
<1>2. Sent' = IF Mem /\ t.state = "T_HEAD" THEN Sent + 1 ELSE Sent
  BY CountsStep
<1>3. CASE Mem /\ t.state = "T_HEAD"
  <2>1. Place(s + 1)'
    BY <1>1, <1>3, PlaceMem
  <2>2. PICK r \in Nat : r = s + 1
    OBVIOUS
  <2>3. Place(r)' /\ r = Sent'
    BY <1>1, <1>2, <1>3, <2>1, <2>2
  <2> QED BY <2>2, <2>3 DEF PlaceOk
<1>4. CASE Mem /\ t.state # "T_HEAD"
  <2>1. Place(s)'
    BY <1>1, <1>4, PlaceMem
  <2> QED BY <1>1, <1>2, <1>4, <2>1 DEF PlaceOk
<1>5. CASE ~Mem
  <2>1. Place(s)'
    <3>1. GuestOnly \/ ArmConsume \/ Ticked
      BY <1>5, StepKinds
    <3>2. CASE GuestOnly \/ ArmConsume
      BY <1>1, <3>2, PlaceGuest
    <3>3. CASE Ticked
      BY <1>1, <3>3, PlaceTick
    <3> QED BY <3>1, <3>2, <3>3
  <2> QED BY <1>1, <1>2, <1>5, <2>1 DEF PlaceOk
<1> QED BY <1>3, <1>4, <1>5

\* What the place says of the driver's reclaiming.
LEMMA PlaceReclaim ==
  ASSUME TxInv, RingShape, NEW s, Place(s)
  PROVE  ReclaimSafe
<1>0. /\ s \in Reaped .. Queued /\ Marks(s) /\ Bounds(s)
      /\ Queued \in Nat /\ Reaped \in Nat /\ s \in Nat /\ Len(g.inflight) = Queued - Reaped
  BY RingFacts DEF Place
<1>1. \A i \in 1 .. Len(g.inflight) : Reaped + i \in InFlight /\ g.inflight[i] = Pk(Reaped + i)
  <2> TAKE i \in 1 .. Len(g.inflight)
  <2>1. Reaped + i \in InFlight /\ (Reaped + i) - Reaped = i
    BY <1>0 DEF InFlight
  <2> QED BY <2>1 DEF Pk
<1>2. \A p \in InFlight : /\ Pk(p).head = Hd(p) /\ p \in Nat /\ p \in Heads /\ Pk(p).n \in 1 .. NDesc - 1
                          /\ \A k : (Pk(p).head + k) % NDesc = At(p, k)
  <2> TAKE p \in InFlight
  <2>1. p # Queued + 1 /\ p \in Nat
    BY <1>0 DEF InFlight
  <2>2. Pk(p).head = Hd(p)
    BY <2>1 DEF Hd
  <2> QED BY <2>1, <2>2, RingFacts DEF At
<1>3. \A p \in InFlight : desc[Hd(p)].etxd <=> p <= s
  <2> TAKE p \in InFlight
  <2>1. At(p, 0) = Hd(p) /\ 0 \in 0 .. Pk(p).n - 1 /\ p \in Nat
    BY <1>2, AtFacts, Consts
  <2>2. MarkOk(desc[At(p, 0)].etxd, s, p, 0)
    BY <1>0, <2>1 DEF Marks
  <2> QED BY <1>0, <2>1, <2>2 DEF MarkOk
<1>4. HeadDoneLast
  <2> SUFFICES ASSUME NEW i \in 1 .. Len(g.inflight), desc[g.inflight[i].head].etxd,
                      NEW k \in 0 .. g.inflight[i].n - 1
               PROVE  desc[(g.inflight[i].head + k) % NDesc].etxd
    BY DEF HeadDoneLast
  <2>1. PICK p \in InFlight : p = Reaped + i
    BY <1>1
  <2>2. g.inflight[i] = Pk(p) /\ Pk(p).head = Hd(p) /\ (Pk(p).head + k) % NDesc = At(p, k)
    BY <1>1, <1>2, <2>1
  <2>3. p <= s /\ k \in 0 .. Pk(p).n - 1
    BY <1>3, <2>2
  <2>4. MarkOk(desc[At(p, k)].etxd, s, p, k)
    BY <1>0, <2>3 DEF Marks
  <2> QED BY <2>2, <2>3, <2>4 DEF MarkOk
<1>5. ReapStopsAtBound
  <2> SUFFICES ASSUME g.rule = "crbdp", g.pc = "reap"
               PROVE  /\ g.inflight = <<>> => g.old = g.bound
                      /\ Reapable => desc[g.inflight[1].head].etxd
    BY DEF ReapStopsAtBound
  <2>1. PICK c \in Reaped + 1 .. s + 1 : \E b \in Reaped + 1 .. c : g.bound = Hd(b)
    BY <1>0 DEF Bounds
  <2>2. PICK b \in Reaped + 1 .. c : g.bound = Hd(b)
    BY <2>1
  <2>3. b \in Int /\ Reaped + 1 <= b /\ b <= s + 1
    BY <1>0
  <2>4. Hd(Reaped + 1) = g.old
    BY DEF RingShape
  <2>5. g.inflight = <<>> => g.old = g.bound
    <3> HAVE g.inflight = <<>>
    <3>1. Queued = Reaped
      BY <1>0, EmptySeq
    <3>2. b = Reaped + 1
      BY <1>0, <2>3, <3>1
    <3> QED BY <2>2, <2>4, <3>2
  <2>6. Reapable => desc[g.inflight[1].head].etxd
    <3> HAVE Reapable
    <3>1. g.inflight # <<>> /\ g.old # g.bound
      BY DEF Reapable
    <3>2. b # Reaped + 1
      BY <2>2, <2>4, <3>1
    <3>3. Reaped + 1 <= s
      BY <1>0, <2>3, <3>2
    <3>4. 1 \in 1 .. Len(g.inflight)
      BY <1>0, <3>3
    <3>5. PICK p \in InFlight : p = Reaped + 1
      BY <1>1, <3>4
    <3>6. g.inflight[1] = Pk(p) /\ Pk(p).head = Hd(p)
      BY <1>1, <1>2, <3>4, <3>5
    <3> QED BY <1>3, <3>3, <3>5, <3>6
  <2> QED BY <2>5, <2>6
<1>6. CrbdpOutsidePackets
  <2> SUFFICES ASSUME g.rule = "crbdp", NEW i \in 1 .. Len(g.inflight), NEW k \in 1 .. g.inflight[i].n - 1
               PROVE  t.crbdp # (g.inflight[i].head + k) % NDesc
    BY DEF CrbdpOutsidePackets
  <2>1. PICK c \in Reaped + 1 .. s + 1 : t.crbdp = Hd(c)
    BY <1>0 DEF Bounds
  <2>2. PICK p \in InFlight : p = Reaped + i
    BY <1>1
  <2>3. g.inflight[i] = Pk(p) /\ (Pk(p).head + k) % NDesc = At(p, k)
    BY <1>1, <1>2, <2>2
  <2>4. c \in Heads /\ k \in 0 .. Pk(p).n - 1 /\ k # 0
    BY <1>0, <1>2, <2>3, Consts DEF Heads
  <2>5. At(p, k) # Hd(c)
    BY <2>4, AtApart
  <2> QED BY <2>1, <2>3, <2>5
<1> QED BY <1>4, <1>5, <1>6 DEF ReclaimSafe
-----------------------------------------------------------------------------
(* The slots of the free-running indices *)

LEMMA ModValue ==
  ASSUME NEW N \in Nat, N > 0, NEW z \in Int
  PROVE  /\ z = N * (z \div N) + (z % N) /\ z \div N \in Int /\ z % N \in 0 .. N - 1
         /\ \A q \in Int, r \in 0 .. N - 1 : z = N * q + r => z % N = r
<1>1. z = N * (z \div N) + (z % N)
  OBVIOUS
<1>2. z % N \in 0 .. N - 1 /\ z \div N \in Int
  OBVIOUS
<1>3. ASSUME NEW q \in Int, NEW r \in 0 .. N - 1, z = N * q + r
      PROVE  z % N = r
  <2> DEFINE u == z % N
             w == z \div N
  <2> HIDE DEF u, w
  <2>1. N * (q - w) = u - r /\ u \in 0 .. N - 1 /\ w \in Int
    BY <1>1, <1>2, <1>3 DEF u, w
  <2>2. q - w \in Int /\ (q - w > 0 => N * (q - w) >= N) /\ (q - w < 0 => N * (q - w) <= -N)
    BY <2>1
  <2>3. q - w = 0
    BY <2>1, <2>2
  <2> QED BY <2>1, <2>3 DEF u
<1> QED BY <1>1, <1>2, <1>3

\* The slot of an index does not depend on the wrap of the counter: its modulus is a multiple
\* of the number of slots.
LEMMA SlotOf ==
  ASSUME NEW c \in Nat
  PROVE  (c % CntMod) % NSlot = c % NSlot
<1>1. CntMod \in Nat /\ CntMod > 0 /\ NSlot \in Nat /\ NSlot > 0 /\ CntMod % NSlot = 0
  BY TxConstants
<1> DEFINE q == c \div CntMod
           r == c % CntMod
           K == CntMod \div NSlot
           a == r \div NSlot
           b == r % NSlot
<1>2. c = CntMod * q + r /\ q \in Int /\ r \in Int
  BY <1>1, ModValue
<1>3. CntMod = NSlot * K /\ K \in Int
  BY <1>1, ModValue
<1>4. r = NSlot * a + b /\ a \in Int /\ b \in 0 .. NSlot - 1
  BY <1>1, <1>2, ModValue
<1> HIDE DEF q, r, K, a, b
<1> DEFINE h == K * q
           x == NSlot * h
<1>5. CntMod * q = x /\ h \in Int
  BY <1>1, <1>2, <1>3
<1> HIDE DEF h
<1>6. c = NSlot * (h + a) + b
  <2>1. NSlot * (h + a) = NSlot * h + NSlot * a
    BY <1>1, <1>4, <1>5
  <2> QED BY <1>1, <1>2, <1>4, <1>5, <2>1
<1>7. c % NSlot = b
  <2>1. h + a \in Int /\ c \in Int
    BY <1>4, <1>5
  <2> QED BY <1>1, <1>4, <1>6, <2>1, ModValue
<1> QED BY <1>7 DEF r, b

\* Different offsets below NSlot are different slots.
LEMMA SlotApart ==
  ASSUME NEW c \in Nat, NEW x \in Nat, NEW y \in Nat, x < y, y < NSlot
  PROVE  (c + x) % NSlot # (c + y) % NSlot
<1>1. NSlot \in Nat /\ NSlot > 0
  BY Consts
<1> DEFINE u == (c + x) \div NSlot
           v == (c + y) \div NSlot
           d == (c + x) % NSlot
           e == (c + y) % NSlot
<1>2. c + x \in Int /\ c + y \in Int
  OBVIOUS
<1>3. c + x = NSlot * u + d /\ u \in Int /\ d \in Int
  BY <1>1, <1>2, ModValue
<1>4. c + y = NSlot * v + e /\ v \in Int /\ e \in Int
  BY <1>1, <1>2, ModValue
<1> HIDE DEF u, v, d, e
<1>5. SUFFICES ASSUME d = e PROVE FALSE
  BY DEF d, e
<1> DEFINE w == v - u
           z == NSlot * w
<1>6. z = y - x /\ w \in Int
  BY <1>1, <1>3, <1>4, <1>5
<1> HIDE DEF w
<1>7. (w > 0 => z >= NSlot) /\ (w <= 0 => z <= 0)
  BY <1>1, <1>6
<1> HIDE DEF z
<1>8. w > 0 \/ w <= 0
  BY <1>6
<1> QED BY <1>1, <1>6, <1>7, <1>8

\* The n entries from cons on end at the slot of prod.
LEMMA SlotNext ==
  ASSUME NEW a \in Counts, NEW b \in Counts
  PROVE  /\ a % NSlot = (b + Diff(a, b)) % NSlot
         /\ \A k \in Nat : (Inc(b) + k) % NSlot = (b + (k + 1)) % NSlot
<1>1. CntMod \in Nat /\ CntMod > 0 /\ a \in Nat /\ b \in Nat /\ a < CntMod /\ b < CntMod
  BY Consts DEF Counts
<1>2. a % NSlot = (b + Diff(a, b)) % NSlot
  <2> DEFINE u == Diff(a, b)
  <2>1. u = IF b <= a THEN a - b ELSE a - b + CntMod
    BY DiffValue
  <2> HIDE DEF u
  <2>2. u \in Nat /\ (b + u = a \/ b + u = a + CntMod) /\ b + u \in Nat
    BY <1>1, <2>1
  <2>3. (b + u) % CntMod = a
    <3>1. a % CntMod = a
      BY <1>1
    <3>2. (a + CntMod) % CntMod = a
      BY <1>1
    <3> QED BY <2>2, <3>1, <3>2
  <2>4. ((b + u) % CntMod) % NSlot = (b + u) % NSlot
    BY <2>2, SlotOf
  <2> QED BY <2>3, <2>4 DEF u
<1>3. ASSUME NEW k \in Nat
      PROVE  (Inc(b) + k) % NSlot = (b + (k + 1)) % NSlot
  <2> DEFINE i == Inc(b)
  <2>1. i = IF b = CntMod - 1 THEN 0 ELSE b + 1
    BY IncValue
  <2> HIDE DEF i
  <2>2. CASE i = b + 1
    <3>1. i + k = b + (k + 1)
      BY <1>1, <2>2
    <3> QED BY <3>1 DEF i
  <2>3. CASE b = CntMod - 1 /\ i = 0
    <3>1. i + k = k /\ b + (k + 1) = k + CntMod /\ k + CntMod \in Nat
      BY <1>1, <2>3
    <3>2. ((k + CntMod) % CntMod) % NSlot = (k + CntMod) % NSlot /\ (k % CntMod) % NSlot = k % NSlot
      BY <3>1, SlotOf
    <3>3. (k + CntMod) % CntMod = k % CntMod
      <4> DEFINE q == k \div CntMod
                 r == k % CntMod
      <4>1. k = CntMod * q + r /\ q \in Int /\ r \in 0 .. CntMod - 1
        BY <1>1, ModValue
      <4> HIDE DEF q, r
      <4>2. k + CntMod = CntMod * (q + 1) + r /\ q + 1 \in Int /\ k + CntMod \in Int
        BY <1>1, <4>1
      <4>3. (k + CntMod) % CntMod = r
        BY <1>1, <4>1, <4>2, ModValue
      <4> QED BY <4>3 DEF r
    <3> QED BY <3>1, <3>2, <3>3 DEF i
  <2> QED BY <2>1, <2>2, <2>3
<1> QED BY <1>2, <1>3
-----------------------------------------------------------------------------
(* The bytes: from the buffers through the gather register to the slot, the entry and the wire *)

Cap == SlotBeats * Lanes
CurSlot == t.prod % NSlot

\* slot i starts with the first x bytes of f
HasBytes(i, f, x) == Len(slot[i]) >= x /\ \A j \in 1 .. x : slot[i][j] = f[j]

\* slot and completion i carry f
Entry(i, f) ==
  /\ cq[i].len = Len(f) /\ (cq[i].trunc <=> Len(f) > Cap)
  /\ HasBytes(i, f, Min2(Len(f), Cap))

Filling == Gather /\ t.state # "T_HEAD"
Filled == t.state \in {"T_HEAD", "T_CQ"} \/ (t.state = "T_IDX" /\ ~acc)

\* the bytes gathered in whole beats before the one to be stored
Whole == t.len - Len(t.hold) - (IF t.state = "T_PUT" THEN Lanes ELSE 0)

\* The registers that follow the buffer at work, and the line loaded from it.
LineOk ==
  /\ Fetch \/ Filled \/ Closed => t.hold = <<>>
  /\ (Gather \/ Fetch) /\ t.state # "T_DESC" => t.bp + t.cnt = Len(desc[t.nbdp].buf)
  /\ t.state = "T_SLOT" => t.bp = 0
  /\ t.state \in {"T_BCWB", "T_FLUSH", "T_NEXT"} /\ Gather => t.cnt = 0
  /\ t.state = "T_MEM" /\ acc => \A j \in 1 .. Len(ld.bytes) : ld.bytes[j] = desc[t.nbdp].buf[t.bp + j]

\* m packets are published; the length counts the bytes of packet m + 1 up to the place.
LengthOk(m) ==
  Filling => \A b : Starts(b, m + 1) =>
    t.len = IF t.state = "T_DESC" THEN b[Pos(m)] ELSE b[Pos(m)] + t.bp

\* The beats stored, the beat to be stored and the gather register are the packet's bytes.
GatherOk(m) ==
  Filling =>
    /\ Whole \in Nat /\ t.soff * Lanes = Min2(Whole, Cap) /\ (t.trunc <=> Whole > Cap)
    /\ \A j \in 1 .. Len(t.hold) : t.hold[j] = sentq[m + 1][t.len - Len(t.hold) + j]
    /\ t.state = "T_PUT" => Len(t.beat) = Lanes /\ \A j \in 1 .. Lanes : t.beat[j] = sentq[m + 1][Whole + j]
    /\ HasBytes(CurSlot, sentq[m + 1], t.soff * Lanes)
    /\ t.state = "T_PUT" /\ acc => HasBytes(CurSlot, sentq[m + 1], t.soff * Lanes + Lanes)
    /\ t.state = "T_FLUSH" /\ acc => HasBytes(CurSlot, sentq[m + 1], t.soff * Lanes + Len(t.hold))

FilledOk(m) ==
  Filled =>
    /\ t.len = Len(sentq[m + 1]) /\ (t.trunc <=> Len(sentq[m + 1]) > Cap)
    /\ HasBytes(CurSlot, sentq[m + 1], Min2(Len(sentq[m + 1]), Cap))
    /\ (t.state = "T_CQ" /\ acc) \/ t.state = "T_IDX" => Entry(CurSlot, sentq[m + 1])

\* The published entries and the frames on the wire are the packets.
EntriesOk == \A k \in 0 .. Diff(txprod, cons) - 1 : Entry((cons + k) % NSlot, sentq[Len(wire) + k + 1])
WireOk == \A i \in 1 .. Len(wire) : wire[i] = Cut(sentq[i])

Bytes(m) == LineOk /\ LengthOk(m) /\ GatherOk(m) /\ FilledOk(m)
BytesOk == EntriesOk /\ WireOk /\ \E m \in Nat : m = Staged /\ Bytes(m)

\* The history of queued frames only grows.
LEMMA SentKept ==
  ASSUME TxInv, RingShape, [Next]_vars
  PROVE  /\ \A i \in 1 .. Queued : sentq'[i] = sentq[i] /\ sentq[i] \in Seq(Byte)
         /\ Queued' \in Nat /\ Reaped' \in Nat /\ Queued <= Queued'
<1>0. Queued \in Nat /\ Reaped \in Nat /\ sentq \in Seq(Seq(Byte))
  BY RingFacts DEF TxInv, HistoryOk
<1>1. \A i \in 1 .. Queued : sentq[i] \in Seq(Byte)
  BY <1>0, ElementOfSeq DEF Queued
<1>2. CASE \E s \in Shapes : GuestQueue(s)
  <2>1. PICK s \in Shapes : GuestQueue(s)
    BY <1>2
  <2>2. Queued' = Queued + 1 /\ Reaped' = Reaped
    BY <2>1, QueueRing
  <2>3. PICK x \in Seq(Byte) : sentq' = Append(sentq, x)
    <3>1. Queued + 1 \in Nat
      BY <1>0
    <3>2. FlattenFrame(Frame(Queued + 1, s)) \in Seq(Byte)
      BY <3>1, FrameType
    <3> QED BY <2>1, <3>2, QueueDesc
  <2>4. \A i \in 1 .. Queued : sentq'[i] = sentq[i]
    BY <1>0, <2>3, AppendProperties DEF Queued
  <2> QED BY <1>0, <1>1, <2>2, <2>4
<1>3. CASE GuestReap /\ Reapable
  <2>1. Queued' = Queued /\ Reaped' = Reaped + 1
    BY <1>3, ReapRing
  <2>2. sentq' = sentq
    BY <1>3 DEF GuestReap
  <2> QED BY <1>0, <1>1, <2>1, <2>2
<1>4. CASE ~(\E s \in Shapes : GuestQueue(s)) /\ ~(GuestReap /\ Reapable)
  <2>1. g'.tail = g.tail /\ g'.old = g.old /\ g'.inflight = g.inflight /\ sentq' = sentq
    BY <1>4, DriverSame
  <2>2. Queued' = Queued /\ Reaped' = Reaped
    BY <2>1, RingSame
  <2> QED BY <1>0, <1>1, <2>1, <2>2
<1> QED BY <1>2, <1>3, <1>4

\* m packets are published: what the place says of them and of packet m + 1.
LEMMA Publishing ==
  ASSUME TxInv, RingShape, WireTyped, CountsOk, PlaceOk, NEW m, m = Staged
  PROVE  /\ m \in Nat /\ m <= Queued /\ Queued \in Nat
         /\ Len(wire) \in Nat /\ Diff(txprod, cons) \in Nat /\ Len(wire) + Diff(txprod, cons) = m
         /\ Gather \/ Fetch => /\ Place(m) /\ m < Queued /\ m + 1 \in InFlight
                               /\ Pos(m) \in 0 .. Pk(m + 1).n - 1 /\ t.nbdp = At(m + 1, Pos(m))
                               /\ Pk(m + 1).n \in 1 .. NDesc - 1
         /\ Filled => m < Queued
<1>1. /\ txprod \in Counts /\ cons \in Counts /\ Len(wire) \in Nat
  BY LenProperties DEF TxInv, StagingOk, WireTyped
<1>2. Diff(txprod, cons) \in Nat
  BY <1>1, DiffSteps
<1>3. Len(wire) + Diff(txprod, cons) = m /\ m \in Nat
  BY <1>1, <1>2 DEF Staged
<1>4. PICK s \in Nat : s = Sent /\ Place(s)
  BY DEF PlaceOk
<1>5. s = (IF Ahead THEN m + 1 ELSE m) /\ s \in Reaped .. Queued /\ Where(s) /\ Queued \in Nat /\ Reaped \in Nat
  BY <1>4, RingFacts DEF Sent, Place
<1>6. m <= Queued
  BY <1>3, <1>5
<1>7. ASSUME Gather \/ Fetch
      PROVE  /\ Place(m) /\ m < Queued /\ m + 1 \in InFlight
             /\ Pos(m) \in 0 .. Pk(m + 1).n - 1 /\ t.nbdp = At(m + 1, Pos(m))
             /\ Pk(m + 1).n \in 1 .. NDesc - 1
  <2>1. ~Ahead
    BY <1>7 DEF Gather, Fetch, Ahead
  <2>2. s = m /\ m < Queued /\ Pos(m) < Pk(m + 1).n
    BY <1>5, <1>7, <2>1 DEF Where
  <2>3. m + 1 \in InFlight
    BY <1>5, <2>2, Here
  <2>4. Pos(m) \in 0 .. Pk(m + 1).n - 1 /\ t.nbdp = At(m + 1, Pos(m))
    BY <1>5, <2>2, Here
  <2> QED BY <1>4, <2>2, <2>3, <2>4, RingFacts
<1>8. Filled => m < Queued
  <2>1. Filled => Ahead \/ Gather
    BY DEF Filled, Ahead, Gather
  <2> QED BY <1>3, <1>5, <1>7, <2>1
<1> QED BY <1>1, <1>2, <1>3, <1>5, <1>6, <1>7, <1>8

\* Slot and frame stay.
LEMMA EntrySame ==
  ASSUME NEW i, NEW p, slot'[i] = slot[i], cq'[i] = cq[i], sentq'[p] = sentq[p]
  PROVE  Entry(i, sentq[p])' <=> Entry(i, sentq[p])
<1>1. Entry(i, sentq[p]) <=> /\ cq[i].len = Len(sentq[p]) /\ (cq[i].trunc <=> Len(sentq[p]) > Cap)
                             /\ HasBytes(i, sentq[p], Min2(Len(sentq[p]), Cap))
  BY DEF Entry
<1>2. Entry(i, sentq[p])' <=> /\ cq'[i].len = Len(sentq'[p]) /\ (cq'[i].trunc <=> Len(sentq'[p]) > Cap)
                              /\ HasBytes(i, sentq[p], Min2(Len(sentq[p]), Cap))'
  BY DEF Entry, Cap
<1>3. HasBytes(i, sentq[p], Min2(Len(sentq[p]), Cap))' <=> HasBytes(i, sentq[p], Min2(Len(sentq[p]), Cap))
  BY DEF HasBytes, Min2, Cap
<1> QED BY <1>1, <1>2, <1>3

\* The driver and the ARM do not disturb the bytes on their way to the slot.
LEMMA BytesGuest ==
  ASSUME TxInv, RingShape, WireTyped, CountsOk, PlaceOk, [Next]_vars, GuestOnly \/ ArmConsume, PlaceOk', Sent' = Sent,
         NEW m, m = Staged, Bytes(m)
  PROVE  Bytes(m)'
<1>0. LineOk /\ LengthOk(m) /\ GatherOk(m) /\ FilledOk(m)
  BY DEF Bytes
<1>1. t' = t /\ acc' = acc /\ ld' = ld /\ slot' = slot /\ cq' = cq
  BY DEF GuestOnly, ArmConsume, staging
<1>2. /\ (Gather' <=> Gather) /\ (Fetch' <=> Fetch) /\ (Closed' <=> Closed) /\ (Filled' <=> Filled)
      /\ (Filling' <=> Filling) /\ CurSlot' = CurSlot /\ Whole' = Whole
  BY <1>1 DEF Gather, Fetch, Closed, Ahead, Filled, Filling, CurSlot, Whole
<1>3. /\ m \in Nat /\ Queued \in Nat /\ (Filled => m < Queued)
      /\ Gather \/ Fetch => /\ Place(m) /\ m < Queued /\ m + 1 \in InFlight
                            /\ Pos(m) \in 0 .. Pk(m + 1).n - 1 /\ t.nbdp = At(m + 1, Pos(m))
  BY Publishing
<1>4. /\ \A i \in 1 .. Queued : sentq'[i] = sentq[i]
      /\ Queued' \in Nat /\ Reaped' \in Nat
  BY SentKept
<1>5. Gather \/ Fetch => m + 1 \in InFlight'
  <2> HAVE Gather \/ Fetch
  <2>1. PICK s \in Nat : s = Sent' /\ Place(s)'
    BY DEF PlaceOk
  <2>2. ~Ahead
    BY DEF Gather, Fetch, Ahead
  <2>3. s = m
    BY <2>1, <2>2 DEF Sent
  <2>4. m \in Reaped' .. Queued' /\ m < Queued'
    BY <1>2, <2>1, <2>3 DEF Place, Where
  <2> QED BY <1>3, <1>4, <2>4 DEF InFlight
<1>6. Gather \/ Fetch => desc'[t.nbdp].buf = desc[t.nbdp].buf /\ Pos(m)' = Pos(m) /\ \A b : Starts(b, m + 1)' <=> Starts(b, m + 1)
  <2> HAVE Gather \/ Fetch
  <2>1. PICK p \in InFlight : p = m + 1
    BY <1>3
  <2>2. p \in InFlight'
    BY <1>5, <2>1
  <2>3. Hd(p)' = Hd(p) /\ \A b : Starts(b, p)' <=> Starts(b, p)
    BY <2>2, Kept
  <2>4. \A k \in 0 .. Pk(p).n - 1 : desc'[At(p, k)].buf = desc[At(p, k)].buf
    BY <2>2, Kept
  <2> QED BY <1>1, <1>3, <2>1, <2>3, <2>4 DEF Pos
<1>7. LineOk'
  <2>1. (t.state = "T_MEM" \/ t.state = "T_SLOT") => Gather \/ Fetch
    BY DEF Gather, Fetch
  <2> QED BY <1>0, <1>1, <1>2, <1>6, <2>1 DEF LineOk
<1>8. LengthOk(m)'
  BY <1>0, <1>1, <1>2, <1>6 DEF LengthOk, Filling
<1>9. (Filling \/ Filled) => sentq'[m + 1] = sentq[m + 1]
  BY <1>3, <1>4 DEF Filling
<1>11. GatherOk(m)'
  <2> SUFFICES ASSUME Filling, sentq'[m + 1] = sentq[m + 1] PROVE GatherOk(m)'
    BY <1>2, <1>9 DEF GatherOk
  <2>1. /\ Whole \in Nat /\ t.soff * Lanes = Min2(Whole, Cap) /\ (t.trunc <=> Whole > Cap)
        /\ \A j \in 1 .. Len(t.hold) : t.hold[j] = sentq[m + 1][t.len - Len(t.hold) + j]
        /\ t.state = "T_PUT" => Len(t.beat) = Lanes /\ \A j \in 1 .. Lanes : t.beat[j] = sentq[m + 1][Whole + j]
    BY <1>0 DEF GatherOk
  <2>2. /\ HasBytes(CurSlot, sentq[m + 1], t.soff * Lanes)'
        /\ t.state = "T_PUT" /\ acc => HasBytes(CurSlot, sentq[m + 1], t.soff * Lanes + Lanes)'
        /\ t.state = "T_FLUSH" /\ acc => HasBytes(CurSlot, sentq[m + 1], t.soff * Lanes + Len(t.hold))'
    BY <1>0, <1>1, <1>2 DEF GatherOk, HasBytes
  <2> QED BY <1>1, <1>2, <2>1, <2>2 DEF GatherOk, Min2, Cap
<1>12. FilledOk(m)'
  <2> SUFFICES ASSUME Filled, sentq'[m + 1] = sentq[m + 1] PROVE FilledOk(m)'
    BY <1>2, <1>9 DEF FilledOk
  <2>1. HasBytes(CurSlot, sentq[m + 1], Min2(Len(sentq[m + 1]), Cap))'
    BY <1>0, <1>1, <1>2 DEF FilledOk, HasBytes, Min2, Cap
  <2>2. (t.state = "T_CQ" /\ acc) \/ t.state = "T_IDX" => Entry(CurSlot, sentq[m + 1])'
    <3>1. PICK i : i = CurSlot
      OBVIOUS
    <3>2. PICK p : p = m + 1
      OBVIOUS
    <3>3. Entry(i, sentq[p])' <=> Entry(i, sentq[p])
      BY <1>1, <3>2, EntrySame
    <3> QED BY <1>0, <1>2, <2>1, <3>1, <3>2, <3>3 DEF FilledOk, Entry
  <2> QED BY <1>0, <1>1, <1>2, <2>1, <2>2 DEF FilledOk, Cap
<1> QED BY <1>7, <1>8, <1>11, <1>12 DEF Bytes

\* A beat stored at the end of the bytes a slot has.
LEMMA StoreBytes ==
  ASSUME TxInv, NEW b \in Seq(Byte), StoreBeat(b), NEW f, NEW x \in Nat, x = t.soff * Lanes,
         HasBytes(CurSlot, f, x), \A j \in 1 .. Len(b) : b[j] = f[x + j]
  PROVE  /\ \A i \in Slots : i # CurSlot => slot'[i] = slot[i]
         /\ Len(slot'[CurSlot]) = x + Len(b)
         /\ \A j \in 1 .. x + Len(b) : slot'[CurSlot][j] = f[j]
<1>1. DOMAIN slot = Slots /\ CurSlot \in Slots /\ slot[CurSlot] \in Seq(Byte)
  <2>1. t.prod \in Int
    BY Consts DEF TxInv, IsChan, Counts
  <2>2. CurSlot \in Slots
    BY <2>1, CountIndex DEF CurSlot
  <2> QED BY <2>2 DEF TxInv, StagingOk
<1> DEFINE c == CurSlot
           v == slot[c]
           w == SubSeq(v, 1, x)
<1>2. Len(v) >= x /\ (\A j \in 1 .. x : v[j] = f[j]) /\ Len(v) \in Nat /\ v \in Seq(Byte)
  BY <1>1, LenProperties DEF HasBytes
<1>3. slot' = [slot EXCEPT ![c] = SubSeq(v, 1, Min2(Len(v), x)) \o b]
  BY <1>1 DEF StoreBeat, CurSlot
<1> HIDE DEF c
<1>4. Min2(Len(v), x) = x
  BY <1>2 DEF Min2
<1>5. slot' = [slot EXCEPT ![c] = w \o b] /\ c \in Slots
  BY <1>1, <1>3, <1>4 DEF c
<1> HIDE DEF v
<1>6. w \in Seq(Byte) /\ Len(w) = x /\ \A j \in 1 .. x : w[j] = v[j]
  <2>1. 1 \in Int /\ x \in Int /\ x <= Len(v)
    BY <1>2
  <2>2. w \in Seq(Byte)
    BY <1>2, <2>1, SubSeqProperties
  <2>3. Len(w) = x /\ \A j \in 1 .. x : w[j] = v[j]
    BY <1>2, <2>1, SubSeqProperties
  <2> QED BY <2>2, <2>3
<1> HIDE DEF w
<1> DEFINE u == w \o b
<1>7. Len(u) = x + Len(b) /\ \A j \in 1 .. x + Len(b) : u[j] = IF j <= x THEN w[j] ELSE b[j - x]
  <2>1. Len(u) = Len(w) + Len(b)
    BY <1>6, ConcatProperties
  <2>2. \A j \in 1 .. Len(w) + Len(b) : u[j] = IF j <= Len(w) THEN w[j] ELSE b[j - Len(w)]
    BY <1>6, ConcatProperties
  <2> HIDE DEF u
  <2> QED BY <1>6, <2>1, <2>2
<1>8. slot'[c] = u /\ \A i \in Slots : i # c => slot'[i] = slot[i]
  BY <1>1, <1>5
<1> HIDE DEF u
<1>9. ASSUME NEW j \in 1 .. x + Len(b) PROVE u[j] = f[j]
  <2>1. Len(b) \in Nat
    BY LenProperties
  <2>2. CASE j <= x
    <3>1. j \in 1 .. x
      BY <2>2
    <3> QED BY <1>2, <1>6, <1>7, <2>2, <3>1
  <2>3. CASE j > x
    <3>1. j - x \in 1 .. Len(b) /\ x + (j - x) = j /\ ~(j <= x)
      BY <2>1, <2>3, SMTT(40)
    <3> QED BY <1>7, <3>1
  <2> QED BY <2>1, <2>2, <2>3
<1> QED BY <1>7, <1>8, <1>9 DEF c

\* Beats in a slot: the offset, and the bytes it counts.
LEMMA Beats ==
  ASSUME TxInv
  PROVE  /\ t.soff * Lanes \in Nat /\ Cap \in Nat /\ t.soff * Lanes <= Cap
         /\ t.soff = SlotBeats <=> t.soff * Lanes = Cap
         /\ t.soff # SlotBeats => t.soff * Lanes + Lanes <= Cap /\ (t.soff + 1) * Lanes = t.soff * Lanes + Lanes
<1>1. t.soff \in 0 .. SlotBeats /\ Lanes \in Nat /\ Lanes > 0 /\ SlotBeats \in Nat
  BY Consts DEF TxInv, IsChan
<1> DEFINE a == t.soff
           d == SlotBeats - a
<1>2. a \in Nat /\ d \in Nat /\ a + d = SlotBeats
  BY <1>1
<1> HIDE DEF a, d
<1>3. Cap = a * Lanes + d * Lanes /\ a * Lanes \in Nat /\ d * Lanes \in Nat
  BY <1>1, <1>2 DEF Cap
<1>4. (d = 0 => d * Lanes = 0) /\ (d > 0 => d * Lanes >= Lanes)
  BY <1>1, <1>2
<1>5. (a + 1) * Lanes = a * Lanes + Lanes
  BY <1>1, <1>2
<1> DEFINE y == a * Lanes
           z == d * Lanes
<1>6. Cap = y + z /\ y \in Nat /\ z \in Nat /\ (d = 0 => z = 0) /\ (d > 0 => z >= Lanes)
  BY <1>3, <1>4
<1> HIDE DEF y, z
<1>7. /\ Cap \in Nat /\ y <= Cap /\ (a = SlotBeats <=> y = Cap) /\ (a # SlotBeats => y + Lanes <= Cap)
  BY <1>1, <1>2, <1>6
<1> QED BY <1>5, <1>6, <1>7 DEF y, a

\* The line DRAM returns is what the buffer has at the place.
LEMMA LineIsBuffer ==
  ASSUME TxInv, t.bp + t.cnt = Len(desc[t.nbdp].buf)
  PROVE  \A j \in 1 .. Len(LineBytes) : LineBytes[j] = desc[t.nbdp].buf[t.bp + j]
<1>1. t.bp \in Nat /\ t.cnt \in Nat /\ RingOk /\ IsChan(t)
  BY DEF TxInv, IsChan
<1>2. LineBytes \in Seq(Byte) /\ Len(LineBytes) <= t.cnt
  BY <1>1, LineBytesFacts
<1> DEFINE take == LineTake(desc[t.nbdp].off + t.bp, t.cnt)
<1>3. LineBytes = [i \in 1 .. take |-> ByteAt(t.nbdp, t.bp + i - 1)]
  BY DEF LineBytes
<1> HIDE DEF take
<1>4. \A j \in 1 .. Len(LineBytes) : j \in 1 .. take
  BY <1>2, <1>3, LenProperties
<1> TAKE j \in 1 .. Len(LineBytes)
<1>5. LineBytes[j] = ByteAt(t.nbdp, t.bp + j - 1)
  BY <1>3, <1>4
<1>6. t.bp + j - 1 < Len(desc[t.nbdp].buf) /\ t.bp + j - 1 + 1 = t.bp + j
  <2>1. Len(LineBytes) \in Nat
    BY <1>2, LenProperties
  <2> QED BY <1>1, <1>2, <2>1
<1> QED BY <1>5, <1>6 DEF ByteAt

\* The access of the channel at DRAM moves the bytes on.
LEMMA BytesMem ==
  ASSUME TxInv, RingShape, WireTyped, CountsOk, PlaceOk, Mem, NEW m, m = Staged, Bytes(m)
  PROVE  IF t.state = "T_IDX" THEN Bytes(m + 1)' ELSE Bytes(m)'
<1>0. LineOk /\ LengthOk(m) /\ GatherOk(m) /\ FilledOk(m)
  BY DEF Bytes
<1>1. t' = t /\ ~acc /\ acc' = TRUE /\ sentq' = sentq /\ g' = g /\ TxReq
  BY DEF Mem
<1>2. /\ (Gather' => Gather) /\ (Fetch' <=> Fetch) /\ (Filled' => Filled) /\ (Closed' => Closed \/ Filled)
      /\ (Filling' <=> Filling) /\ CurSlot' = CurSlot /\ Whole' = Whole
  <2>1. (Gather' => Gather) /\ (Fetch' <=> Fetch)
    BY <1>1 DEF Gather, Fetch
  <2>2. (Filled' => Filled) /\ (Closed' => Closed \/ Filled)
    BY <1>1 DEF Filled, Closed, Ahead
  <2>3. Filling' <=> Filling
    BY <1>1 DEF Filling, Gather
  <2>4. CurSlot' = CurSlot /\ Whole' = Whole
    BY <1>1 DEF CurSlot, Whole
  <2> QED BY <2>1, <2>2, <2>3, <2>4
<1>3. /\ m \in Nat /\ Queued \in Nat /\ (Filled => m < Queued)
      /\ Gather \/ Fetch => /\ m + 1 \in InFlight /\ Pos(m) \in 0 .. Pk(m + 1).n - 1 /\ Pk(m + 1).n \in 1 .. NDesc - 1
  BY Publishing
<1>4. /\ t.nbdp \in Desc /\ t.hold \in Seq(Byte) /\ t.beat \in Seq(Byte) /\ CurSlot \in Slots
      /\ DOMAIN ld = {"desc", "bytes"} /\ DOMAIN cq = Slots /\ Len(t.hold) < Lanes
      /\ t.len \in Nat
  <2>1. t.prod \in Int
    BY Consts DEF TxInv, IsChan, Counts
  <2>2. CurSlot \in Slots
    BY <2>1, CountIndex DEF CurSlot
  <2> QED BY <2>2 DEF TxInv, IsChan, LoadOk, WireTyped
<1>5. \A d \in Desc : desc'[d].buf = desc[d].buf
  BY MemDesc
<1>6. LineOk'
  <2>1. (Fetch \/ Filled \/ Closed)' => t'.hold = <<>>
    BY <1>0, <1>1, <1>2 DEF LineOk
  <2>2. (Gather \/ Fetch)' /\ t'.state # "T_DESC" => t'.bp + t'.cnt = Len(desc'[t'.nbdp].buf)
    BY <1>0, <1>1, <1>2, <1>4, <1>5 DEF LineOk
  <2>3. t'.state = "T_SLOT" => t'.bp = 0
    BY <1>0, <1>1 DEF LineOk
  <2>4. t'.state \in {"T_BCWB", "T_FLUSH", "T_NEXT"} /\ Gather' => t'.cnt = 0
    BY <1>0, <1>1, <1>2 DEF LineOk
  <2>5. ASSUME t.state = "T_MEM" PROVE \A j \in 1 .. Len(ld'.bytes) : ld'.bytes[j] = desc'[t.nbdp].buf[t.bp + j]
    <3>1. ld' = [ld EXCEPT !.bytes = LineBytes] /\ desc' = desc
      BY <2>5 DEF Mem
    <3>2. ld'.bytes = LineBytes
      BY <1>4, <3>1
    <3>3. t.bp + t.cnt = Len(desc[t.nbdp].buf)
      BY <1>0, <2>5 DEF LineOk, Gather
    <3>4. \A j \in 1 .. Len(LineBytes) : LineBytes[j] = desc[t.nbdp].buf[t.bp + j]
      BY <3>3, LineIsBuffer
    <3> QED BY <3>1, <3>2, <3>4
  <2> QED BY <1>1, <2>1, <2>2, <2>3, <2>4, <2>5 DEF LineOk
<1>7. CASE t.state = "T_IDX"
  <2>1. ~Filling' /\ ~Filled'
    BY <1>1, <1>7 DEF Filling, Filled, Gather
  <2> QED BY <1>6, <1>7, <2>1 DEF Bytes, LengthOk, GatherOk, FilledOk
<1>8. CASE t.state # "T_IDX"
  <2>1. LengthOk(m)'
    <3> SUFFICES ASSUME Filling PROVE LengthOk(m)'
      BY <1>2 DEF LengthOk
    <3>1. PICK p \in InFlight : p = m + 1
      BY <1>3 DEF Filling
    <3>2. PICK n \in Nat : n = Pk(p).n
      BY <1>3, <3>1 DEF Filling
    <3>3. Pk(p)' = Pk(p) /\ Hd(p)' = Hd(p) /\ \A k : At(p, k)' = At(p, k)
      BY <1>1, RingSame
    <3>4. \A k \in 0 .. Pk(p).n : At(p, k) \in Desc
      BY AtFacts
    <3>5. \A k \in 0 .. n - 1 : desc'[At(p, k)'].buf = desc[At(p, k)].buf
      BY <1>5, <3>2, <3>3, <3>4
    <3>6. \A b : Starts(b, p)' <=> Starts(b, p)
      BY <1>1, <3>2, <3>3, <3>5, StartsSame
    <3>7. Pos(m)' = Pos(m)
      BY <1>1, <3>1, <3>3 DEF Pos
    <3> QED BY <1>0, <1>1, <3>1, <3>6, <3>7 DEF LengthOk
  <2>2. GatherOk(m)'
    <3> SUFFICES ASSUME Filling PROVE GatherOk(m)'
      BY <1>2 DEF GatherOk
    <3>1. /\ Whole \in Nat /\ t.soff * Lanes = Min2(Whole, Cap) /\ (t.trunc <=> Whole > Cap)
          /\ \A j \in 1 .. Len(t.hold) : t.hold[j] = sentq[m + 1][t.len - Len(t.hold) + j]
          /\ t.state = "T_PUT" => Len(t.beat) = Lanes /\ \A j \in 1 .. Lanes : t.beat[j] = sentq[m + 1][Whole + j]
      BY <1>0 DEF GatherOk
    <3>2. HasBytes(CurSlot, sentq[m + 1], t.soff * Lanes)
      BY <1>0 DEF GatherOk
    <3> DEFINE f == sentq[m + 1]
    <3>3. PICK c : c = CurSlot
      OBVIOUS
    <3>4. PICK x : x = t.soff * Lanes
      OBVIOUS
    <3>5. x \in Nat /\ Cap \in Nat /\ Lanes \in Nat
      BY <3>4, Beats, Consts
    <3>6. x # Cap => x = Whole
      BY <3>1, <3>4 DEF Min2
    <3>7. t.soff # SlotBeats => x = Whole
      BY <3>4, <3>6, Beats
    <3>8. /\ HasBytes(c, f, x)'
          /\ t.state = "T_PUT" => HasBytes(c, f, x + Lanes)'
          /\ t.state = "T_FLUSH" => HasBytes(c, f, x + Len(t.hold))'
      <4>1. CASE t.state = "T_PUT"
        <5>1. t.soff # SlotBeats /\ StoreBeat(t.beat)
          BY <1>1, <4>1 DEF Mem, TxReq
        <5>2. Len(t.beat) = Lanes /\ \A j \in 1 .. Len(t.beat) : t.beat[j] = f[x + j]
          BY <3>1, <3>7, <4>1, <5>1
        <5>3. HasBytes(CurSlot, f, x)
          BY <3>2, <3>4
        <5> HIDE DEF f
        <5>4. Len(slot'[c]) = x + Len(t.beat) /\ \A j \in 1 .. x + Len(t.beat) : slot'[c][j] = f[j]
          <6>1. t.beat \in Seq(Byte) /\ StoreBeat(t.beat) /\ x \in Nat /\ x = t.soff * Lanes /\ HasBytes(CurSlot, f, x)
            BY <1>4, <3>4, <3>5, <5>1, <5>2, <5>3
          <6>2. Len(slot'[CurSlot]) = x + Len(t.beat)
            BY <5>2, <6>1, StoreBytes
          <6>3. \A j \in 1 .. x + Len(t.beat) : slot'[CurSlot][j] = f[j]
            BY <5>2, <6>1, StoreBytes, SMTT(40)
          <6> QED BY <3>3, <6>2, <6>3
        <5>5. f' = f
          BY <1>1 DEF f
        <5> QED BY <3>5, <4>1, <5>2, <5>4, <5>5 DEF HasBytes
      <4>2. CASE t.state = "T_FLUSH"
        <5>1. t.soff # SlotBeats /\ StoreBeat(t.hold)
          BY <1>1, <4>2 DEF Mem, TxReq
        <5>2. Whole = t.len - Len(t.hold)
          BY <1>4, <4>2, LenProperties DEF Whole
        <5>3. \A j \in 1 .. Len(t.hold) : t.hold[j] = f[x + j]
          BY <3>1, <3>7, <5>1, <5>2
        <5>4. HasBytes(CurSlot, f, x) /\ Len(t.hold) \in Nat
          BY <1>4, <3>2, <3>4, LenProperties
        <5> HIDE DEF f
        <5>5. Len(slot'[c]) = x + Len(t.hold) /\ \A j \in 1 .. x + Len(t.hold) : slot'[c][j] = f[j]
          <6>1. t.hold \in Seq(Byte) /\ StoreBeat(t.hold) /\ x \in Nat /\ x = t.soff * Lanes /\ HasBytes(CurSlot, f, x)
            BY <1>4, <3>4, <3>5, <5>1, <5>3, <5>4
          <6>2. Len(slot'[CurSlot]) = x + Len(t.hold)
            BY <5>3, <6>1, StoreBytes, SMTT(40)
          <6>3. \A j \in 1 .. x + Len(t.hold) : slot'[CurSlot][j] = f[j]
            BY <5>3, <6>1, StoreBytes, SMTT(40)
          <6> QED BY <3>3, <6>2, <6>3
        <5>6. f' = f
          BY <1>1 DEF f
        <5>7. HasBytes(c, f, x)'
          BY <3>5, <5>4, <5>5, <5>6 DEF HasBytes
        <5>8. HasBytes(c, f, x + Len(t.hold))'
          BY <1>1, <3>5, <5>4, <5>5, <5>6 DEF HasBytes
        <5> QED BY <1>1, <4>2, <5>7, <5>8
      <4>3. CASE t.state \notin {"T_PUT", "T_FLUSH"}
        <5>1. slot' = slot
          BY <4>3 DEF Mem, staging
        <5> QED BY <1>1, <3>2, <3>3, <3>4, <4>3, <5>1 DEF HasBytes
      <4> QED BY <4>1, <4>2, <4>3
    <3>9. /\ HasBytes(CurSlot, f, t.soff * Lanes)'
          /\ t.state = "T_PUT" => HasBytes(CurSlot, f, t.soff * Lanes + Lanes)'
          /\ t.state = "T_FLUSH" => HasBytes(CurSlot, f, t.soff * Lanes + Len(t.hold))'
      BY <1>1, <1>2, <3>3, <3>4, <3>8 DEF HasBytes
    <3> HIDE DEF f
    <3> QED BY <1>1, <1>2, <3>1, <3>9 DEF GatherOk, Min2, Cap, f
  <2>3. FilledOk(m)'
    <3> SUFFICES ASSUME Filled, t.state \in {"T_HEAD", "T_CQ"} PROVE FilledOk(m)'
      BY <1>1, <1>2, <1>8 DEF FilledOk, Filled
    <3>1. /\ t.len = Len(sentq[m + 1]) /\ (t.trunc <=> Len(sentq[m + 1]) > Cap)
          /\ HasBytes(CurSlot, sentq[m + 1], Min2(Len(sentq[m + 1]), Cap))
      BY <1>0 DEF FilledOk
    <3>2. slot' = slot
      BY DEF Mem, staging
    <3>3. HasBytes(CurSlot, sentq[m + 1], Min2(Len(sentq[m + 1]), Cap))'
      BY <1>1, <1>2, <3>1, <3>2 DEF HasBytes, Min2, Cap
    <3>4. ASSUME t.state = "T_CQ" PROVE Entry(CurSlot, sentq[m + 1])'
      <4>1. cq' = [cq EXCEPT ![CurSlot] = [len |-> t.len, trunc |-> t.trunc]]
        BY <3>4 DEF Mem, CurSlot
      <4>2. cq'[CurSlot] = [len |-> t.len, trunc |-> t.trunc]
        BY <1>4, <4>1
      <4>3. cq'[CurSlot].len = t.len /\ cq'[CurSlot].trunc = t.trunc
        BY <4>2
      <4> QED BY <1>1, <1>2, <3>1, <3>3, <4>3 DEF Entry, Cap
    <3> QED BY <1>1, <1>8, <3>1, <3>3, <3>4 DEF FilledOk, Cap
  <2> QED BY <1>6, <1>8, <2>1, <2>2, <2>3 DEF Bytes
<1> QED BY <1>7, <1>8

-----------------------------------------------------------------------------
(* The moves of the channel and the bytes *)

\* A clock leaves memory, staging and the ring alone.
LEMMA TickSame ==
  ASSUME Ticked
  PROVE  /\ slot' = slot /\ cq' = cq /\ sentq' = sentq /\ desc' = desc /\ ld' = ld
         /\ \A p : Hd(p)' = Hd(p)
         /\ \A b, p : Starts(b, p)' <=> Starts(b, p)
         /\ \A i, f, x : HasBytes(i, f, x)' <=> HasBytes(i, f, x)
<1>1. /\ slot' = slot /\ cq' = cq /\ sentq' = sentq /\ desc' = desc /\ ld' = ld
      /\ g'.tail = g.tail /\ g'.old = g.old /\ g'.inflight = g.inflight
  BY DEF Ticked
<1>2. \A p : Pk(p)' = Pk(p) /\ Hd(p)' = Hd(p) /\ \A k : At(p, k)' = At(p, k)
  BY <1>1, RingSame
<1>3. ASSUME NEW b, NEW p PROVE Starts(b, p)' <=> Starts(b, p)
  BY <1>1, <1>2 DEF Starts
<1>4. \A i, f, x : HasBytes(i, f, x)' <=> HasBytes(i, f, x)
  BY <1>1 DEF HasBytes
<1> QED BY <1>1, <1>2, <1>3, <1>4

\* Nothing of the bytes gathered changes.
LEMMA GatherSame ==
  ASSUME Ticked, NEW m, GatherOk(m), Filling, t'.soff = t.soff, t'.trunc = t.trunc, t'.hold = t.hold, t'.len = t.len,
         t'.prod = t.prod, t.state # "T_PUT", t'.state # "T_PUT", acc' = FALSE
  PROVE  GatherOk(m)'
<1>1. sentq' = sentq /\ \A i, f, x : HasBytes(i, f, x)' <=> HasBytes(i, f, x)
  BY TickSame
<1>2. Whole' = Whole /\ CurSlot' = CurSlot
  BY DEF Whole, CurSlot
<1>3. /\ Whole \in Nat /\ t.soff * Lanes = Min2(Whole, Cap) /\ (t.trunc <=> Whole > Cap)
      /\ \A j \in 1 .. Len(t.hold) : t.hold[j] = sentq[m + 1][t.len - Len(t.hold) + j]
  BY DEF GatherOk
<1>4. HasBytes(CurSlot, sentq[m + 1], t.soff * Lanes)'
  <2>1. HasBytes(CurSlot, sentq[m + 1], t.soff * Lanes)
    BY DEF GatherOk
  <2> QED BY <1>1, <1>2, <2>1, TickSame DEF HasBytes
<1> QED BY <1>1, <1>2, <1>3, <1>4 DEF GatherOk, Cap, Min2

\* Moves that do not gather.
LEMMA BytesOff ==
  ASSUME TxInv, RingShape, WireTyped, CountsOk, PlaceOk, Ticked, NEW m, m = Staged, Bytes(m),
         MvIdle \/ (MvDesc /\ ~t.open) \/ MvIdx \/ MvEnd \/ (MvOn /\ ~t.open)
  PROVE  Bytes(m)'
<1>0. LineOk
  BY DEF Bytes
<1>1. desc' = desc
  BY TickSame
<1>2. CASE MvIdle
  <2>1. t'.state = "T_DESC" /\ ~t'.open /\ t'.hold = <<>>
    BY <1>2 DEF MvIdle
  <2>2. ~Gather' /\ ~Filling' /\ ~Filled'
    BY <2>1 DEF Filling, Filled, Gather
  <2>3. LineOk'
    BY <2>1, <2>2 DEF LineOk
  <2> QED BY <2>2, <2>3 DEF Bytes, LengthOk, GatherOk, FilledOk
<1>3. CASE MvDesc /\ ~t.open
  <2>1. /\ t.state = "T_DESC" /\ acc /\ t'.state = "T_SLOT" /\ t'.hold = t.hold /\ t'.bp = 0 /\ t'.cnt = Len(ld.desc.buf)
        /\ t'.nbdp = t.nbdp
    BY <1>3 DEF MvDesc
  <2>2. ~Gather' /\ ~Filling' /\ ~Filled' /\ Fetch
    BY <1>3, <2>1 DEF Filling, Filled, Gather, Fetch
  <2>3. Place(m)
    BY <2>2, Publishing
  <2>4. ld.desc.buf = desc[t.nbdp].buf
    BY <2>1, <2>3 DEF Place, Loaded
  <2>5. Len(ld.desc.buf) \in Nat
    BY LenProperties DEF TxInv, LoadOk, IsDesc
  <2>6. t'.bp + t'.cnt = Len(desc'[t'.nbdp].buf)
    BY <1>1, <2>1, <2>4, <2>5
  <2>7. LineOk'
    BY <1>0, <2>1, <2>2, <2>6 DEF LineOk
  <2> QED BY <2>2, <2>7 DEF Bytes, LengthOk, GatherOk, FilledOk
<1>4. CASE MvIdx
  <2>1. t.state = "T_IDX" /\ t'.state = "T_NEXT" /\ ~t'.open /\ t'.hold = t.hold
    BY <1>4 DEF MvIdx
  <2>2. ~Gather' /\ ~Filling' /\ ~Filled' /\ ~Fetch' /\ Closed
    BY <2>1 DEF Filling, Filled, Gather, Fetch, Closed
  <2>3. LineOk'
    BY <1>0, <2>1, <2>2 DEF LineOk
  <2> QED BY <2>2, <2>3 DEF Bytes, LengthOk, GatherOk, FilledOk
<1>5. CASE MvEnd
  <2>1. t'.state = "T_IDLE"
    BY <1>5 DEF MvEnd
  <2>2. ~Gather' /\ ~Filling' /\ ~Filled' /\ ~Fetch' /\ ~Closed'
    BY <2>1 DEF Filling, Filled, Gather, Fetch, Closed, Ahead
  <2>3. LineOk'
    BY <2>1, <2>2 DEF LineOk
  <2> QED BY <2>2, <2>3 DEF Bytes, LengthOk, GatherOk, FilledOk
<1>6. CASE MvOn /\ ~t.open
  <2>1. t.state = "T_NEXT" /\ t'.state = "T_DESC" /\ t'.open = t.open /\ t'.hold = t.hold
    BY <1>6 DEF MvOn
  <2>2. ~Gather' /\ ~Filling' /\ ~Filled' /\ Closed
    BY <1>6, <2>1 DEF Filling, Filled, Gather, Closed
  <2>3. LineOk'
    BY <1>0, <2>1, <2>2 DEF LineOk
  <2> QED BY <2>2, <2>3 DEF Bytes, LengthOk, GatherOk, FilledOk
<1> QED BY <1>2, <1>3, <1>4, <1>5, <1>6

\* The next descriptor of an open packet is loaded.
LEMMA BytesDesc ==
  ASSUME TxInv, RingShape, WireTyped, CountsOk, PlaceOk, Ticked, NEW m, m = Staged, Bytes(m), MvDesc, t.open
  PROVE  Bytes(m)'
<1>0. LengthOk(m) /\ GatherOk(m)
  BY DEF Bytes
<1>1. /\ t.state = "T_DESC" /\ acc /\ acc' = FALSE /\ t'.state = AfterBeat(Len(ld.desc.buf)) /\ t'.bp = 0
      /\ t'.cnt = Len(ld.desc.buf) /\ t'.nbdp = t.nbdp
      /\ t'.soff = t.soff /\ t'.trunc = t.trunc /\ t'.hold = t.hold /\ t'.len = t.len /\ t'.prod = t.prod
  BY DEF MvDesc
<1>2. t'.state \in {"T_BCWB", "T_MEM"} /\ (t'.state = "T_BCWB" => t'.cnt = 0)
  BY <1>1 DEF AfterBeat
<1>3. Filling /\ Gather /\ Filling' /\ ~Fetch' /\ ~Filled' /\ ~Closed'
  BY <1>1, <1>2 DEF Filling, Gather, Fetch, Filled, Closed, Ahead
<1>4. Place(m) /\ m + 1 \in InFlight /\ Pos(m) \in 0 .. Pk(m + 1).n - 1 /\ Pk(m + 1).n \in 1 .. NDesc - 1
  BY <1>3, Publishing
<1>5. ld.desc.buf = desc[t.nbdp].buf /\ Len(ld.desc.buf) \in Nat
  BY <1>1, <1>4, LenProperties DEF Place, Loaded, TxInv, LoadOk, IsDesc
<1>6. t'.bp + t'.cnt = Len(desc'[t'.nbdp].buf)
  BY <1>1, <1>5, TickSame
<1>7. LineOk'
  BY <1>1, <1>2, <1>3, <1>6 DEF LineOk
<1>8. LengthOk(m)'
  <2>1. Pos(m)' = Pos(m)
    BY <1>1, TickSame DEF Pos
  <2>2. ASSUME NEW b, Starts(b, m + 1) PROVE t'.len = b[Pos(m)] + t'.bp
    <3>1. b[Pos(m)] \in Nat
      BY <1>4, <2>2 DEF Starts
    <3>2. t.len = b[Pos(m)]
      BY <1>0, <1>1, <1>3, <2>2 DEF LengthOk
    <3> QED BY <1>1, <3>1, <3>2
  <2>3. \A b : Starts(b, m + 1)' => Starts(b, m + 1)
    BY TickSame
  <2> QED BY <1>2, <2>1, <2>2, <2>3 DEF LengthOk
<1>9. GatherOk(m)'
  BY <1>0, <1>1, <1>2, <1>3, GatherSame
<1> QED BY <1>3, <1>7, <1>8, <1>9 DEF Bytes, FilledOk

\* A slot is free: the packet starts empty.
LEMMA BytesSlot ==
  ASSUME TxInv, RingShape, WireTyped, CountsOk, PlaceOk, Ticked, NEW m, m = Staged, Bytes(m), MvSlot
  PROVE  Bytes(m)'
<1>0. LineOk
  BY DEF Bytes
<1>1. /\ t.state = "T_SLOT" /\ acc' = FALSE /\ t'.state = AfterBeat(t.cnt) /\ t'.bp = t.bp
      /\ t'.cnt = t.cnt /\ t'.nbdp = t.nbdp /\ t'.soff = 0 /\ ~t'.trunc /\ t'.hold = t.hold /\ t'.len = 0 /\ t'.prod = t.prod
  BY DEF MvSlot
<1>2. t'.state \in {"T_BCWB", "T_MEM"} /\ (t'.state = "T_BCWB" => t'.cnt = 0)
  BY <1>1 DEF AfterBeat
<1>3. Fetch /\ Filling' /\ ~Fetch' /\ ~Filled' /\ ~Closed'
  BY <1>1, <1>2 DEF Filling, Gather, Fetch, Filled, Closed, Ahead
<1>4. Place(m) /\ m + 1 \in InFlight /\ m < Queued
  BY <1>3, Publishing
<1>5. t.hold = <<>> /\ t.bp = 0 /\ t.bp + t.cnt = Len(desc[t.nbdp].buf)
  BY <1>0, <1>1, <1>3 DEF LineOk
<1>6. LineOk'
  BY <1>1, <1>2, <1>3, <1>5, TickSame DEF LineOk
<1>7. LengthOk(m)'
  <2>1. Pos(m) = 0
    BY <1>3, <1>4, Here DEF Place, Where
  <2>2. Pos(m)' = Pos(m)
    BY <1>1, TickSame DEF Pos
  <2>3. \A b : Starts(b, m + 1)' => b[0] = 0
    BY TickSame DEF Starts
  <2> QED BY <1>1, <1>2, <1>5, <2>1, <2>2, <2>3 DEF LengthOk
<1>8. GatherOk(m)'
  <2>1. Len(t'.hold) = 0
    BY <1>1, <1>5
  <2>2. Whole' = 0
    BY <1>1, <1>2, <2>1 DEF Whole
  <2>3. t'.soff * Lanes = 0 /\ Cap \in Nat /\ Cap >= 0
    BY <1>1, Consts, Beats
  <2>4. Whole' \in Nat /\ t'.soff * Lanes = Min2(Whole', Cap) /\ (t'.trunc <=> Whole' > Cap)
    BY <1>1, <2>2, <2>3 DEF Min2
  <2>5. HasBytes(CurSlot, sentq[m + 1], t.soff * Lanes)'
    <3>1. CurSlot' \in Slots
      <4>1. t.prod \in Int
        BY Consts DEF TxInv, IsChan, Counts
      <4>2. CurSlot \in Slots
        BY <4>1, CountIndex DEF CurSlot
      <4> QED BY <1>1, <4>2 DEF CurSlot
    <3>2. Len(slot'[CurSlot']) \in Nat
      BY <3>1, TickSame, LenProperties DEF TxInv, StagingOk
    <3> QED BY <2>3, <3>2 DEF HasBytes
  <2> QED BY <1>1, <1>2, <2>1, <2>4, <2>5 DEF GatherOk, Cap
<1> QED BY <1>3, <1>6, <1>7, <1>8 DEF Bytes, FilledOk

\* The bytes of a line join the gather register.
LEMMA BytesLine ==
  ASSUME TxInv, RingShape, FramesOk, WireTyped, CountsOk, PlaceOk, Ticked, NEW m, m = Staged, Bytes(m), MvMem
  PROVE  Bytes(m)'
<1>0. LineOk /\ LengthOk(m) /\ GatherOk(m)
  BY DEF Bytes
<1> DEFINE h == t.hold
           l == ld.bytes
           all == h \o l
           f == sentq[m + 1]
           buf == desc[t.nbdp].buf
<1>1. /\ t.state = "T_MEM" /\ acc /\ acc' = FALSE
      /\ t'.state = (IF Len(all) >= Lanes THEN "T_PUT" ELSE AfterBeat(t.cnt - Len(l)))
      /\ t'.bp = t.bp + Len(l) /\ t'.cnt = t.cnt - Len(l) /\ t'.len = t.len + Len(l) /\ t'.nbdp = t.nbdp
      /\ t'.soff = t.soff /\ t'.trunc = t.trunc /\ t'.prod = t.prod
  BY DEF MvMem
<1>2. /\ t'.hold = IF Len(all) >= Lanes THEN SubSeq(all, Lanes + 1, Len(all)) ELSE all
      /\ t'.beat = IF Len(all) >= Lanes THEN SubSeq(all, 1, Lanes) ELSE t.beat
  BY DEF MvMem
<1>3. /\ t'.state \in {"T_PUT", "T_BCWB", "T_MEM"} /\ (t'.state = "T_PUT" <=> Len(all) >= Lanes)
      /\ t'.state = "T_BCWB" => t'.cnt = 0
  BY <1>1 DEF AfterBeat
<1>4. Filling /\ Gather /\ Filling' /\ ~Fetch' /\ ~Filled' /\ ~Closed'
  BY <1>1, <1>3 DEF Filling, Gather, Fetch, Filled, Closed, Ahead
<1>5. m + 1 \in InFlight /\ Pos(m) \in 0 .. Pk(m + 1).n - 1 /\ t.nbdp = At(m + 1, Pos(m))
  BY <1>4, Publishing
<1>6. /\ h \in Seq(Byte) /\ l \in Seq(Byte) /\ Len(h) \in Nat /\ Len(l) \in Nat /\ Len(h) < Lanes
      /\ Len(l) <= t.cnt /\ Len(l) <= Lanes /\ t.bp \in Nat /\ t.cnt \in Nat /\ t.len \in Nat
  BY <1>1, LenProperties DEF TxInv, IsChan, LoadOk
<1>7. t.bp + t.cnt = Len(buf) /\ \A j \in 1 .. Len(l) : l[j] = buf[t.bp + j]
  BY <1>0, <1>1, <1>4 DEF LineOk
<1>8. LineOk'
  <2>1. t'.bp + t'.cnt = Len(desc'[t'.nbdp].buf)
    BY <1>1, <1>6, <1>7, TickSame
  <2> QED BY <1>1, <1>3, <1>4, <2>1 DEF LineOk
<1>9. LengthOk(m)'
  <2>1. Pos(m)' = Pos(m)
    BY <1>1, TickSame DEF Pos
  <2>2. ASSUME NEW b, Starts(b, m + 1) PROVE t'.len = b[Pos(m)] + t'.bp
    <3>1. b[Pos(m)] \in Nat
      BY <1>5, <2>2 DEF Starts
    <3>2. t.len = b[Pos(m)] + t.bp
      BY <1>0, <1>1, <1>4, <2>2 DEF LengthOk
    <3> QED BY <1>1, <1>6, <3>1, <3>2
  <2>3. \A b : Starts(b, m + 1)' => Starts(b, m + 1)
    BY TickSame
  <2> QED BY <1>3, <2>1, <2>2, <2>3 DEF LengthOk
<1>10. PICK b : Starts(b, m + 1)
  BY <1>5 DEF FramesOk
<1>11. b[Pos(m)] \in Nat /\ t.len = b[Pos(m)] + t.bp /\ \A j \in 1 .. Len(buf) : f[b[Pos(m)] + j] = buf[j]
  <2>1. t.len = b[Pos(m)] + t.bp
    BY <1>0, <1>1, <1>4, <1>10 DEF LengthOk
  <2>2. b[Pos(m)] \in Nat
    BY <1>5, <1>10 DEF Starts
  <2>3. \A j \in 1 .. Len(buf) : f[b[Pos(m)] + j] = buf[j]
    BY <1>5, <1>10, SMTT(40) DEF Starts
  <2> QED BY <2>1, <2>2, <2>3
<1>12. Whole = t.len - Len(h) /\ Whole \in Nat /\ \A j \in 1 .. Len(h) : h[j] = f[Whole + j]
  <2>1. Whole = t.len - Len(h)
    BY <1>1, <1>6 DEF Whole
  <2> QED BY <1>0, <1>4, <2>1 DEF GatherOk
<1>13. all \in Seq(Byte) /\ Len(all) = Len(h) + Len(l) /\ Len(all) \in Nat
  <2>1. all \in Seq(Byte) /\ Len(all) = Len(h) + Len(l)
    BY <1>6, ConcatProperties
  <2> HIDE DEF h, l, all
  <2> QED BY <1>6, <2>1
<1>14. \A j \in 1 .. Len(all) : all[j] = IF j <= Len(h) THEN h[j] ELSE l[j - Len(h)]
  <2>1. \A j \in 1 .. Len(h) + Len(l) : all[j] = IF j <= Len(h) THEN h[j] ELSE l[j - Len(h)]
    BY <1>6, ConcatProperties
  <2> HIDE DEF all
  <2> QED BY <1>13, <2>1
<1> DEFINE B == b[Pos(m)]
<1> HIDE DEF h, l, all, f, buf, B
<1>15. B \in Nat /\ t.len = B + t.bp /\ \A j \in 1 .. Len(buf) : f[B + j] = buf[j]
  BY <1>11 DEF B
<1>16. ASSUME NEW j \in 1 .. Len(all) PROVE all[j] = f[Whole + j]
  <2>1. CASE j <= Len(h)
    <3>1. j \in 1 .. Len(h)
      BY <1>6, <1>13, <2>1
    <3> QED BY <1>12, <1>14, <2>1, <3>1
  <2>2. CASE j > Len(h)
    <3>1. j - Len(h) \in 1 .. Len(l) /\ ~(j <= Len(h))
      BY <1>6, <1>13, <2>2
    <3>2. all[j] = buf[t.bp + (j - Len(h))]
      BY <1>7, <1>14, <3>1
    <3>3. t.bp + (j - Len(h)) \in 1 .. Len(buf) /\ B + (t.bp + (j - Len(h))) = Whole + j
      <4>1. PICK i \in 1 .. Len(l) : i = j - Len(h)
        BY <3>1
      <4>2. t.bp + i \in 1 .. Len(buf)
        BY <1>6, <1>7
      <4>3. B + (t.bp + i) = t.len + i /\ Whole + j = t.len + i
        BY <1>6, <1>12, <1>15, <4>1
      <4> QED BY <4>1, <4>2, <4>3
    <3>4. f[B + (t.bp + (j - Len(h)))] = buf[t.bp + (j - Len(h))]
      BY <1>15, <3>3
    <3> QED BY <3>2, <3>3, <3>4
  <2> QED BY <1>6, <1>13, <2>1, <2>2
<1>17. /\ Whole' = Whole
       /\ \A j \in 1 .. Len(t'.hold) : t'.hold[j] = f[t'.len - Len(t'.hold) + j]
       /\ t'.state = "T_PUT" => Len(t'.beat) = Lanes /\ \A j \in 1 .. Lanes : t'.beat[j] = f[Whole + j]
  <2>0. Lanes \in Nat /\ Lanes > 0
    BY Consts
  <2>1. CASE Len(all) >= Lanes
    <3> DEFINE r == SubSeq(all, Lanes + 1, Len(all))
               e == SubSeq(all, 1, Lanes)
    <3>1. t'.hold = r /\ t'.beat = e /\ t'.state = "T_PUT"
      BY <1>2, <1>3, <2>1
    <3>2. \A i \in Lanes + 1 .. Len(all) : all[i] \in Byte
      BY <1>13, <2>0, ElementOfSeq
    <3>3. \A i \in 1 .. Lanes : all[i] \in Byte
      BY <1>13, <2>0, <2>1, ElementOfSeq
    <3>4. Len(r) = (IF Lanes + 1 <= Len(all) THEN Len(all) - (Lanes + 1) + 1 ELSE 0)
      BY <1>13, <2>0, <3>2, SubSeqProperties
    <3>5. \A i \in 1 .. Len(all) - (Lanes + 1) + 1 : r[i] = all[Lanes + 1 + i - 1]
      BY <1>13, <2>0, <3>2, SubSeqProperties
    <3>6. Len(e) = (IF 1 <= Lanes THEN Lanes - 1 + 1 ELSE 0)
      BY <1>13, <2>0, <3>3, SubSeqProperties
    <3>7. \A i \in 1 .. Lanes - 1 + 1 : e[i] = all[1 + i - 1]
      BY <1>13, <2>0, <3>3, SubSeqProperties
    <3> HIDE DEF r, e
    <3>8. Len(r) = Len(all) - Lanes /\ Len(e) = Lanes
      BY <1>13, <2>0, <2>1, <3>4, <3>6
    <3>9. t'.len - Len(t'.hold) = Whole + Lanes
      BY <1>1, <1>6, <1>12, <1>13, <2>0, <3>1, <3>8 DEF l
    <3>10. Whole' = Whole
      <4>1. Whole' = t'.len - Len(t'.hold) - Lanes
        BY <3>1 DEF Whole
      <4> QED BY <1>12, <2>0, <3>9, <4>1
    <3>11. ASSUME NEW j \in 1 .. Len(r) PROVE r[j] = f[Whole + Lanes + j]
      <4>1. j \in 1 .. Len(all) - (Lanes + 1) + 1 /\ Lanes + 1 + j - 1 = Lanes + j /\ Lanes + j \in 1 .. Len(all)
        BY <1>13, <2>0, <2>1, <3>8
      <4>2. r[j] = all[Lanes + j]
        BY <3>5, <4>1
      <4>3. Whole + (Lanes + j) = Whole + Lanes + j
        BY <1>12, <2>0, <4>1
      <4> QED BY <1>16, <4>1, <4>2, <4>3
    <3>12. ASSUME NEW j \in 1 .. Lanes PROVE e[j] = f[Whole + j]
      <4>1. j \in 1 .. Lanes - 1 + 1 /\ 1 + j - 1 = j /\ j \in 1 .. Len(all)
        BY <1>13, <2>0, <2>1
      <4>2. e[j] = all[j]
        BY <3>7, <4>1
      <4> QED BY <1>16, <4>1, <4>2
    <3> QED BY <3>1, <3>8, <3>9, <3>10, <3>11, <3>12
  <2>2. CASE ~(Len(all) >= Lanes)
    <3>1. t'.hold = all /\ t'.state # "T_PUT"
      BY <1>2, <1>3, <2>2
    <3>2. t'.len - Len(t'.hold) = Whole
      BY <1>1, <1>6, <1>12, <1>13, <3>1 DEF l
    <3>3. Whole' = Whole
      <4>1. Whole' = t'.len - Len(t'.hold) - 0
        BY <3>1 DEF Whole
      <4> QED BY <1>12, <3>2, <4>1
    <3> QED BY <1>16, <3>1, <3>2, <3>3
  <2> QED BY <2>1, <2>2
<1>18. GatherOk(m)'
  <2>1. f' = f
    BY TickSame DEF f
  <2>2. t.soff * Lanes = Min2(Whole, Cap) /\ (t.trunc <=> Whole > Cap) /\ HasBytes(CurSlot, f, t.soff * Lanes)
    BY <1>0, <1>4 DEF GatherOk, f
  <2>3. CurSlot' = CurSlot
    BY <1>1 DEF CurSlot
  <2>4. HasBytes(CurSlot, f, t.soff * Lanes)'
    BY <1>1, <2>1, <2>2, <2>3, TickSame DEF HasBytes
  <2> QED BY <1>1, <1>3, <1>12, <1>17, <2>1, <2>2, <2>3, <2>4 DEF GatherOk, f, Min2, Cap
<1> QED BY <1>4, <1>8, <1>9, <1>18 DEF Bytes, FilledOk

\* A whole beat has been stored, or is dropped at the end of the slot.
LEMMA BytesPut ==
  ASSUME TxInv, RingShape, WireTyped, CountsOk, PlaceOk, Ticked, NEW m, m = Staged, Bytes(m), MvPut
  PROVE  Bytes(m)'
<1>0. LineOk /\ LengthOk(m) /\ GatherOk(m)
  BY DEF Bytes
<1>1. /\ t.state = "T_PUT" /\ (t.soff # SlotBeats => acc) /\ acc' = FALSE /\ t'.state = AfterBeat(t.cnt)
      /\ t'.bp = t.bp /\ t'.cnt = t.cnt /\ t'.len = t.len /\ t'.nbdp = t.nbdp /\ t'.prod = t.prod /\ t'.hold = t.hold
      /\ t'.soff = (IF t.soff = SlotBeats THEN t.soff ELSE t.soff + 1)
      /\ t'.trunc = (IF t.soff = SlotBeats THEN TRUE ELSE t.trunc)
  BY DEF MvPut
<1>2. t'.state \in {"T_BCWB", "T_MEM"} /\ (t'.state = "T_BCWB" => t'.cnt = 0)
  BY <1>1 DEF AfterBeat
<1>3. Filling /\ Gather /\ Filling' /\ ~Fetch' /\ ~Filled' /\ ~Closed'
  BY <1>1, <1>2 DEF Filling, Gather, Fetch, Filled, Closed, Ahead
<1>4. LineOk'
  BY <1>0, <1>1, <1>2, <1>3, TickSame DEF LineOk
<1>5. LengthOk(m)'
  <2>1. Pos(m)' = Pos(m)
    BY <1>1, TickSame DEF Pos
  <2>2. \A b : Starts(b, m + 1) => t.len = b[Pos(m)] + t.bp
    BY <1>0, <1>1, <1>3 DEF LengthOk
  <2>3. \A b : Starts(b, m + 1)' => Starts(b, m + 1)
    BY TickSame
  <2> QED BY <1>1, <1>2, <2>1, <2>2, <2>3 DEF LengthOk
<1>6. PICK f : f = sentq[m + 1]
  OBVIOUS
<1>7. PICK c : c = CurSlot
  OBVIOUS
<1>8. /\ Whole \in Nat /\ t.soff * Lanes = Min2(Whole, Cap) /\ (t.trunc <=> Whole > Cap)
      /\ \A j \in 1 .. Len(t.hold) : t.hold[j] = f[t.len - Len(t.hold) + j]
      /\ HasBytes(c, f, t.soff * Lanes) /\ (acc => HasBytes(c, f, t.soff * Lanes + Lanes))
  BY <1>0, <1>1, <1>3, <1>6, <1>7 DEF GatherOk
<1>9. Lanes \in Nat /\ Lanes > 0 /\ Cap \in Nat /\ Len(t.hold) \in Nat /\ t.len \in Nat
  BY Consts, Beats, LenProperties DEF TxInv, IsChan
<1>10. Whole' = Whole + Lanes
  <2>1. Whole = t.len - Len(t.hold) - Lanes
    BY <1>1 DEF Whole
  <2>2. Whole' = t.len - Len(t.hold) - 0
    BY <1>1, <1>2 DEF Whole
  <2> QED BY <1>9, <2>1, <2>2
<1>11. Whole' \in Nat /\ t'.soff * Lanes = Min2(Whole', Cap) /\ (t'.trunc <=> Whole' > Cap) /\ HasBytes(c, f, t'.soff * Lanes)
  <2>1. CASE t.soff = SlotBeats
    <3>1. t.soff * Lanes = Cap
      BY <2>1, Beats
    <3>2. Whole >= Cap
      BY <1>8, <1>9, <3>1 DEF Min2
    <3>3. Min2(Whole', Cap) = Cap /\ Whole' > Cap /\ Whole' \in Nat
      BY <1>8, <1>9, <1>10, <3>2 DEF Min2
    <3> QED BY <1>1, <1>8, <2>1, <3>1, <3>3
  <2>2. CASE t.soff # SlotBeats
    <3>1. t.soff * Lanes # Cap /\ t.soff * Lanes + Lanes <= Cap /\ (t.soff + 1) * Lanes = t.soff * Lanes + Lanes
      BY <2>2, Beats
    <3>2. t.soff * Lanes = Whole
      BY <1>8, <3>1 DEF Min2
    <3>3. t'.soff * Lanes = Whole' /\ Whole' <= Cap /\ Whole' \in Nat
      BY <1>1, <1>8, <1>9, <1>10, <2>2, <3>1, <3>2
    <3>4. Min2(Whole', Cap) = Whole' /\ ~(Whole' > Cap) /\ ~(Whole > Cap)
      BY <1>8, <1>9, <1>10, <3>3 DEF Min2
    <3>5. HasBytes(c, f, t'.soff * Lanes)
      BY <1>1, <1>8, <2>2, <3>1
    <3> QED BY <1>1, <1>8, <2>2, <3>3, <3>4, <3>5
  <2> QED BY <2>1, <2>2
<1>12. GatherOk(m)'
  <2>1. sentq'[m + 1] = f /\ CurSlot' = c
    BY <1>1, <1>6, <1>7, TickSame DEF CurSlot
  <2>2. HasBytes(CurSlot, sentq[m + 1], t.soff * Lanes)'
    BY <1>11, <2>1, TickSame DEF HasBytes
  <2> QED BY <1>1, <1>2, <1>8, <1>11, <2>1, <2>2 DEF GatherOk, Min2, Cap
<1> QED BY <1>3, <1>4, <1>5, <1>12 DEF Bytes, FilledOk

\* The end of a buffer.
LEMMA BytesBcwb ==
  ASSUME TxInv, RingShape, WireTyped, CountsOk, PlaceOk, Ticked, NEW m, m = Staged, Bytes(m), MvBcwb
  PROVE  Bytes(m)'
<1>0. LineOk /\ LengthOk(m) /\ GatherOk(m)
  BY DEF Bytes
<1>1. /\ t.state = "T_BCWB" /\ acc' = FALSE /\ t'.state \in {"T_FLUSH", "T_NEXT"} /\ t'.open = t.open
      /\ t'.bp = t.bp /\ t'.cnt = t.cnt /\ t'.len = t.len /\ t'.nbdp = t.nbdp /\ t'.prod = t.prod /\ t'.hold = t.hold
      /\ t'.soff = t.soff /\ t'.trunc = t.trunc
  BY DEF MvBcwb
<1>2. t.open
  BY <1>1 DEF CountsOk
<1>3. Filling /\ Gather /\ Filling' /\ ~Fetch' /\ ~Filled' /\ ~Closed'
  BY <1>1, <1>2 DEF Filling, Gather, Fetch, Filled, Closed, Ahead
<1>4. LineOk'
  BY <1>0, <1>1, <1>3, TickSame DEF LineOk
<1>5. LengthOk(m)'
  <2>1. Pos(m)' = Pos(m)
    BY <1>1, TickSame DEF Pos
  <2>2. \A b : Starts(b, m + 1) => t.len = b[Pos(m)] + t.bp
    BY <1>0, <1>1, <1>3 DEF LengthOk
  <2>3. \A b : Starts(b, m + 1)' => Starts(b, m + 1)
    BY TickSame
  <2> QED BY <1>1, <2>1, <2>2, <2>3 DEF LengthOk
<1>6. GatherOk(m)'
  BY <1>0, <1>1, <1>3, GatherSame
<1> QED BY <1>3, <1>4, <1>5, <1>6 DEF Bytes, FilledOk

\* The chain goes on inside the packet.
LEMMA BytesOn ==
  ASSUME TxInv, RingShape, WireTyped, CountsOk, PlaceOk, Ticked, NEW m, m = Staged, Bytes(m), MvOn, t.open
  PROVE  Bytes(m)'
<1>0. LineOk /\ LengthOk(m) /\ GatherOk(m)
  BY DEF Bytes
<1>1. /\ t.state = "T_NEXT" /\ acc' = FALSE /\ t'.state = "T_DESC" /\ t'.open = t.open /\ t'.nbdp = DP(t.nbdp)
      /\ t'.bp = t.bp /\ t'.cnt = t.cnt /\ t'.len = t.len /\ t'.prod = t.prod /\ t'.hold = t.hold
      /\ t'.soff = t.soff /\ t'.trunc = t.trunc
  BY DEF MvOn
<1>3. Filling /\ Gather /\ Filling' /\ ~Fetch' /\ ~Filled' /\ ~Closed'
  BY <1>1 DEF Filling, Gather, Fetch, Filled, Closed, Ahead
<1>4. /\ m + 1 \in InFlight /\ Pos(m) \in 0 .. Pk(m + 1).n - 1 /\ t.nbdp = At(m + 1, Pos(m))
      /\ Pk(m + 1).n \in 1 .. NDesc - 1
  BY <1>3, Publishing
<1>5. LineOk'
  BY <1>0, <1>1, <1>3 DEF LineOk
<1>6. Pos(m)' = Pos(m) + 1
  <2>1. DP(t.nbdp) = At(m + 1, Pos(m) + 1)
    BY <1>4, AtFacts
  <2>2. Pos(m) + 1 \in 0 .. Pk(m + 1).n
    BY <1>4, Consts
  <2>3. (At(m + 1, Pos(m) + 1) - Hd(m + 1)) % NDesc = Pos(m) + 1
    BY <1>4, <2>2, AtFacts
  <2>4. Pos(m)' = (DP(t.nbdp) - Hd(m + 1)) % NDesc
    BY <1>1, TickSame DEF Pos
  <2> QED BY <2>1, <2>3, <2>4
<1>7. LengthOk(m)'
  <2>1. ASSUME NEW b, Starts(b, m + 1) PROVE t.len = b[Pos(m) + 1]
    <3>1. t.len = b[Pos(m)] + t.bp
      BY <1>0, <1>1, <1>3, <2>1 DEF LengthOk
    <3>2. b[Pos(m) + 1] = b[Pos(m)] + Len(desc[t.nbdp].buf)
      BY <1>4, <2>1 DEF Starts
    <3>3. t.bp + t.cnt = Len(desc[t.nbdp].buf) /\ t.cnt = 0
      BY <1>0, <1>1, <1>3 DEF LineOk
    <3>4. t.bp \in Nat
      BY DEF TxInv, IsChan
    <3> QED BY <3>1, <3>2, <3>3, <3>4
  <2>2. \A b : Starts(b, m + 1)' => Starts(b, m + 1)
    BY TickSame
  <2> QED BY <1>1, <1>6, <2>1, <2>2 DEF LengthOk
<1>8. GatherOk(m)'
  BY <1>0, <1>1, <1>3, GatherSame
<1> QED BY <1>3, <1>5, <1>7, <1>8 DEF Bytes, FilledOk

\* The packet is complete: the last partial beat has been stored, or is dropped.
LEMMA BytesFlush ==
  ASSUME TxInv, RingShape, FramesOk, WireTyped, CountsOk, PlaceOk, Ticked, NEW m, m = Staged, Bytes(m), MvFlush
  PROVE  Bytes(m)'
<1>0. LineOk /\ LengthOk(m) /\ GatherOk(m)
  BY DEF Bytes
<1>1. /\ t.state = "T_FLUSH" /\ (t.hold # <<>> /\ t.soff # SlotBeats => acc) /\ acc' = FALSE /\ t'.state = "T_HEAD"
      /\ t'.bp = t.bp /\ t'.cnt = t.cnt /\ t'.len = t.len /\ t'.prod = t.prod /\ t'.hold = <<>> /\ t'.nbdp = t.nbdp
      /\ (t'.trunc <=> t.trunc \/ (t.hold # <<>> /\ t.soff = SlotBeats))
  BY DEF MvFlush
<1>2. Filling /\ Gather /\ ~Filling' /\ ~Fetch' /\ Filled'
  BY <1>1 DEF Filling, Gather, Fetch, Filled
<1>3. LineOk'
  BY <1>0, <1>1, <1>2, TickSame DEF LineOk
<1>4. /\ Place(m) /\ m + 1 \in InFlight /\ Pos(m) \in 0 .. Pk(m + 1).n - 1 /\ t.nbdp = At(m + 1, Pos(m))
      /\ Pk(m + 1).n \in 1 .. NDesc - 1
  BY <1>2, Publishing
<1>5. PICK f : f = sentq[m + 1]
  OBVIOUS
<1>6. PICK c : c = CurSlot
  OBVIOUS
<1>7. t.len = Len(f)
  <2>1. PICK b : Starts(b, m + 1)
    BY <1>4 DEF FramesOk
  <2>2. t.len = b[Pos(m)] + t.bp
    BY <1>0, <1>1, <1>2, <2>1 DEF LengthOk
  <2>3. b[Pos(m) + 1] = b[Pos(m)] + Len(desc[t.nbdp].buf) /\ b[Pk(m + 1).n] = Len(f)
    BY <1>4, <1>5, <2>1 DEF Starts
  <2>4. t.bp + t.cnt = Len(desc[t.nbdp].buf) /\ t.cnt = 0
    BY <1>0, <1>1, <1>2 DEF LineOk
  <2>5. Pos(m) = Pk(m + 1).n - 1
    BY <1>1, <1>2, <1>4 DEF Place, Where
  <2>6. Pos(m) + 1 = Pk(m + 1).n /\ t.bp = Len(desc[t.nbdp].buf)
    <3>1. t.bp \in Nat /\ Pk(m + 1).n \in Int
      BY <1>4 DEF TxInv, IsChan
    <3> QED BY <2>4, <2>5, <3>1
  <2> QED BY <2>2, <2>3, <2>6
<1>8. /\ Whole \in Nat /\ t.soff * Lanes = Min2(Whole, Cap) /\ (t.trunc <=> Whole > Cap)
      /\ HasBytes(c, f, t.soff * Lanes) /\ (acc => HasBytes(c, f, t.soff * Lanes + Len(t.hold)))
  BY <1>0, <1>1, <1>2, <1>5, <1>6 DEF GatherOk
<1>9. /\ Lanes \in Nat /\ Lanes > 0 /\ Cap \in Nat /\ Len(t.hold) \in Nat /\ t.len \in Nat /\ Len(t.hold) < Lanes
      /\ (t.hold = <<>> <=> Len(t.hold) = 0)
  BY Consts, Beats, LenProperties, EmptySeq DEF TxInv, IsChan
<1>10. Whole + Len(t.hold) = t.len
  <2>1. Whole = t.len - Len(t.hold) - 0
    BY <1>1 DEF Whole
  <2> QED BY <1>9, <2>1
<1>11. (t'.trunc <=> t.len > Cap) /\ HasBytes(c, f, Min2(t.len, Cap))
  <2>1. CASE t.soff = SlotBeats
    <3>1. t.soff * Lanes = Cap
      BY <2>1, Beats
    <3>2. Whole >= Cap
      BY <1>8, <1>9, <3>1 DEF Min2
    <3>3. Min2(t.len, Cap) = Cap
      BY <1>8, <1>9, <1>10, <3>2 DEF Min2
    <3>4. t.len > Cap <=> Whole > Cap \/ Len(t.hold) # 0
      BY <1>8, <1>9, <1>10, <3>2
    <3> QED BY <1>1, <1>8, <1>9, <2>1, <3>1, <3>3, <3>4
  <2>2. CASE t.soff # SlotBeats
    <3>1. t.soff * Lanes # Cap /\ t.soff * Lanes + Lanes <= Cap
      BY <2>2, Beats
    <3>2. t.soff * Lanes = Whole
      BY <1>8, <3>1 DEF Min2
    <3>3. ~(t.len > Cap) /\ ~(Whole > Cap) /\ Min2(t.len, Cap) = t.len
      BY <1>8, <1>9, <1>10, <3>1, <3>2 DEF Min2
    <3>4. HasBytes(c, f, t.len)
      <4>1. CASE t.hold = <<>>
        <5>1. t.len = Whole
          BY <1>8, <1>9, <1>10, <4>1
        <5> QED BY <1>8, <3>2, <5>1
      <4>2. CASE t.hold # <<>>
        <5>1. acc
          BY <1>1, <2>2, <4>2
        <5> QED BY <1>8, <1>10, <3>2, <5>1
      <4> QED BY <4>1, <4>2
    <3> QED BY <1>1, <1>8, <2>2, <3>3, <3>4
  <2> QED BY <2>1, <2>2
<1>12. FilledOk(m)'
  <2>1. sentq'[m + 1] = f /\ CurSlot' = c
    BY <1>1, <1>5, <1>6, TickSame DEF CurSlot
  <2>2. HasBytes(CurSlot, sentq[m + 1], Min2(Len(sentq[m + 1]), Cap))'
    BY <1>7, <1>11, <2>1, TickSame DEF HasBytes, Min2, Cap
  <2>3. t'.len = Len(sentq'[m + 1]) /\ (t'.trunc <=> Len(sentq'[m + 1]) > Cap)
    BY <1>1, <1>7, <1>11, <2>1
  <2> QED BY <1>1, <2>2, <2>3 DEF FilledOk, Cap
<1> QED BY <1>2, <1>3, <1>12 DEF Bytes, LengthOk, GatherOk

\* The head is marked, the completion written: the filled slot stays.
LEMMA BytesFilled ==
  ASSUME TxInv, Ticked, NEW m, Bytes(m), MvHead \/ MvCq
  PROVE  Bytes(m)'
<1>0. LineOk /\ FilledOk(m)
  BY DEF Bytes
<1>1. /\ acc /\ acc' = FALSE
      /\ \/ t.state = "T_HEAD" /\ t'.state = "T_CQ"
         \/ t.state = "T_CQ" /\ t'.state = "T_IDX"
      /\ t'.len = t.len /\ t'.prod = t.prod /\ t'.hold = t.hold /\ t'.trunc = t.trunc
  BY DEF MvHead, MvCq
<1>2. Filled /\ ~Gather' /\ ~Filling' /\ ~Fetch' /\ Filled'
  BY <1>1 DEF Filling, Gather, Fetch, Filled
<1>3. LineOk'
  BY <1>0, <1>1, <1>2 DEF LineOk
<1>4. PICK c : c = CurSlot
  OBVIOUS
<1>5. PICK p : p = m + 1
  OBVIOUS
<1>6. /\ t.len = Len(sentq[p]) /\ (t.trunc <=> Len(sentq[p]) > Cap)
      /\ HasBytes(c, sentq[p], Min2(Len(sentq[p]), Cap)) /\ (t.state = "T_CQ" => Entry(c, sentq[p]))
  BY <1>0, <1>1, <1>2, <1>4, <1>5 DEF FilledOk
<1>7. CurSlot' = c /\ sentq' = sentq /\ slot' = slot /\ cq' = cq
  BY <1>1, <1>4, TickSame DEF CurSlot
<1>8. HasBytes(c, sentq[p], Min2(Len(sentq[p]), Cap))'
  BY <1>6, <1>7 DEF HasBytes, Min2, Cap
<1>9. t.state = "T_CQ" => Entry(c, sentq[p])'
  BY <1>6, <1>7, EntrySame
<1>10. FilledOk(m)'
  <2>1. HasBytes(CurSlot, sentq[m + 1], Min2(Len(sentq[m + 1]), Cap))'
    BY <1>5, <1>7, <1>8 DEF HasBytes
  <2>2. t.state = "T_CQ" => Entry(CurSlot, sentq[m + 1])'
    BY <1>5, <1>7, <1>9, <2>1 DEF Entry
  <2>3. t'.len = Len(sentq'[m + 1]) /\ (t'.trunc <=> Len(sentq'[m + 1]) > Cap)
    BY <1>1, <1>5, <1>6, <1>7
  <2> QED BY <1>1, <2>1, <2>2, <2>3 DEF FilledOk, Cap
<1> QED BY <1>2, <1>3, <1>10 DEF Bytes, LengthOk, GatherOk

LEMMA BytesStay ==
  ASSUME Ticked, NEW m, Bytes(m), Stay
  PROVE  Bytes(m)'
<1>0. LineOk /\ LengthOk(m) /\ GatherOk(m) /\ FilledOk(m)
  BY DEF Bytes
<1>1. /\ acc' = acc /\ t'.state = t.state /\ t'.open = t.open /\ t'.nbdp = t.nbdp
      /\ t'.bp = t.bp /\ t'.cnt = t.cnt /\ t'.len = t.len /\ t'.prod = t.prod /\ t'.hold = t.hold
      /\ t'.soff = t.soff /\ t'.trunc = t.trunc /\ t'.beat = t.beat
  BY DEF Stay
<1>2. slot' = slot /\ cq' = cq /\ sentq' = sentq /\ desc' = desc /\ ld' = ld
  BY TickSame
<1>3. /\ (Gather' <=> Gather) /\ (Fetch' <=> Fetch) /\ (Closed' <=> Closed) /\ (Filled' <=> Filled)
      /\ (Filling' <=> Filling) /\ CurSlot' = CurSlot /\ Whole' = Whole
  BY <1>1 DEF Gather, Fetch, Closed, Ahead, Filled, Filling, CurSlot, Whole
<1>4. LineOk'
  BY <1>0, <1>1, <1>2, <1>3 DEF LineOk
<1>5. LengthOk(m)'
  <2>1. Pos(m)' = Pos(m)
    BY <1>1, TickSame DEF Pos
  <2>2. \A b : Starts(b, m + 1)' => Starts(b, m + 1)
    BY TickSame
  <2> QED BY <1>0, <1>1, <1>3, <2>1, <2>2 DEF LengthOk
<1>6. GatherOk(m)'
  <2>1. \A x : HasBytes(CurSlot, sentq[m + 1], x)' <=> HasBytes(CurSlot, sentq[m + 1], x)
    BY <1>2, <1>3 DEF HasBytes
  <2> QED BY <1>0, <1>1, <1>2, <1>3, <2>1 DEF GatherOk, HasBytes, Min2, Cap
<1>7. FilledOk(m)'
  <2>1. HasBytes(CurSlot, sentq[m + 1], Min2(Len(sentq[m + 1]), Cap))' <=> HasBytes(CurSlot, sentq[m + 1], Min2(Len(sentq[m + 1]), Cap))
    BY <1>2, <1>3 DEF HasBytes, Min2, Cap
  <2>2. Entry(CurSlot, sentq[m + 1])' <=> Entry(CurSlot, sentq[m + 1])
    BY <1>2, <1>3, <2>1 DEF Entry, Cap
  <2> QED BY <1>0, <1>1, <1>2, <1>3, <2>1, <2>2 DEF FilledOk, Cap
<1> QED BY <1>4, <1>5, <1>6, <1>7 DEF Bytes

LEMMA BytesTick ==
  ASSUME TxInv, RingShape, FramesOk, WireTyped, CountsOk, PlaceOk, Ticked, NEW m, m = Staged, Bytes(m)
  PROVE  Bytes(m)'
<1>1. Moves
  BY DEF Ticked
<1>2. CASE Stay
  BY <1>2, BytesStay
<1>3. CASE MvIdle \/ MvIdx \/ MvEnd
  BY <1>3, BytesOff
<1>4. CASE MvDesc
  BY <1>4, BytesOff, BytesDesc
<1>5. CASE MvSlot
  BY <1>5, BytesSlot
<1>6. CASE MvMem
  BY <1>6, BytesLine
<1>7. CASE MvPut
  BY <1>7, BytesPut
<1>8. CASE MvBcwb
  BY <1>8, BytesBcwb
<1>9. CASE MvFlush
  BY <1>9, BytesFlush
<1>10. CASE MvHead \/ MvCq
  BY <1>10, BytesFilled
<1>11. CASE MvOn
  BY <1>11, BytesOff, BytesOn
<1> QED BY <1>1, <1>2, <1>3, <1>4, <1>5, <1>6, <1>7, <1>8, <1>9, <1>10, <1>11 DEF Moves
-----------------------------------------------------------------------------
(* The published entries and the wire *)

\* Sequences that agree on x bytes have the same prefix.
LEMMA PrefixSame ==
  ASSUME NEW a \in Seq(Byte), NEW b \in Seq(Byte), NEW x \in Nat, x <= Len(a), x <= Len(b),
         \A j \in 1 .. x : a[j] = b[j]
  PROVE  SubSeq(a, 1, x) = SubSeq(b, 1, x) /\ SubSeq(a, 1, x) \in Seq(Byte) /\ Len(SubSeq(a, 1, x)) = x
<1>1. Len(a) \in Nat /\ Len(b) \in Nat /\ 1 \in Int /\ x \in Int
  BY LenProperties
<1>2. (\A i \in 1 .. x : a[i] \in Byte) /\ \A i \in 1 .. x : b[i] \in Byte
  BY <1>1, ElementOfSeq
<1> DEFINE u == SubSeq(a, 1, x)
           v == SubSeq(b, 1, x)
<1>3. u \in Seq(Byte) /\ Len(u) = IF 1 <= x THEN x - 1 + 1 ELSE 0
  BY <1>1, <1>2, SubSeqProperties
<1>4. \A i \in 1 .. x - 1 + 1 : u[i] = a[1 + i - 1]
  BY <1>1, <1>2, SubSeqProperties
<1>5. v \in Seq(Byte) /\ Len(v) = IF 1 <= x THEN x - 1 + 1 ELSE 0
  BY <1>1, <1>2, SubSeqProperties
<1>6. \A i \in 1 .. x - 1 + 1 : v[i] = b[1 + i - 1]
  BY <1>1, <1>2, SubSeqProperties
<1> HIDE DEF u, v
<1>7. Len(u) = x /\ Len(v) = x
  BY <1>3, <1>5
<1>8. ASSUME NEW i \in 1 .. Len(u) PROVE u[i] = v[i]
  <2>1. i \in 1 .. x - 1 + 1 /\ 1 + i - 1 = i /\ i \in 1 .. x
    BY <1>7
  <2> QED BY <1>4, <1>6, <2>1
<1>9. u = v
  BY <1>3, <1>5, <1>7, <1>8, SeqEqual
<1> QED BY <1>3, <1>7, <1>9 DEF u, v

\* Where the entries are, and the packets they carry.
LEMMA EntryFacts ==
  ASSUME TxInv, RingShape, WireTyped, CountsOk, PlaceOk
  PROVE  /\ cons \in Nat /\ Diff(txprod, cons) \in Nat /\ Len(wire) \in Nat /\ NSlot \in Nat
         /\ \A k \in 0 .. Diff(txprod, cons) - 1 :
              /\ (cons + k) % NSlot \in Slots /\ Len(wire) + k + 1 \in 1 .. Queued
              /\ (Gather \/ Ahead) => (cons + k) % NSlot # CurSlot
         /\ (t.state # "T_IDX" \/ ~acc) => txprod = t.prod /\ CurSlot = (cons + Diff(txprod, cons)) % NSlot
         /\ CurSlot \in Slots
<1> DEFINE n == Diff(txprod, cons)
<1>1. txprod \in Counts /\ cons \in Counts /\ cons \in Nat /\ NSlot \in Nat /\ t.prod \in Counts
  BY Consts DEF TxInv, StagingOk, Counts, IsChan
<1>2. PICK m : m = Staged
  OBVIOUS
<1>3. m \in Nat /\ m <= Queued /\ Queued \in Nat /\ Len(wire) \in Nat /\ n \in Nat /\ Len(wire) + n = m
  BY <1>2, Publishing
<1>4. (t.state # "T_IDX" \/ ~acc) => txprod = t.prod
  BY DEF CountsOk
<1>5. txprod % NSlot = (cons + n) % NSlot
  BY <1>1, SlotNext
<1>6. (t.state # "T_IDX" \/ ~acc) => CurSlot = (cons + n) % NSlot
  BY <1>4, <1>5 DEF CurSlot
<1>7. (Gather \/ Ahead) => n < NSlot /\ (t.state # "T_IDX" \/ ~acc)
  BY DEF CountsOk, Gather, Ahead
<1>8. CurSlot \in Slots
  <2>1. t.prod \in Int
    BY <1>1 DEF Counts
  <2> QED BY <2>1, CountIndex DEF CurSlot
<1> HIDE DEF n
<1>9. ASSUME NEW k \in 0 .. n - 1
      PROVE  /\ (cons + k) % NSlot \in Slots /\ Len(wire) + k + 1 \in 1 .. Queued
             /\ (Gather \/ Ahead) => (cons + k) % NSlot # CurSlot
  <2>1. k \in Nat /\ k < n /\ cons + k \in Int
    BY <1>1, <1>3
  <2>2. (cons + k) % NSlot \in Slots
    BY <2>1, CountIndex
  <2>3. Len(wire) + k + 1 \in 1 .. Queued
    BY <1>3, <2>1
  <2>4. (Gather \/ Ahead) => (cons + k) % NSlot # (cons + n) % NSlot
    BY <1>1, <1>3, <1>7, <2>1, SlotApart
  <2> QED BY <1>6, <1>7, <2>2, <2>3, <2>4
<1> QED BY <1>1, <1>3, <1>4, <1>6, <1>8, <1>9 DEF n

\* The driver and the clock leave the entries alone.
LEMMA EntriesKept ==
  ASSUME TxInv, RingShape, WireTyped, CountsOk, PlaceOk, [Next]_vars, EntriesOk, WireOk,
         UNCHANGED <<slot, cq, txprod, cons, wire>>
  PROVE  EntriesOk' /\ WireOk'
<1>1. \A i \in 1 .. Queued : sentq'[i] = sentq[i]
  BY SentKept
<1>2. EntriesOk'
  <2> SUFFICES ASSUME NEW k \in 0 .. Diff(txprod, cons) - 1
               PROVE  Entry((cons + k) % NSlot, sentq[Len(wire) + k + 1])'
    BY DEF EntriesOk
  <2>1. Entry((cons + k) % NSlot, sentq[Len(wire) + k + 1])
    BY DEF EntriesOk
  <2>2. PICK i : i = (cons + k) % NSlot
    OBVIOUS
  <2>3. PICK p \in 1 .. Queued : p = Len(wire) + k + 1
    BY EntryFacts
  <2>4. Entry(i, sentq[p])' <=> Entry(i, sentq[p])
    BY <1>1, EntrySame
  <2>5. Entry(i, sentq[p])'
    BY <2>1, <2>2, <2>3, <2>4
  <2>6. i = ((cons + k) % NSlot)' /\ p = (Len(wire) + k + 1)'
    BY <2>2, <2>3
  <2> QED BY <2>5, <2>6 DEF Entry, HasBytes
<1>3. WireOk'
  <2>1. PICK m : m = Staged
    OBVIOUS
  <2>2. \A i \in 1 .. Len(wire) : i \in 1 .. Queued
    BY <2>1, Publishing
  <2> QED BY <1>1, <2>2 DEF WireOk, Cut, Min2
<1> QED BY <1>2, <1>3

\* An access of the channel writes no slot or completion of an entry, and an index published adds
\* the entry it has filled.
LEMMA EntriesMem ==
  ASSUME TxInv, RingShape, WireTyped, CountsOk, PlaceOk, Mem, EntriesOk, NEW m, m = Staged, Bytes(m)
  PROVE  EntriesOk'
<1> DEFINE n == Diff(txprod, cons)
<1>1. t' = t /\ ~acc /\ sentq' = sentq /\ cons' = cons /\ wire' = wire /\ TxReq
  BY DEF Mem
<1>2. n \in Nat /\ Len(wire) \in Nat /\ Len(wire) + n = m /\ txprod \in Counts /\ cons \in Counts
  BY Publishing DEF TxInv, StagingOk
<1>3. /\ cons \in Nat /\ txprod = t.prod /\ CurSlot = (cons + n) % NSlot /\ CurSlot \in Slots
  BY <1>1, EntryFacts
<1>4. \A k \in 0 .. n - 1 : /\ (cons + k) % NSlot \in Slots
                            /\ (Gather \/ Ahead) => (cons + k) % NSlot # CurSlot
  BY EntryFacts
<1>5. ASSUME NEW i \in Slots, t.state \in {"T_PUT", "T_FLUSH", "T_CQ"} => i # CurSlot
      PROVE  slot'[i] = slot[i] /\ cq'[i] = cq[i]
  <2>1. CASE t.state \in {"T_PUT", "T_FLUSH"}
    <3>1. cq' = cq /\ \E b : StoreBeat(b)
      BY <2>1 DEF Mem
    <3>2. slot'[i] = slot[i]
      <4>1. PICK b : slot' = [slot EXCEPT ![CurSlot] = b]
        BY <3>1 DEF StoreBeat, CurSlot
      <4>2. DOMAIN slot = Slots
        BY DEF TxInv, StagingOk
      <4> QED BY <1>5, <2>1, <4>1, <4>2
    <3> QED BY <3>1, <3>2
  <2>2. CASE t.state = "T_CQ"
    <3>1. slot' = slot /\ cq' = [cq EXCEPT ![CurSlot] = [len |-> t.len, trunc |-> t.trunc]]
      BY <2>2 DEF Mem, CurSlot
    <3>2. DOMAIN cq = Slots
      BY DEF WireTyped
    <3> QED BY <1>5, <2>2, <3>1, <3>2
  <2>3. CASE t.state \notin {"T_PUT", "T_FLUSH", "T_CQ"}
    BY <2>3 DEF Mem, staging
  <2> QED BY <2>1, <2>2, <2>3
<1>6. t.state \in {"T_PUT", "T_FLUSH", "T_CQ"} => Gather \/ Ahead
  BY DEF Gather, Ahead
<1>7. ASSUME NEW k \in 0 .. n - 1
      PROVE  Entry((cons + k) % NSlot, sentq[Len(wire) + k + 1])'
  <2>1. Entry((cons + k) % NSlot, sentq[Len(wire) + k + 1])
    BY DEF EntriesOk
  <2>2. PICK i \in Slots : i = (cons + k) % NSlot
    BY <1>4
  <2>3. PICK p : p = Len(wire) + k + 1
    OBVIOUS
  <2>4. slot'[i] = slot[i] /\ cq'[i] = cq[i]
    BY <1>4, <1>5, <1>6, <2>2
  <2>5. Entry(i, sentq[p])' <=> Entry(i, sentq[p])
    BY <1>1, <2>4, EntrySame
  <2>6. Entry(i, sentq[p])'
    BY <2>1, <2>2, <2>3, <2>5
  <2>7. i = ((cons + k) % NSlot)' /\ p = (Len(wire) + k + 1)'
    BY <1>1, <2>2, <2>3
  <2> QED BY <2>6, <2>7 DEF Entry, HasBytes
<1>8. CASE t.state # "T_IDX"
  <2>1. txprod' = txprod
    BY <1>8 DEF Mem, staging
  <2>2. Diff(txprod, cons)' = n
    BY <1>1, <2>1 DEF Diff
  <2> QED BY <1>7, <2>2 DEF EntriesOk
<1>9. CASE t.state = "T_IDX"
  <2>1. txprod' = Inc(txprod) /\ slot' = slot /\ cq' = cq
    BY <1>3, <1>9 DEF Mem
  <2>2. n < NSlot
    BY <1>1, <1>9 DEF CountsOk, Ahead
  <2>3. Diff(txprod, cons)' = n + 1
    <3>1. Diff(Inc(txprod), cons) = n + 1
      BY <1>2, <2>2, DiffSteps
    <3> QED BY <1>1, <2>1, <3>1 DEF Diff
  <2>4. PICK r \in Nat : r = n
    BY <1>2
  <2>5. Entry((cons + r) % NSlot, sentq[Len(wire) + r + 1])'
    <3>1. Entry(CurSlot, sentq[m + 1])
      BY <1>1, <1>9 DEF Bytes, FilledOk, Filled
    <3>2. PICK i : i = CurSlot
      OBVIOUS
    <3>3. PICK p : p = m + 1
      OBVIOUS
    <3>4. Entry(i, sentq[p])' <=> Entry(i, sentq[p])
      BY <1>1, <2>1, EntrySame
    <3>5. i = ((cons + r) % NSlot)' /\ p = (Len(wire) + r + 1)'
      BY <1>1, <1>2, <1>3, <2>4, <3>2, <3>3
    <3> QED BY <3>1, <3>2, <3>3, <3>4, <3>5 DEF Entry, HasBytes
  <2>6. \A k \in 0 .. Diff(txprod, cons)' - 1 : k \in 0 .. n - 1 \/ k = r
    BY <1>2, <2>3, <2>4
  <2>7. \A k \in 0 .. Diff(txprod, cons)' - 1 : Entry((cons + k) % NSlot, sentq[Len(wire) + k + 1])'
    BY <1>7, <2>5, <2>6
  <2> QED BY <2>7 DEF EntriesOk
<1> QED BY <1>8, <1>9

\* The ARM takes the oldest entry: what it writes is the packet, cut at the slot.
LEMMA EntriesArm ==
  ASSUME TxInv, RingShape, WireTyped, CountsOk, PlaceOk, ArmConsume, EntriesOk, WireOk
  PROVE  EntriesOk' /\ WireOk'
<1> DEFINE n == Diff(txprod, cons)
           w == Len(wire)
<1>1. cons # txprod /\ cons' = Inc(cons) /\ slot' = slot /\ cq' = cq /\ txprod' = txprod /\ sentq' = sentq
  BY DEF ArmConsume, staging
<1>2. PICK m : m = Staged
  OBVIOUS
<1>3. /\ n \in Nat /\ w \in Nat /\ txprod \in Counts /\ cons \in Counts /\ wire \in Seq(Seq(Byte))
      /\ m \in Nat /\ m <= Queued /\ Queued \in Nat /\ w + n = m
  BY <1>2, Publishing DEF TxInv, StagingOk, WireTyped
<1>4. n >= 1 /\ Diff(txprod, cons)' = n - 1
  <2>1. n >= 1 /\ Diff(txprod, Inc(cons)) = n - 1
    BY <1>1, <1>3, DiffSteps
  <2> QED BY <1>1, <2>1 DEF Diff
<1>5. cons \in Nat /\ NSlot \in Nat
  BY Consts, <1>3 DEF Counts
<1>6. PICK x : x = SubSeq(slot[cons % NSlot], 1, Min2(cq[cons % NSlot].len, Len(slot[cons % NSlot])))
  OBVIOUS
<1>7. wire' = Append(wire, x)
  BY <1>6 DEF ArmConsume
<1>8. PICK i \in Slots : i = cons % NSlot
  BY <1>5, CountIndex
<1>9. PICK f \in Seq(Byte) : f = sentq[w + 1]
  <2>1. sentq \in Seq(Seq(Byte)) /\ w + 1 \in 1 .. Queued
    BY <1>3, <1>4 DEF TxInv, HistoryOk
  <2> QED BY <2>1, ElementOfSeq DEF Queued
<1>10. Entry(i, f)
  <2>1. 0 \in 0 .. n - 1
    BY <1>3, <1>4
  <2>2. Entry((cons + 0) % NSlot, sentq[w + 0 + 1])
    BY <2>1 DEF EntriesOk
  <2>3. cons + 0 = cons /\ w + 0 + 1 = w + 1
    BY <1>3, <1>5
  <2> QED BY <1>8, <1>9, <2>2, <2>3
<1>11. x \in Seq(Byte) /\ x = Cut(f)
  <2> DEFINE b == slot[i]
             y == Min2(Len(f), Cap)
  <2>1. b \in Seq(Byte) /\ Len(b) <= Cap /\ Len(b) \in Nat
    BY LenProperties DEF TxInv, StagingOk, Cap
  <2>2. cq[i].len = Len(f) /\ Len(b) >= y /\ \A j \in 1 .. y : b[j] = f[j]
    BY <1>10 DEF Entry, HasBytes
  <2>3. Len(f) \in Nat /\ Cap \in Nat
    BY LenProperties, Beats
  <2> HIDE DEF b
  <2>4. y \in Nat /\ y <= Len(f) /\ Min2(Len(f), Len(b)) = y
    BY <2>1, <2>2, <2>3 DEF Min2
  <2>5. x = SubSeq(b, 1, y)
    BY <1>6, <1>8, <2>2, <2>4 DEF b
  <2> HIDE DEF y
  <2>6. SubSeq(b, 1, y) = SubSeq(f, 1, y) /\ SubSeq(b, 1, y) \in Seq(Byte)
    BY <2>1, <2>2, <2>3, <2>4, PrefixSame
  <2>7. Cut(f) = SubSeq(f, 1, y)
    BY DEF Cut, y, Cap
  <2> QED BY <2>5, <2>6, <2>7
<1>12. /\ Len(wire') = w + 1 /\ (\A j \in 1 .. w : wire'[j] = wire[j]) /\ wire'[w + 1] = x
  BY <1>3, <1>7, <1>11, AppendProperties
<1>13. WireOk'
  <2> SUFFICES ASSUME NEW j \in 1 .. Len(wire') PROVE wire'[j] = Cut(sentq'[j])
    BY DEF WireOk, Cut, Min2
  <2>1. j \in 1 .. w \/ j = w + 1
    BY <1>3, <1>12
  <2>2. j \in 1 .. w => wire'[j] = Cut(sentq[j])
    BY <1>12 DEF WireOk
  <2> QED BY <1>1, <1>9, <1>11, <1>12, <2>1, <2>2
<1>14. ASSUME NEW k \in 0 .. (n - 1) - 1
       PROVE  Entry((cons + k) % NSlot, sentq[Len(wire) + k + 1])'
  <2>1. k \in Nat /\ k + 1 \in 0 .. n - 1
    BY <1>3, <1>4
  <2>2. Entry((cons + (k + 1)) % NSlot, sentq[w + (k + 1) + 1])
    BY <2>1 DEF EntriesOk
  <2>3. PICK c : c = (cons + (k + 1)) % NSlot
    OBVIOUS
  <2>4. PICK p : p = w + (k + 1) + 1
    OBVIOUS
  <2>5. Entry(c, sentq[p])' <=> Entry(c, sentq[p])
    BY <1>1, EntrySame
  <2>6. c = ((cons + k) % NSlot)'
    <3>1. (Inc(cons) + k) % NSlot = (cons + (k + 1)) % NSlot
      BY <1>3, <2>1, SlotNext
    <3> QED BY <1>1, <2>3, <3>1
  <2>7. p = (Len(wire) + k + 1)'
    BY <1>3, <1>12, <2>1, <2>4
  <2> QED BY <2>2, <2>3, <2>4, <2>5, <2>6, <2>7 DEF Entry, HasBytes
<1>15. EntriesOk'
  <2>1. \A k \in 0 .. Diff(txprod, cons)' - 1 : Entry((cons + k) % NSlot, sentq[Len(wire) + k + 1])'
    BY <1>4, <1>14
  <2> QED BY <2>1 DEF EntriesOk
<1> QED BY <1>13, <1>15

LEMMA BytesInit == Init => BytesOk
<1> SUFFICES ASSUME Init PROVE BytesOk
  OBVIOUS
<1>1. t.state = "T_IDLE" /\ wire = <<>> /\ txprod = 0 /\ cons = 0
  BY DEF Init, ChanReset
<1>2. Diff(txprod, cons) = 0 /\ Len(wire) = 0
  BY <1>1, Consts DEF Diff
<1>3. EntriesOk /\ WireOk
  BY <1>2 DEF EntriesOk, WireOk
<1>4. ~Gather /\ ~Filling /\ ~Filled /\ ~Fetch /\ ~Closed
  BY <1>1 DEF Filling, Filled, Gather, Fetch, Closed, Ahead
<1>5. Bytes(0)
  BY <1>1, <1>4 DEF Bytes, LineOk, LengthOk, GatherOk, FilledOk
<1>6. Staged = 0
  BY <1>2 DEF Staged
<1> QED BY <1>3, <1>5, <1>6 DEF BytesOk

LEMMA BytesStep ==
  ASSUME TxInv, Handshake, RingShape, FramesOk, WireTyped, CountsOk, PlaceOk, BytesOk, [Next]_vars, PlaceOk'
  PROVE  BytesOk'
<1>1. PICK m \in Nat : m = Staged /\ Bytes(m)
  BY DEF BytesOk
<1>2. EntriesOk /\ WireOk
  BY DEF BytesOk
<1>3. /\ Staged' = IF Mem /\ t.state = "T_IDX" THEN m + 1 ELSE m
      /\ Sent' = IF Mem /\ t.state = "T_HEAD" THEN Sent + 1 ELSE Sent
  BY <1>1, CountsStep
<1>5. CASE Mem
  <2>1. EntriesOk'
    BY <1>1, <1>2, <1>5, EntriesMem
  <2>2. WireOk'
    BY <1>2, <1>5 DEF Mem, WireOk, Cut, Min2
  <2>3. IF t.state = "T_IDX" THEN Bytes(m + 1)' ELSE Bytes(m)'
    BY <1>1, <1>5, BytesMem
  <2>4. CASE t.state = "T_IDX"
    <3>1. PICK r \in Nat : r = m + 1
      OBVIOUS
    <3>2. Staged' = r /\ Bytes(r)'
      BY <1>3, <1>5, <2>3, <2>4, <3>1
    <3> QED BY <2>1, <2>2, <3>2 DEF BytesOk
  <2>5. CASE t.state # "T_IDX"
    BY <1>3, <2>1, <2>2, <2>3, <2>5 DEF BytesOk
  <2> QED BY <2>4, <2>5
<1>6. CASE ~Mem /\ ArmConsume
  <2>1. Bytes(m)'
    BY <1>1, <1>3, <1>6, BytesGuest
  <2>2. EntriesOk' /\ WireOk'
    BY <1>2, <1>6, EntriesArm
  <2> QED BY <1>3, <1>6, <2>1, <2>2 DEF BytesOk
<1>7. CASE ~Mem /\ GuestOnly
  <2>1. Bytes(m)'
    BY <1>1, <1>3, <1>7, BytesGuest
  <2>2. UNCHANGED <<slot, cq, txprod, cons, wire>>
    BY <1>7 DEF GuestOnly
  <2>3. EntriesOk' /\ WireOk'
    BY <1>2, <2>2, EntriesKept
  <2> QED BY <1>3, <1>7, <2>1, <2>3 DEF BytesOk
<1>8. CASE ~Mem /\ Ticked
  <2>1. Bytes(m)'
    BY <1>1, <1>8, BytesTick
  <2>2. UNCHANGED <<slot, cq, txprod, cons, wire>>
    BY <1>8 DEF Ticked
  <2>3. EntriesOk' /\ WireOk'
    BY <1>2, <2>2, EntriesKept
  <2> QED BY <1>3, <1>8, <2>1, <2>3 DEF BytesOk
<1> QED BY <1>5, <1>6, <1>7, <1>8, StepKinds
-----------------------------------------------------------------------------
(* The invariant, and what it gives the ARM and the driver *)

TxPath == /\ TxInv /\ Handshake /\ RingShape /\ EndsOk /\ FramesOk
          /\ WireTyped /\ CountsOk /\ PlaceOk /\ BytesOk

LEMMA PathInit == Init => TxPath
BY InitTx, HandshakeInit, RingInit, MarksInit, CountsInit, PlaceInit, BytesInit DEF TxPath

LEMMA PathStep ==
  ASSUME TxPath, NoCap, [Next]_vars
  PROVE  TxPath'
<1>0. TxInv /\ Handshake /\ RingShape /\ EndsOk /\ FramesOk /\ WireTyped /\ CountsOk /\ PlaceOk /\ BytesOk
  BY DEF TxPath
<1>1. TxInv'
  BY <1>0, NextTx
<1>2. Handshake'
  BY <1>0, HandshakeStep
<1>3. RingShape'
  BY <1>0, RingStep
<1>4. EndsOk'
  BY <1>0, EndsStep
<1>5. FramesOk'
  BY <1>0, FramesStep
<1>6. WireTyped'
  BY <1>0, WireStep
<1>7. CountsOk'
  BY <1>0, CountsStep
<1>8. PlaceOk'
  BY <1>0, PlaceStep
<1>9. BytesOk'
  BY <1>0, <1>8, BytesStep
<1> QED BY <1>1, <1>2, <1>3, <1>4, <1>5, <1>6, <1>7, <1>8, <1>9 DEF TxPath

LEMMA PathReclaim == TxPath => ReclaimSafe
BY PlaceReclaim DEF TxPath, PlaceOk

LEMMA PathWire == TxPath => WireFaithful
<1> SUFFICES ASSUME TxPath PROVE WireFaithful
  OBVIOUS
<1>1. PICK m : m = Staged
  OBVIOUS
<1>2. /\ m \in Nat /\ m <= Queued /\ Queued \in Nat
      /\ Len(wire) \in Nat /\ Diff(txprod, cons) \in Nat /\ Len(wire) + Diff(txprod, cons) = m
  BY <1>1, Publishing DEF TxPath
<1>3. Len(wire) <= Len(sentq)
  BY <1>2 DEF Queued
<1> QED BY <1>3 DEF TxPath, BytesOk, WireOk, WireFaithful

\* An entry that carries a packet is what StagedIntact says of it.
LEMMA EntryIntact ==
  ASSUME TxInv, NEW i \in Slots, NEW f \in Seq(Byte), Entry(i, f)
  PROVE  /\ cq[i].len = Len(f) /\ (cq[i].trunc <=> Len(f) > SlotBeats * Lanes)
         /\ Len(slot[i]) >= Len(Cut(f)) /\ SubSeq(slot[i], 1, Len(Cut(f))) = Cut(f)
<1> DEFINE y == Min2(Len(f), Cap)
<1>1. slot[i] \in Seq(Byte) /\ Len(slot[i]) \in Nat /\ Len(f) \in Nat /\ Cap \in Nat
  BY LenProperties, Beats DEF TxInv, StagingOk
<1>2. cq[i].len = Len(f) /\ (cq[i].trunc <=> Len(f) > SlotBeats * Lanes)
  BY DEF Entry, Cap
<1>3. Len(slot[i]) >= y /\ \A j \in 1 .. y : slot[i][j] = f[j]
  BY DEF Entry, HasBytes
<1>4. y \in Nat /\ y <= Len(f)
  BY <1>1 DEF Min2
<1>5. Cut(f) = SubSeq(f, 1, y)
  BY DEF Cut, Cap
<1> HIDE DEF y
<1>6. SubSeq(slot[i], 1, y) = SubSeq(f, 1, y) /\ Len(SubSeq(slot[i], 1, y)) = y
  BY <1>1, <1>3, <1>4, PrefixSame
<1>7. Len(Cut(f)) = y
  BY <1>5, <1>6
<1> QED BY <1>2, <1>3, <1>5, <1>6, <1>7

LEMMA PathStaged == TxPath => StagedIntact
<1> SUFFICES ASSUME TxPath PROVE StagedIntact
  OBVIOUS
<1>0. TxInv /\ RingShape /\ WireTyped /\ CountsOk /\ PlaceOk /\ EntriesOk
  BY DEF TxPath, BytesOk
<1> DEFINE n == Diff(txprod, cons)
<1>1. PICK m : m = Staged
  OBVIOUS
<1>2. m \in Nat /\ m <= Queued /\ Len(wire) + n = m /\ n <= NSlot
  BY <1>0, <1>1, Publishing DEF CountsOk
<1>3. ASSUME NEW k \in 0 .. n - 1, NEW i, i = (cons + k) % NSlot, NEW f, f = sentq[Len(wire) + k + 1]
      PROVE  /\ cq[i].len = Len(f) /\ (cq[i].trunc <=> Len(f) > SlotBeats * Lanes)
             /\ Len(slot[i]) >= Len(Cut(f)) /\ SubSeq(slot[i], 1, Len(Cut(f))) = Cut(f)
  <2>1. i \in Slots /\ Len(wire) + k + 1 \in 1 .. Queued
    BY <1>0, <1>3, EntryFacts
  <2>2. f \in Seq(Byte)
    <3>1. sentq \in Seq(Seq(Byte))
      BY <1>0 DEF TxInv, HistoryOk
    <3> QED BY <1>3, <2>1, <3>1, ElementOfSeq DEF Queued
  <2>3. Entry(i, f)
    BY <1>0, <1>3 DEF EntriesOk
  <2> QED BY <1>0, <2>1, <2>2, <2>3, EntryIntact
<1>4. n <= NSlot /\ Len(wire) + n <= Len(sentq)
  BY <1>2 DEF Queued
<1> QED BY <1>3, <1>4 DEF StagedIntact

\* As long as no chain reaches the descriptor cap, the ARM's wire has exactly the packets the guest
\* queued, byte for byte and in order (T_DESC to T_IDX of the channel, tx_cons of the ARM).
THEOREM TxWire == Spec /\ []NoCap => []WireFaithful
<1>1. TxPath /\ NoCap /\ [Next]_vars => TxPath'
  BY PathStep
<1> QED BY <1>1, PathInit, PathWire, PTL DEF Spec

\* As long as no chain reaches the descriptor cap, every entry published in the staging ring is
\* whole until the ARM takes it: length, truncation flag and bytes (T_SLOT waits for a free slot).
THEOREM TxStaged == Spec /\ []NoCap => []StagedIntact
<1>1. TxPath /\ NoCap /\ [Next]_vars => TxPath'
  BY PathStep
<1> QED BY <1>1, PathInit, PathStaged, PTL DEF Spec

\* As long as no chain reaches the descriptor cap, a driver of either kind takes back whole packets
\* that were sent: ETXD on a head is the last of its packet, CRBDP never points inside a packet,
\* and a walk to the bound read ends there (T_BCWB, T_HEAD, T_NEXT and the shim's NBDP).
THEOREM TxReclaim == Spec /\ []NoCap => []ReclaimSafe
<1>1. TxPath /\ NoCap /\ [Next]_vars => TxPath'
  BY PathStep
<1> QED BY <1>1, PathInit, PathReclaim, PTL DEF Spec
=============================================================================
