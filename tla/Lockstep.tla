------------------------------ MODULE Lockstep ------------------------------
(***************************************************************************)
(* The lockstep checker of henry_tb.  Every instruction the RTL core       *)
(* retires steps the golden ISS, whose result is compared with the RTL's;  *)
(* the stores both sides commit are compared as two queues; the TLB writes *)
(* of the RTL are replayed into the ISS; every Every steps all registers   *)
(* are compared with the RTL's physical file.                              *)
(*                                                                         *)
(* The two sides run the same program Prog at different granularity: the   *)
(* core retires up to Width instructions a cycle, a branch before its      *)
(* delay slot, its stores reaching the cache later; the ISS runs a branch  *)
(* and its delay slot in one call.  Device loads return what only the core *)
(* knows, and interrupts come when only the core knows.                    *)
(*                                                                         *)
(* The core and the ISS are outside the repository: they are modelled by   *)
(* what the checker relies on.  A core may be given one fault: a store     *)
(* that reaches the cache with wrong data, or a register that changes      *)
(* although no instruction wrote it.  No program executes a break, after   *)
(* which checker_step does nothing.                                        *)
(***************************************************************************)
EXTENDS Integers, Sequences, FiniteSets, SequencesExt

CONSTANTS
  Prog,      \* pc -> instruction [op, rd, rs, a]
  Mapped,    \* the pcs outside kseg0 and kseg1
  Vec, Gen,  \* the refill and the general exception vector
  Regs, Addrs, Vals, Tlbs,
  Scratch,   \* k0 and k1
  DevBase,   \* the register value that addresses a device
  Configs,   \* what is tried: [start, width, every, mapskip, lag, faults] the first pc, the
             \* retire width, GPRCHK, no NOMAPSKIP, the stores between retirement and the cache,
             \* and the faults of the core: "none", "store", "clobber"
  Settle,    \* steps whose compares are suppressed after a resync
  ReportMax  \* clobbers reported before gpr_full_check falls silent

Pcs  == DOMAIN Prog
None == -1

ASSUME LockstepAssumption ==
  /\ Vec \in Pcs /\ Gen \in Pcs /\ Mapped \subseteq Pcs
  /\ Settle \in Nat /\ ReportMax \in Nat /\ Vals \subseteq Nat /\ Scratch \subseteq Regs

VARIABLES
  rtl,     \* the core's architectural state; tgt: where the delay slot at pc leads; known: the
           \* registers whose physical register has been written
  wq,      \* stores retired and not yet in the cache
  chk,     \* the checker with its ISS
  cfg, fault, injected,
  clob,    \* the injected clobber, the cycles with a checked step it has survived, whether it
           \* has been reported
  artifact \* the clobbers of the last cycle that are of the register slot 0 wrote, reported
           \* while slot 1 retired with it

vars == <<rtl, wq, chk, cfg, fault, injected, clob, artifact>>
-----------------------------------------------------------------------------
(***************************************************************************)
(* What an instruction does, on either side.  dv is what a device or a     *)
(* coprocessor register answers, which only the core knows.                *)
(***************************************************************************)
IsDevice(s, i) == i.op = "ldx" /\ s.gpr[i.rs] = DevBase
Misses(s, i)   == i.op = "mld" /\ s.tlb[i.a] = None
Taken(s, i)    == i.rs = 0 \/ s.gpr[i.rs] = 1

Result(s, i, dv) ==
  CASE i.op = "alu" -> (s.gpr[i.rs] + 1) % Cardinality(Vals)
    [] i.op = "ldx" -> IF IsDevice(s, i) THEN dv ELSE s.mem[i.a]
    [] i.op = "mld" -> s.mem[s.tlb[i.a]]
    [] i.op = "cop" -> dv
    [] OTHER -> 0

Writes(i) == i.op \in {"alu", "ldx", "mld", "cop"}

Data(s, i, dv) ==
  IF Writes(i) THEN [s EXCEPT !.gpr[i.rd] = Result(s, i, dv)]
  ELSE IF i.op = "st" THEN [s EXCEPT !.mem[i.a] = s.gpr[i.rs]]
  ELSE s

Store(s, pc) == IF Prog[pc].op = "st"
                THEN <<[pc |-> pc, a |-> Prog[pc].a, d |-> s.gpr[Prog[pc].rs]]>> ELSE <<>>
-----------------------------------------------------------------------------
(* The core: one retirement *)
Retire(r, dv) ==
  LET i == Prog[r.pc]
      s == IF i.op = "tlbw" THEN [r EXCEPT !.tlb[i.a] = i.rd] ELSE Data(r, i, dv)
  IN  [s EXCEPT !.known = IF Writes(i) THEN @ \cup {i.rd} ELSE @,
                !.pc = IF r.tgt # None THEN r.tgt ELSE IF i.op = "eret" THEN r.epc ELSE r.pc + 1,
                !.tgt = IF i.op # "br" THEN None ELSE IF Taken(r, i) THEN i.a ELSE r.pc + 2,
                !.exl = IF i.op = "eret" THEN FALSE ELSE @]

\* the retire port: what the testbench sees of one retirement
Record(r, dv) == [pc |-> r.pc, rd |-> IF Writes(Prog[r.pc]) THEN Prog[r.pc].rd ELSE 0,
                  d |-> Result(r, Prog[r.pc], dv)]

Exception(r, vector, cause) ==
  [r EXCEPT !.pc = vector, !.tgt = None, !.exl = TRUE, !.cause = cause,
            !.epc = IF r.tgt # None THEN r.pc - 1 ELSE r.pc]
-----------------------------------------------------------------------------
(***************************************************************************)
(* execMips on the checker record c: one instruction of the ISS, a branch  *)
(* with its delay slot.  Its stores are queued; its TLB writes are left to *)
(* the replay.  lastdev: the last load was translated to a device address. *)
(***************************************************************************)
execMips(c) ==
  LET s == c.iss
      i == Prog[s.pc]
      p == IF i.op = "br" THEN s.pc + 1 ELSE s.pc
      e == Prog[p]
      to == CASE i.op = "br"   -> IF Taken(s, i) THEN i.a ELSE s.pc + 2
              [] i.op = "eret" -> s.epc
              [] OTHER -> s.pc + 1
  IN  IF Misses(s, e)
      THEN [c EXCEPT !.iss.pc = Vec, !.iss.epc = s.pc, !.lastdev = FALSE]
      ELSE [c EXCEPT !.iss = [Data(s, e, 0) EXCEPT !.pc = to],
                     !.iss_stores = @ \o Store(s, p),
                     !.lastdev = IF e.op \in {"ldx", "mld"} THEN IsDevice(s, e) ELSE @]

\* k0 and k1, which the ISS cannot know at the entry of a handler, and unmapped reads of what
\* the ISS does not keep: coprocessor registers, HI and LO, the PIT, the cycle counter
chk_suppress(pc, rd) == rd \in Scratch \/ (pc \notin Mapped /\ Prog[pc].op = "cop")

\* unsuppressed difference in a retired register; the RTL's value is adopted either way
chk_compare(c, rec, devload) ==
  IF rec.rd = 0 THEN c
  ELSE [c EXCEPT !.iss.gpr[rec.rd] = rec.d,
                 !.alarms = IF /\ c.iss.gpr[rec.rd] # rec.d /\ c.settle = 0
                               /\ ~devload /\ ~chk_suppress(rec.pc, rec.rd)
                            THEN @ \cup {<<"DIVERGE", rec.pc>>} ELSE @]

\* the reports of one pass, by register number, as many as the cap leaves
report(c, hits) ==
  LET left == {r \in hits : c.reported + Cardinality({q \in hits : q < r}) < ReportMax}
  IN  IF hits = {} THEN c
      ELSE [c EXCEPT !.clobbers = @ \cup left, !.reported = @ + Cardinality(left)]

\* a confirm pass that waits for the next sample
gpr_full_check_sampled(c, shadow) ==
  LET n    == (c.n + 1) % (IF cfg.every = 0 THEN 1 ELSE cfg.every)
      now  == {r \in DOMAIN shadow : shadow[r] # c.iss.gpr[r]}
      same == {r \in now : c.recheck /\ <<r, shadow[r]>> \in c.cand}
  IN  IF cfg.every = 0 THEN c
      ELSE IF n # 0 THEN [c EXCEPT !.n = n]
      ELSE [report(c, same) EXCEPT !.n = n, !.recheck = now # {} /\ ~c.recheck,
                                   !.cand = {<<r, shadow[r]>> : r \in now}]

\* the compare of every register whose physical register is known: a candidate of one sample
\* is reported when the next step still sees it with the same RTL value.  shadow is the RTL's
\* file as logged up to the end of the previous cycle.
gpr_full_check(c, shadow) ==
  LET n    == (c.n + 1) % (IF cfg.every = 0 THEN 1 ELSE cfg.every)
      now  == {r \in DOMAIN shadow : shadow[r] # c.iss.gpr[r]}
      same == {r \in now : c.recheck /\ <<r, shadow[r]>> \in c.cand}
  IN  IF cfg.every = 0 THEN c
      ELSE IF ~c.recheck /\ n # 0 THEN [c EXCEPT !.n = n]
      ELSE [report(c, same) EXCEPT !.n = n, !.recheck = now # {} /\ ~c.recheck,
                                   !.cand = {<<r, shadow[r]>> : r \in now}]

is_device_load(c, pc) == pc \notin Mapped /\ IsDevice(c.iss, Prog[pc])

\* judging a delay-slot load by its base register, too late
ds_is_device_load_base(c, pc) == is_device_load(c, pc)

\* a delay-slot load has run already: its base may be its own result
ds_is_device_load(c, pc) == pc \notin Mapped /\ Prog[pc].op = "ldx" /\ c.lastdev

\* the core vectored: a general vector with cause 0 is an interrupt, which the ISS is
\* told to take; anything else the ISS must run into by itself
raise_int(c, rec, epc) == [c EXCEPT !.iss.epc = epc, !.iss.pc = rec.pc]

resync(c, rec, epc, alarm) ==
  [c EXCEPT !.iss.pc = rec.pc, !.iss.epc = epc, !.settle = Settle, !.resynced = TRUE,
            !.alarms = @ \cup {<<alarm, rec.pc>>}]

\* the ISS has run the faulting instruction: it is at the vector too, or it is put there
same_fault(c, rec, epc) ==
  IF c.iss.pc = rec.pc THEN c ELSE resync(c, rec, epc, "TLB-DELTA")

chk_sync(c, rec, cause, epc) ==
  IF c.iss.pc = rec.pc THEN c
  ELSE IF rec.pc = Gen /\ cause = 0 THEN raise_int(c, rec, epc)
  ELSE IF rec.pc \in {Vec, Gen} THEN same_fault(execMips(c), rec, epc)
  ELSE resync(c, rec, c.iss.epc, "PC-DIVERGE")

\* the ISS ran from pc to somewhere that is not the next instruction: a delay slot follows
note_ds(c, pc) ==
  [c EXCEPT !.expect_ds = c.iss.pc # pc + 1, !.ds_pc = IF c.iss.pc # pc + 1 THEN pc + 1 ELSE @]

\* the ISS, at the pc of the retirement, runs it; the registers are compared
chk_run(c, rec) ==
  chk_compare(note_ds(execMips([c EXCEPT !.settle = IF @ > 0 THEN @ - 1 ELSE 0]), c.iss.pc),
              rec, c.resynced \/ is_device_load(c, rec.pc))

\* one retirement: the delay slot that the ISS has already run is only compared
checker_step(c, rec, r, shadow) ==
  IF c.expect_ds /\ rec.pc = c.ds_pc
  THEN chk_compare([c EXCEPT !.expect_ds = FALSE], rec,
                   is_device_load(c, rec.pc) \/ ds_is_device_load(c, rec.pc))
  ELSE IF cfg.mapskip /\ rec.pc \in Mapped
  THEN [chk_compare(c, rec, TRUE) EXCEPT !.iss.pc = rec.pc, !.expect_ds = FALSE]
  ELSE gpr_full_check(chk_run(chk_sync([c EXCEPT !.expect_ds = FALSE, !.resynced = FALSE],
                                       rec, r.cause, r.epc), rec), shadow)

\* what the model calls during a cycle: the stores that reach the cache, the TLB writes,
\* and the physical registers with the map that retirement has made of them
wr_log(c, ws)     == [c EXCEPT !.rtl_stores = @ \o ws]
tlb_wr_log(c, ts) == [c EXCEPT !.pend = @ \o ts]
arch_gpr(r)       == [x \in r.known |-> r.gpr[x]]

\* a compare without the data
Matched_addr(i, r) == i.pc = r.pc /\ i.a = r.a

Matched(i, r) == i.pc = r.pc /\ i.a = r.a /\ i.d = r.d

\* the fronts of the two queues are compared and dropped until one queue is empty; a
\* mismatch stays at the front and stops the run
drain_store_check(c) ==
  LET m == IF Len(c.iss_stores) < Len(c.rtl_stores) THEN Len(c.iss_stores) ELSE Len(c.rtl_stores)
      bad == {k \in 1..m : ~Matched(c.iss_stores[k], c.rtl_stores[k])}
      n   == IF bad = {} THEN m ELSE Min(bad) - 1
  IN  [c EXCEPT !.iss_stores = SubSeq(@, n + 1, Len(@)), !.rtl_stores = SubSeq(@, n + 1, Len(@)),
                !.passed = @ \/ \E k \in 1..n : c.rtl_stores[k].bad,
                !.stopped = bad # {}]

\* applying the queue without emptying it
apply_tlb_kept(c) ==
  [c EXCEPT !.iss.tlb = FoldLeft(LAMBDA t, w : [t EXCEPT ![w[1]] = w[2]], @, c.pend)]

\* keeping only the last write
apply_tlb_last(c) ==
  IF c.pend = <<>> THEN c
  ELSE [c EXCEPT !.iss.tlb[Last(c.pend)[1]] = Last(c.pend)[2], !.pend = <<>>]

apply_tlb(c) == [c EXCEPT !.iss.tlb = FoldLeft(LAMBDA t, w : [t EXCEPT ![w[1]] = w[2]], @, c.pend),
                          !.pend = <<>>]

\* a wrong store ends the run before slot 1 is checked and the TLB writes are replayed
second_slot(c, recs, r, shadow) ==
  IF c.stopped THEN c
  ELSE apply_tlb(IF Len(recs) >= 2 THEN checker_step(c, recs[2], r, shadow) ELSE c)

\* the checker's part of a cycle: slot 0, the stores, slot 1, the TLB
check_cycle(c, recs, r, shadow) ==
  second_slot(drain_store_check(IF Len(recs) >= 1 THEN checker_step(c, recs[1], r, shadow) ELSE c),
              recs, r, shadow)
-----------------------------------------------------------------------------
NoClob == [reg |-> 0, age |-> 0, seen |-> FALSE]

Init ==
  /\ cfg \in Configs /\ fault \in cfg.faults /\ clob = NoClob /\ injected = FALSE /\ artifact = {}
  /\ rtl = [pc |-> cfg.start, tgt |-> None, known |-> {}, gpr |-> [r \in Regs \cup {0} |-> 0],
            mem |-> [a \in Addrs |-> 0], tlb |-> [t \in Tlbs |-> None],
            epc |-> cfg.start, exl |-> FALSE, cause |-> 0]
  /\ wq = <<>>
  /\ chk = [iss |-> [pc |-> cfg.start, gpr |-> rtl.gpr, mem |-> rtl.mem, tlb |-> rtl.tlb,
                     epc |-> cfg.start],
            expect_ds |-> FALSE, ds_pc |-> 0, iss_stores |-> <<>>, rtl_stores |-> <<>>,
            pend |-> <<>>, settle |-> 0, resynced |-> FALSE, lastdev |-> FALSE, n |-> 0,
            recheck |-> FALSE, cand |-> {}, clobbers |-> {}, reported |-> 0, alarms |-> {},
            passed |-> FALSE, stopped |-> FALSE]

\* what may retire in one cycle: eret alone, and no load through the TLB beside the TLB write
\* before it, which the CP0 hazards of the architecture keep apart
Together(pcs) ==
  /\ \A k \in DOMAIN pcs : pcs[k] \in Pcs
  /\ (\E k \in DOMAIN pcs : Prog[pcs[k]].op = "eret") => Len(pcs) = 1
  /\ Len(pcs) = 2 /\ Prog[pcs[1]].op = "tlbw" =>
       LET i == Prog[pcs[2]] IN i.op # "mld" /\ (i.op = "br" => Prog[pcs[2] + 1].op # "mld")

TlbWrite(pc) == IF Prog[pc].op = "tlbw" THEN <<<<Prog[pc].a, Prog[pc].rd>>>> ELSE <<>>

\* the register of the injected clobber is written, or about to be by a delay slot
Touched(pc) == \/ Writes(Prog[pc]) /\ Prog[pc].rd = clob.reg
               \/ Prog[pc].op = "br" /\ Writes(Prog[pc + 1]) /\ Prog[pc + 1].rd = clob.reg

Flip(v) == (v + 1) % Cardinality(Vals)

\* one retirement of a core whose store, if bad, is corrupted
Landed(r, dv, bad) ==
  LET q == Retire(r, dv)
  IN  IF bad /\ Prog[r.pc].op = "st" THEN [q EXCEPT !.mem[Prog[r.pc].a] = Flip(@)] ELSE q

\* the store of a retirement on its way to the cache
Outgoing(s, bad) ==
  [j \in 1..Len(Store(s, s.pc)) |->
     [pc |-> s.pc, a |-> Prog[s.pc].a, bad |-> bad,
      d |-> IF bad THEN Flip(s.gpr[Prog[s.pc].rs]) ELSE s.gpr[Prog[s.pc].rs]]]

\* A cycle: the states in which the core retires are sts; flip is the retirement whose store
\* is corrupted (0: none); k stores reach the cache.  The checker is told of the stores and the
\* TLB writes first; its reports are those of this cycle.
Cycle(n, dv, flip, k) ==
  /\ ~chk.stopped /\ n <= cfg.width
  /\ flip # 0 => flip <= n /\ fault = "store" /\ ~injected
  /\ k <= Len(wq) + n
  /\ n >= 1 => ~Misses(rtl, Prog[rtl.pc])
  /\ \E s1 \in {IF n = 0 THEN rtl ELSE Landed(rtl, dv, flip = 1)} :
     \E sts \in {SubSeq(<<rtl, s1>>, 1, n)} :
     /\ Together([j \in 1..n |-> sts[j].pc])
     /\ n = 2 => ~Misses(s1, Prog[s1.pc])
     /\ dv # 0 => \E j \in 1..n : Prog[sts[j].pc].op \in {"ldx", "cop"}
     /\ flip # 0 => Prog[sts[flip].pc].op = "st"
     /\ rtl' = IF n <= 1 THEN s1 ELSE Landed(s1, dv, flip = 2)
     /\ \E out \in {wq \o FlattenSeq([j \in 1..n |-> Outgoing(sts[j], flip = j)])} :
          /\ k <= Len(out) /\ Len(out) - k <= cfg.lag
          /\ wq' = SubSeq(out, k + 1, Len(out))
          /\ \E told \in {tlb_wr_log(wr_log(chk, SubSeq(out, 1, k)),
                                     FlattenSeq([j \in 1..n |-> TlbWrite(sts[j].pc)]))},
                recs \in {[j \in 1..n |-> Record(sts[j], dv)]}, shadow \in {arch_gpr(rtl)} :
               chk' = check_cycle([told EXCEPT !.alarms = {}, !.clobbers = {}], recs, rtl, shadow)
     /\ artifact' = IF n = 2 THEN chk'.clobbers \cap {Record(rtl, dv).rd} ELSE {}
     /\ clob' = IF clob = NoClob \/ n = 0 THEN clob
                ELSE IF \E j \in 1..n : Touched(sts[j].pc) THEN NoClob
                ELSE [clob EXCEPT !.seen = @ \/ clob.reg \in chk'.clobbers,
                                  !.age = IF \/ (chk.expect_ds /\ rtl.pc = chk.ds_pc)
                                             \/ @ > cfg.every THEN @ ELSE @ + 1]
  /\ injected' = (injected \/ flip # 0)
  /\ UNCHANGED <<cfg, fault>>

TakeFault ==
  /\ ~chk.stopped /\ Misses(rtl, Prog[rtl.pc])
  /\ rtl' = Exception(rtl, Vec, 2)
  /\ UNCHANGED <<wq, chk, cfg, fault, injected, clob, artifact>>

\* an interrupt is not taken between a branch and its delay slot
TakeIrq ==
  /\ ~chk.stopped /\ ~rtl.exl /\ rtl.tgt = None
  /\ rtl' = Exception(rtl, Gen, 0)
  /\ UNCHANGED <<wq, chk, cfg, fault, injected, clob, artifact>>

\* a physical register changes although no instruction writes it
Clobber(r) ==
  /\ fault = "clobber" /\ ~injected /\ ~chk.stopped /\ rtl.tgt = None
  /\ rtl' = [rtl EXCEPT !.gpr[r] = Flip(@), !.known = @ \cup {r}]
  /\ injected' = TRUE /\ clob' = [NoClob EXCEPT !.reg = r]
  /\ UNCHANGED <<wq, chk, cfg, fault, artifact>>

\* the run has ended on a store divergence
Ended == chk.stopped /\ UNCHANGED vars

Next ==
  \/ \E n \in 0..2, dv \in Vals, flip \in 0..2, k \in 0..cfg.lag + 2 : Cycle(n, dv, flip, k)
  \/ TakeFault \/ TakeIrq
  \/ \E r \in Regs : Clobber(r)
  \/ Ended

Spec == Init /\ [][Next]_vars
-----------------------------------------------------------------------------
(* Properties *)

Healthy == fault = "none" /\ ~cfg.mapskip

\* The queues and flags have their types; a candidate is only kept while it is rechecked.
TypeOK ==
  /\ rtl.pc \in Pcs /\ rtl.tgt \in Pcs \cup {None} /\ rtl.epc \in Pcs
  /\ rtl.gpr \in [Regs \cup {0} -> Vals] /\ rtl.mem \in [Addrs -> Vals]
  /\ chk.iss.pc \in Pcs /\ chk.iss.gpr \in [Regs \cup {0} -> Vals]
  /\ Len(wq) <= cfg.lag /\ chk.settle \in 0..Settle /\ (chk.stopped \/ chk.pend = <<>>)
  /\ chk.recheck => chk.cand # {}
  /\ Cardinality(chk.clobbers) <= chk.reported /\ chk.reported <= ReportMax

\* What the checker reports of a core without a fault is one of two things, whatever the lag of
\* its stores, the device data and the moment of its interrupts; the run is never stopped.
\* A divergence: a device load or a coprocessor read in mapped code, which is_device_load and
\* chk_suppress never excuse (henry_tb.cpp:1259, 1157), unless it is into k0 or k1.
\* A clobber: only where two instructions retire in a cycle, and then of the register slot 0
\* wrote, since the step of slot 1 confirms it before the log of this cycle is seen, although
\* henry_tb.cpp:1173-1175 says that a boundary artifact clears.
NoFalseAlarm ==
  Healthy =>
    /\ ~chk.stopped
    /\ \A a \in chk.alarms : /\ a[1] = "DIVERGE" /\ a[2] \in Mapped
                             /\ Prog[a[2]].op \in {"ldx", "cop"} /\ Prog[a[2]].rd \notin Scratch
    /\ chk.clobbers = artifact

\* With no fault the ISS is in the core's state after every cycle, except that it has run
\* a pending delay slot already and has not yet been told of an exception.
Locked ==
  Healthy /\ rtl.tgt = None =>
    /\ chk.iss.gpr = rtl.gpr /\ chk.iss.mem = rtl.mem /\ chk.iss.tlb = rtl.tlb
    /\ rtl.pc \notin {Vec, Gen} => chk.iss.pc = rtl.pc

\* The store at which the run stops is the first wrong store, and no wrong store is passed
\* over (drain_store_check).
RootStore ==
  fault \in {"none", "store"} /\ ~cfg.mapskip =>
    ~chk.passed /\ (chk.stopped => Head(chk.rtl_stores).bad)

\* A register that changed with no instruction writing it is reported within one sampling
\* interval and its confirm step, as long as nothing overwrites it, unless two instructions
\* retire in a cycle and boundary artifacts have used up the reports (gpr_full_check, 1231).
ClobberReported ==
  cfg.every # 0 /\ clob.age > cfg.every =>
    clob.seen \/ (cfg.width = 2 /\ chk.reported = ReportMax)
=============================================================================
