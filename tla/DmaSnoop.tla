------------------------------ MODULE DmaSnoop ------------------------------
(***************************************************************************)
(* dma_snoop_shim between a DMA engine, the core's L2 snoop port and DRAM. *)
(*                                                                         *)
(* The shim's state machine is dma_snoop_shim.sv's.  The core (external)   *)
(* is one write-back cache: its refills read DRAM some time before they    *)
(* are installed, it refills any cacheable line at any time (wrong-path    *)
(* loads included), and it acknowledges a snoop only when no refill is in  *)
(* flight.  A snoop writes back a dirty copy and drops the line.           *)
(* A line's bytes are kept apart, since device stores are byte-masked.     *)
(***************************************************************************)
EXTENDS Integers, Sequences

CONSTANTS
  Lines,     \* 16-byte lines
  Staging,   \* the ones in the ARM staging window, never cached
  Bytes,     \* byte lanes of a line
  Vals,      \* byte values
  Masks,     \* byte masks the engine stores with
  NSub,      \* 16-byte lines of a 64-byte access (4)
  Accesses   \* what the engine may access: one line, or the sub-lines of 64 bytes

ASSUME SnoopConstants ==
  /\ Staging \subseteq Lines /\ Masks \subseteq SUBSET Bytes /\ Vals # {}
  /\ NSub \in Nat \ {0, 1}
  /\ \A a \in Accesses :
       /\ a \in Seq(Lines) /\ Len(a) \in {1, NSub}
       /\ \A i, j \in 1 .. Len(a) : a[i] = a[j] => i = j
       /\ (\A i \in 1 .. Len(a) : a[i] \in Staging) \/ (\A i \in 1 .. Len(a) : a[i] \notin Staging)

VARIABLES
  state,   \* r_state
  sub,     \* r_sub: the line being snooped within a 64-byte access
  op,      \* the engine's request: "none", "load" or "store"
  acc,     \* its lines (up_req_addr, up_req_opcode), one entry per snoop
  mask,    \* up_req_mask
  wval,    \* up_req_store_data
  done,    \* DRAM has performed the forwarded access
  rdata,   \* what it loaded (r_load_data)
  dram,
  cache,   \* the core's copy of each line
  fill,    \* the refill in flight: no line or one, with the data read
  own,     \* lines the driver has handed to the device, and the staging window
  ans      \* the answer given in this step, to a CPU load or to the engine

shim == <<state, sub, op, acc, mask, wval, done, rdata>>
vars == <<shim, dram, cache, fill, own, ans>>

\* the memory the program means: a dirty copy, or else what DRAM holds
Mem == [l \in Lines |-> IF cache[l].st = "D" THEN cache[l].val ELSE dram[l]]

CM == INSTANCE CoherentMemory WITH mem <- Mem

Line == [Bytes -> Vals]
NoVal == CHOOSE v \in Vals : TRUE
Blank == [b \in Bytes |-> NoVal]     \* data nothing looks at
NoAns == [who |-> "none", data |-> [l \in {} |-> 0]]
NoData == [l \in {} |-> 0]
Quiet == ans' = NoAns
Merge(old, m, v) == [b \in Bytes |-> IF b \in m THEN v ELSE old[b]]
ShimStates == {"S_IDLE", "S_PRE", "S_PRE_WAIT", "S_FWD", "S_POST", "S_POST_WAIT", "S_RSP"}
Waits == {"S_PRE_WAIT", "S_POST_WAIT"}

\* the lines of the engine's access
AccLines == {acc[i] : i \in 1 .. Len(acc)}
IsStaging == acc[1] \in Staging
Is64 == Len(acc) = NSub

\* w_line: the line being snooped (r_sub means nothing to a 16-byte access)
SnoopLine == IF Is64 THEN acc[sub + 1] ELSE acc[1]

LastSub == ~Is64 \/ sub = NSub - 1

NextSubNoWrap == sub + 1

\* r_sub + 1: it wraps after the last line of 64 bytes, and is left at 1 by a
\* 16-byte access
NextSub == IF sub = NSub - 1 THEN 0 ELSE sub + 1

Init ==
  /\ state = "S_IDLE" /\ sub = 0 /\ op = "none" /\ done = FALSE
  /\ acc \in Accesses /\ mask = {} /\ wval = NoVal
  /\ rdata = NoData
  /\ dram \in [Lines -> Line]
  /\ cache = [l \in Lines |-> [st |-> "I", val |-> Blank]]
  /\ fill = {}
  /\ own = Staging /\ ans = NoAns

(***************************************************************************)
(* The shim                                                                *)
(***************************************************************************)
Request == <<op, acc, mask, wval>>   \* held stable by the engine until its response
Memory == <<dram, cache, fill, own>>

Start ==
  /\ state = "S_IDLE" /\ op # "none"
  /\ state' = (IF IsStaging THEN "S_FWD" ELSE "S_PRE") /\ sub' = 0
  /\ Quiet /\ UNCHANGED <<Request, done, rdata, Memory>>

\* the L2 accepts the snoop: only when it is idle
SnoopAck ==
  /\ fill = {}
  /\ \/ state = "S_PRE" /\ state' = "S_PRE_WAIT"
     \/ state = "S_POST" /\ state' = "S_POST_WAIT"
  /\ Quiet /\ UNCHANGED <<sub, Request, done, rdata, Memory>>

\* WBINV of one line at the L2
Wbinv(l) ==
  /\ dram' = IF cache[l].st = "D" THEN [dram EXCEPT ![l] = cache[l].val] ELSE dram
  /\ cache' = [cache EXCEPT ![l] = [st |-> "I", val |-> Blank]]

PreDoneFirst ==
  /\ state = "S_PRE_WAIT"
  /\ Wbinv(SnoopLine)
  /\ sub' = NextSub /\ state' = "S_FWD"
  /\ Quiet /\ UNCHANGED <<Request, done, rdata, fill, own>>

PreDone ==
  /\ state = "S_PRE_WAIT"
  /\ Wbinv(SnoopLine)
  /\ state' = (IF LastSub THEN "S_FWD" ELSE "S_PRE") /\ sub' = NextSub
  /\ Quiet /\ UNCHANGED <<Request, done, rdata, fill, own>>

\* DRAM performs the forwarded access
FwdDram ==
  /\ state = "S_FWD" /\ ~done /\ done' = TRUE
  /\ IF op = "store"
     THEN /\ dram' = [l \in Lines |-> IF l \in AccLines THEN Merge(dram[l], mask, wval) ELSE dram[l]]
          /\ UNCHANGED rdata
     ELSE rdata' = [l \in AccLines |-> dram[l]] /\ UNCHANGED dram
  /\ Quiet /\ UNCHANGED <<state, sub, Request, cache, fill, own>>

FwdRspNoPost ==
  /\ state = "S_FWD" /\ done /\ done' = FALSE
  /\ state' = "S_RSP" /\ sub' = 0
  /\ Quiet /\ UNCHANGED <<Request, rdata, Memory>>

FwdRsp ==
  /\ state = "S_FWD" /\ done /\ done' = FALSE
  /\ state' = (IF op = "store" /\ ~IsStaging THEN "S_POST" ELSE "S_RSP") /\ sub' = 0
  /\ Quiet /\ UNCHANGED <<Request, rdata, Memory>>

PostDone ==
  /\ state = "S_POST_WAIT"
  /\ Wbinv(SnoopLine)
  /\ state' = (IF LastSub THEN "S_RSP" ELSE "S_POST") /\ sub' = NextSub
  /\ Quiet /\ UNCHANGED <<Request, done, rdata, fill, own>>

Rsp ==
  /\ state = "S_RSP" /\ state' = "S_IDLE" /\ op' = "none"
  /\ ans' = IF op = "load" THEN [who |-> "dev", data |-> rdata] ELSE NoAns
  /\ rdata' = NoData /\ mask' = {} /\ wval' = NoVal
  /\ UNCHANGED <<sub, acc, done, Memory>>

(***************************************************************************)
(* The engine, the core and the driver (external to the shim)              *)
(***************************************************************************)
EngineRequest(o, a, m, v) ==
  /\ o = "load" => m = {} /\ v = NoVal
  /\ op = "none" /\ state = "S_IDLE" /\ {a[i] : i \in 1 .. Len(a)} \subseteq own
  /\ op' = o /\ acc' = a /\ mask' = m /\ wval' = v
  /\ Quiet /\ UNCHANGED <<state, sub, done, rdata, Memory>>

\* the L2 is idle: no refill in flight, no snoop accepted
L2Idle == fill = {} /\ state \notin Waits

FillStart(l) ==
  /\ L2Idle /\ l \notin Staging /\ cache[l].st = "I"
  /\ fill' = {[line |-> l, val |-> dram[l]]}
  /\ Quiet /\ UNCHANGED <<shim, dram, cache, own>>

FillEnd ==
  /\ \E f \in fill : cache' = [cache EXCEPT ![f.line] = [st |-> "C", val |-> f.val]]
  /\ fill' = {}
  /\ Quiet /\ UNCHANGED <<shim, dram, own>>

Evict(l) ==
  /\ L2Idle /\ cache[l].st # "I" /\ Wbinv(l)
  /\ Quiet /\ UNCHANGED <<shim, fill, own>>

\* a committed load or store: a hit, on a line the CPU owns
CpuLoad(l) ==
  /\ l \notin own /\ cache[l].st # "I"
  /\ ans' = [who |-> "cpu", data |-> [x \in {l} |-> cache[x].val]]
  /\ UNCHANGED <<shim, Memory>>

CpuStore(l, b, v) ==
  /\ l \notin own /\ cache[l].st # "I"
  /\ cache' = [cache EXCEPT ![l] = [st |-> "D", val |-> Merge(cache[l].val, {b}, v)]]
  /\ Quiet /\ UNCHANGED <<shim, dram, fill, own>>

Give(l) == l \notin own /\ own' = own \cup {l} /\ Quiet /\ UNCHANGED <<shim, dram, cache, fill>>

\* the driver takes a line back once the engine has its response
Take(l) ==
  /\ l \in own \ Staging /\ (op # "none" => l \notin AccLines)
  /\ own' = own \ {l} /\ Quiet /\ UNCHANGED <<shim, dram, cache, fill>>

ShimNext == Start \/ SnoopAck \/ PreDone \/ FwdDram \/ FwdRsp \/ PostDone \/ Rsp

CoreNext ==
  \/ FillEnd
  \/ \E l \in Lines : FillStart(l) \/ Evict(l) \/ CpuLoad(l) \/ Give(l) \/ Take(l)
  \/ \E l \in Lines, b \in Bytes, v \in Vals : CpuStore(l, b, v)
  \/ \E o \in {"load", "store"}, a \in Accesses, m \in Masks \cup {{}}, v \in Vals : EngineRequest(o, a, m, v)

Next == ShimNext \/ CoreNext

Spec == Init /\ [][Next]_vars

(***************************************************************************)
(* Properties                                                              *)
(***************************************************************************)
\* Type invariant.
TypeOK ==
  /\ state \in ShimStates /\ sub \in 0 .. NSub - 1
  /\ op \in {"none", "load", "store"} /\ acc \in Accesses /\ mask \subseteq Bytes /\ wval \in Vals
  /\ done \in BOOLEAN
  /\ dram \in [Lines -> Line] /\ cache \in [Lines -> [st : {"I", "C", "D"}, val : Line]]
  /\ fill \subseteq [line : Lines \ Staging, val : Line]
  /\ Staging \subseteq own /\ own \subseteq Lines

\* lines the shim has snooped for the access under way, up to its POST
Snooped ==
  CASE state \in {"S_PRE", "S_PRE_WAIT"} -> {acc[i] : i \in 1 .. sub}
    [] state \in {"S_FWD", "S_POST", "S_POST_WAIT"} -> AccLines
    [] OTHER -> {}

\* lines whose POST snoop is still to come after the store reached DRAM
PostDue ==
  CASE state = "S_FWD" /\ done /\ op = "store" -> AccLines
    [] state \in {"S_POST", "S_POST_WAIT"} -> {acc[i] : i \in sub + 1 .. Len(acc)}
    [] OTHER -> {}

\* DRAM is current for the device: a line snooped by PRE has no dirty copy
\* until the access is over, so a masked store merges with current bytes and
\* POST never writes an old line over the device's data.
NoDirtyAfterPre == \A l \in Snooped : cache[l].st # "D"

\* No stale copy survives the response: the core holds, or is about to
\* install, old data only for lines whose POST snoop is still to come.
NoStaleCopy ==
  \A l \in Lines \ PostDue :
    /\ cache[l].st = "C" => cache[l].val = dram[l]
    /\ \A f \in fill : f.line = l => f.val = dram[l]

\* The shim's contract between its snoops: both of the above (PRE and POST of the access).
ShimContract == NoDirtyAfterPre /\ NoStaleCopy

\* The shim, the caches and DRAM together are the one memory CoherentMemory
\* describes: every CPU load and every device load gets the newest value, and
\* no store of either side is lost.
Coherent == CM!CMSpec
=============================================================================
