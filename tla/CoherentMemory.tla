--------------------------- MODULE CoherentMemory ---------------------------
(***************************************************************************)
(* What DMA coherence promises: one memory, in which a CPU access and a    *)
(* device access each take effect at one instant, on a whole line or a     *)
(* whole 64-byte access.  A line belongs to the CPU or, between the driver *)
(* handing it over and taking it back, to the device (the rule an OS for   *)
(* non-coherent DMA follows).                                              *)
(***************************************************************************)
CONSTANTS Lines, Bytes, Vals

Line == [Bytes -> Vals]

VARIABLES
  mem,   \* the one memory
  own,   \* the lines that belong to the device
  ans    \* the answer being given in this step: to a CPU load or to the device

cmvars == <<mem, own, ans>>

\* a store of v to the bytes of mask
Merge(old, mask, v) == [b \in Bytes |-> IF b \in mask THEN v ELSE old[b]]

NoAns == [who |-> "none", data |-> [l \in {} |-> 0]]

CMInit == mem \in [Lines -> Line] /\ own \subseteq Lines /\ ans = NoAns

\* an answer carries what the memory holds
Answer(who, ls) == ans' = [who |-> who, data |-> [l \in ls |-> mem[l]]]
Quiet == ans' = NoAns

GiveLine(l) == own' = own \cup {l} /\ Quiet /\ UNCHANGED mem
TakeLine(l) == own' = own \ {l} /\ Quiet /\ UNCHANGED mem

LoadLine(l) == l \notin own /\ Answer("cpu", {l}) /\ UNCHANGED <<mem, own>>

StoreLine(l, b, v) ==
  /\ l \notin own
  /\ mem' = [mem EXCEPT ![l] = Merge(@, {b}, v)]
  /\ Quiet /\ UNCHANGED own

DeviceLoad(ls) == ls \subseteq own /\ Answer("dev", ls) /\ UNCHANGED <<mem, own>>

DeviceStore(ls, mask, v) ==
  /\ ls \subseteq own
  /\ mem' = [l \in Lines |-> IF l \in ls THEN Merge(mem[l], mask, v) ELSE mem[l]]
  /\ Quiet /\ UNCHANGED own

CMNext ==
  \/ Quiet /\ UNCHANGED <<mem, own>>
  \/ \E l \in Lines : GiveLine(l) \/ TakeLine(l) \/ LoadLine(l)
  \/ \E l \in Lines, b \in Bytes, v \in Vals : StoreLine(l, b, v)
  \/ \E ls \in SUBSET Lines : DeviceLoad(ls)
  \/ \E ls \in SUBSET Lines, mask \in SUBSET Bytes, v \in Vals : DeviceStore(ls, mask, v)

CMSpec == CMInit /\ [][CMNext]_cmvars
=============================================================================
