-------------------------- MODULE MemArbiterProofs --------------------------
(***************************************************************************)
(* Proofs about mem_arbiter for any number of masters, slots and any map   *)
(* that gives every master a slot.                                         *)
(***************************************************************************)
EXTENDS MemArbiter, TLAPS

\* Wrapping a scan position, and stepping past a slot, stay within the slots.
LEMMA SlotArith ==
  ASSUME NEW s \in Slots, NEW k \in Slots
  PROVE  /\ Wrap(s + k) \in Slots
         /\ After(s) \in Slots
         /\ SLOT_MAP[Wrap(s + k)] \in Masters
BY ArbConstants, SMT DEF Slots, Wrap, After

\* Moving the pointer past the k-th slot of a scan brings every later slot of
\* that scan k + 1 positions nearer.
LEMMA ScanShift ==
  ASSUME NEW s \in Slots, NEW k \in Slots, NEW j \in Slots, k < j
  PROVE  /\ j - k - 1 \in Slots
         /\ Wrap(After(Wrap(s + k)) + (j - k - 1)) = Wrap(s + j)
BY ArbConstants, SMT DEF Slots, Wrap, After

\* Every slot is ahead of the pointer: a scan reaches it.
LEMMA ScanReaches ==
  ASSUME NEW s \in Slots, NEW x \in Slots
  PROVE  \E k \in Slots : Wrap(s + k) = x
<1>1. CASE x >= s
  <2>1. x - s \in Slots /\ Wrap(s + (x - s)) = x
    BY <1>1, ArbConstants, SMT DEF Slots, Wrap
  <2> QED BY <2>1
<1>2. CASE x < s
  <2>1. x + NSLOT - s \in Slots /\ Wrap(s + (x + NSLOT - s)) = x
    BY <1>2, ArbConstants, SMT DEF Slots, Wrap
  <2> QED BY <2>1
<1> QED BY <1>1, <1>2, ArbConstants, SMT DEF Slots

-----------------------------------------------------------------------------
\* The arbiter's registers, the masters and the lane keep their types: the
\* wrapping scan never indexes SLOT_MAP outside the slots.
THEOREM TypeCorrect == Spec => []TypeOK
<1>1. Init => TypeOK
  BY ArbConstants, SMT DEF Init, TypeOK, States, Slots
<1>2. TypeOK /\ [Next]_vars => TypeOK'
  <2> SUFFICES ASSUME TypeOK, [Next]_vars PROVE TypeOK'
    OBVIOUS
  <2>1. CASE UNCHANGED vars
    BY <2>1 DEF TypeOK, vars
  <2>2. CASE Next
    <3>1. PICK raise \in SUBSET Masters, acc \in BOOLEAN, rsp \in BOOLEAN : Clock(raise, acc, rsp)
      BY <2>2, Zenon DEF Next
    <3>2. state' \in States /\ owner' \in Masters /\ slot' \in Slots /\ passed' \in [Masters -> Nat]
      <4>1. CASE Grant
        <5>1. PICK k \in Slots : /\ owner' = SLOT_MAP[Wrap(slot + k)]
                                 /\ slot' = After(Wrap(slot + k))
                                 /\ passed' = Granted(SLOT_MAP[Wrap(slot + k)])
          BY <4>1 DEF Grant
        <5>2. Wrap(slot + k) \in Slots /\ owner' \in Masters
          BY <5>1, SlotArith DEF TypeOK
        <5>3. slot' \in Slots
          BY <5>1, <5>2, SlotArith
        <5>4. passed' \in [Masters -> Nat]
          BY <5>1, SMT DEF Granted, TypeOK
        <5> QED BY <4>1, <5>2, <5>3, <5>4 DEF Grant, States
      <4>2. CASE ~Grant
        BY <3>1, <4>2 DEF Clock, ArbStep, Busy, Turn, Hold, TypeOK, States
      <4> QED BY <4>1, <4>2
    <3>3. req' \in [Masters -> BOOLEAN] /\ tag' \in [Masters -> {0, 1}]
      BY <3>1, SMT DEF Clock, MasterStep, TypeOK
    <3>4. port' \in {"ready", "work", "low"} /\ job' \in [m : Masters, tag : {0, 1}]
      BY <3>1, SMT DEF Clock, LaneStep, Accept, TypeOK
    <3> QED BY <3>2, <3>3, <3>4 DEF TypeOK
  <2> QED BY <2>1, <2>2
<1> QED BY <1>1, <1>2, PTL DEF Spec

-----------------------------------------------------------------------------
\* What ties the arbiter's state to the lane's: the lane is ready when the
\* arbiter is IDLE and waits for valid to drop in TURN; the owner's request
\* stays up while BUSY, and is the one the lane works on.
LaneInv ==
  /\ state = "IDLE" => port = "ready"
  /\ state = "TURN" => port = "low"
  /\ state = "BUSY" => port \in {"ready", "work"} /\ req[owner]
  /\ port = "work" => state = "BUSY" /\ job = [m |-> owner, tag |-> tag[owner]]

\* The first requesting slot of a scan is unique.
LEMMA FoundUnique ==
  ASSUME NEW j \in Slots, NEW k \in Slots, Found(j), Found(k)
  PROVE  j = k
BY ArbConstants, SMT DEF Found, Slots

\* Every clock keeps arbiter and lane in step, whoever raises a request and
\* whenever the lane accepts or answers.
LEMMA LaneInvStep ==
  ASSUME TypeOK, LaneInv, [Next]_vars
  PROVE  LaneInv'
<1>1. CASE UNCHANGED vars
  BY <1>1 DEF LaneInv, vars
<1>2. CASE Next
  <2>1. PICK raise \in SUBSET Masters, acc \in BOOLEAN, rsp \in BOOLEAN : Clock(raise, acc, rsp)
    BY <1>2, Zenon DEF Next
  <2>2. rsp => port = "work" /\ state = "BUSY"
    BY <2>1 DEF Clock, LaneStep, LaneInv
  <2>3. CASE Grant
    <3>1. PICK k \in Slots : Found(k) /\ owner' = SLOT_MAP[Wrap(slot + k)]
      BY <2>3 DEF Grant
    <3>2. state = "IDLE" /\ state' = "BUSY" /\ port = "ready" /\ ~rsp
      BY <2>2, <2>3 DEF Grant, LaneInv
    <3>3. owner' \in Masters /\ req[owner']
      BY <3>1, SlotArith DEF Found, TypeOK
    <3>4. req'[owner'] /\ tag'[owner'] = tag[owner']
      BY <2>1, <3>2, <3>3, SMT DEF Clock, MasterStep, Rsp, TypeOK
    <3>5. port' \in {"ready", "work"}
      BY <2>1, <3>2 DEF Clock, LaneStep, Accept
    <3>6. ASSUME port' = "work" PROVE job' = [m |-> owner', tag |-> tag'[owner']]
      <4>1. PICK m \in Masters : CurOwner(m) /\ job' = [m |-> m, tag |-> tag[m]]
        BY <2>1, <3>2, <3>6 DEF Clock, LaneStep, Accept
      <4>2. PICK j \in Slots : Found(j) /\ m = SLOT_MAP[Wrap(slot + j)]
        BY <3>2, <4>1 DEF CurOwner
      <4>3. m = owner'
        BY <3>1, <4>2, FoundUnique
      <4> QED BY <3>4, <4>1, <4>3
    <3> QED BY <3>2, <3>4, <3>5, <3>6 DEF LaneInv
  <2>4. CASE state = "IDLE" /\ ~AnyReq /\ UNCHANGED state /\ Hold
    <3>1. ~acc /\ ~rsp
      BY <2>1, <2>2, <2>4 DEF Clock, LaneStep, Accept, MemReqValid
    <3> QED BY <2>1, <2>4, <3>1 DEF Clock, LaneStep, LaneInv
  <2>5. CASE Busy(rsp)
    <3>1. CASE rsp
      BY <2>1, <2>5, <3>1 DEF Clock, LaneStep, Busy, LaneInv
    <3>2. CASE ~rsp
      <4>1. state = "BUSY" /\ state' = "BUSY" /\ owner' = owner /\ owner \in Masters /\ req[owner]
        BY <2>5, <3>2 DEF Busy, Hold, LaneInv, TypeOK
      <4>2. req'[owner] /\ tag'[owner] = tag[owner]
        BY <2>1, <3>2, <4>1, SMT DEF Clock, MasterStep, Rsp, TypeOK
      <4>3. (port' = port /\ job' = job) \/ Accept
        BY <2>1, <3>2, <4>1 DEF Clock, LaneStep, LaneInv
      <4>4. CASE Accept
        BY <4>1, <4>2, <4>4 DEF Accept, CurOwner, LaneInv
      <4>5. CASE port' = port /\ job' = job
        BY <4>1, <4>2, <4>5 DEF LaneInv
      <4> QED BY <4>3, <4>4, <4>5
    <3> QED BY <3>1, <3>2
  <2>6. CASE Turn
    <3>1. state = "TURN" /\ state' = "IDLE" /\ port = "low" /\ ~rsp
      BY <2>2, <2>6 DEF Turn, LaneInv
    <3>2. ~MemReqValid
      BY <3>1 DEF MemReqValid
    <3> QED BY <2>1, <3>1, <3>2 DEF Clock, LaneStep, Accept, LaneInv
  <2> QED BY <2>1, <2>3, <2>4, <2>5, <2>6 DEF Clock, ArbStep
<1> QED BY <1>1, <1>2

\* The lane's answer always goes to the master whose current request the lane
\* performed, and the valid-low cycle leaves the lane ready for the next one.
THEOREM AnswerCorrect == Spec => [](AnswerToOwner /\ LaneReady)
<1>1. Init => LaneInv
  BY DEF Init, LaneInv
<1>2. TypeOK /\ LaneInv /\ [Next]_vars => LaneInv'
  BY LaneInvStep
<1>3. LaneInv => AnswerToOwner /\ LaneReady
  BY DEF LaneInv, AnswerToOwner, LaneReady
<1> QED BY <1>1, <1>2, <1>3, TypeCorrect, PTL DEF Spec

-----------------------------------------------------------------------------
\* A master that does not wait has not been passed since its last grant.
Fresh == \A m \in Masters : ~Waiting(m) => passed[m] = 0

\* A slot of every master lies ahead of any pointer position.
LEMMA OwnSlotAhead ==
  ASSUME NEW s \in Slots, NEW m \in Masters
  PROVE  \E k \in Slots : SLOT_MAP[Wrap(s + k)] = m
<1>1. PICK x \in Slots : SLOT_MAP[x] = m
  BY ArbConstants
<1>2. PICK k \in Slots : Wrap(s + k) = x
  BY ScanReaches
<1> QED BY <1>1, <1>2

\* Every step keeps a slot of each waiting master near enough ahead: a grant to
\* another moves the pointer past slots that are not the waiting master's.
LEMMA BypassStep ==
  ASSUME TypeOK, TypeOK', Fresh, SlotAhead, [Next]_vars
  PROVE  Fresh' /\ SlotAhead'
<1>1. CASE UNCHANGED vars
  BY <1>1 DEF Fresh, SlotAhead, Waiting, vars
<1>2. CASE Next
  <2>1. PICK raise \in SUBSET Masters, acc \in BOOLEAN, rsp \in BOOLEAN : Clock(raise, acc, rsp)
    BY <1>2, Zenon DEF Next
  <2> SUFFICES ASSUME NEW m \in Masters
               PROVE  /\ ~Waiting(m)' => passed'[m] = 0
                      /\ Waiting(m)' => \E k \in Slots : /\ SLOT_MAP[Wrap(slot' + k)] = m
                                                        /\ passed'[m] + k <= NSLOT - 1
    BY DEF Fresh, SlotAhead
  <2>2. ASSUME passed'[m] = 0
        PROVE  \E k \in Slots : SLOT_MAP[Wrap(slot' + k)] = m /\ passed'[m] + k <= NSLOT - 1
    <3>1. PICK k \in Slots : SLOT_MAP[Wrap(slot' + k)] = m
      BY OwnSlotAhead DEF TypeOK
    <3>2. passed'[m] + k <= NSLOT - 1
      BY <2>2, ArbConstants, SMT DEF Slots
    <3> QED BY <3>1, <3>2
  <2>3. CASE Grant
    <3>1. PICK k \in Slots : /\ Found(k)
                             /\ owner' = SLOT_MAP[Wrap(slot + k)] /\ slot' = After(Wrap(slot + k))
                             /\ passed' = Granted(SLOT_MAP[Wrap(slot + k)])
      BY <2>3 DEF Grant
    <3>2. state = "IDLE" /\ state' = "BUSY"
      BY <2>3 DEF Grant
    <3>3. CASE owner' = m \/ ~req[m]
      <4>1. passed'[m] = 0
        BY <3>1, <3>2, <3>3 DEF Granted, Fresh, Waiting, TypeOK
      <4> QED BY <4>1, <2>2
    <3>4. CASE owner' # m /\ req[m]
      <4>1. PICK j \in Slots : SLOT_MAP[Wrap(slot + j)] = m /\ passed[m] + j <= NSLOT - 1
        BY <3>2, <3>4 DEF SlotAhead, Waiting
      <4>2. k < j
        <5>1. ~(j < k)
          BY <3>1, <3>4, <4>1 DEF Found
        <5>2. j # k
          BY <3>1, <3>4, <4>1
        <5> QED BY <5>1, <5>2, ArbConstants, SMT DEF Slots
      <4>3. j - k - 1 \in Slots /\ SLOT_MAP[Wrap(slot' + (j - k - 1))] = m
        BY <3>1, <4>1, <4>2, ScanShift DEF TypeOK
      <4>4. passed'[m] = passed[m] + 1
        BY <3>1, <3>4 DEF Granted
      <4>5. passed'[m] + (j - k - 1) <= NSLOT - 1
        <5>1. passed[m] \in Nat
          BY DEF TypeOK
        <5>2. j \in Nat /\ k \in Nat /\ NSLOT \in Nat
          BY ArbConstants, SMT DEF Slots
        <5>3. passed[m] + j <= NSLOT - 1
          BY <4>1
        <5> QED BY ONLY <5>1, <5>2, <5>3, <4>4, SMT
      <4>6. Waiting(m)'
        <5>1. req'[m]
          BY <2>1, <3>2, <3>4, SMT DEF Clock, MasterStep, Rsp, TypeOK
        <5> QED BY <5>1, <3>4 DEF Waiting
      <4> QED BY <4>3, <4>5, <4>6
    <3> QED BY <3>3, <3>4
  <2>4. CASE ~Grant
    <3>1. UNCHANGED <<owner, slot, passed>>
      BY <2>1, <2>4 DEF Clock, ArbStep, Busy, Turn, Hold
    <3>2. CASE Waiting(m)
      <4>1. \E k \in Slots : SLOT_MAP[Wrap(slot' + k)] = m /\ passed'[m] + k <= NSLOT - 1
        BY <3>1, <3>2 DEF SlotAhead
      <4>2. Waiting(m)'
        <5>1. req'[m]
          BY <2>1, <3>2, SMT DEF Clock, MasterStep, Rsp, Waiting, TypeOK
        <5>2. ~(state' = "BUSY" /\ owner' = m)
          BY <2>1, <2>4, <3>1, <3>2 DEF Clock, ArbStep, Busy, Turn, Waiting
        <5> QED BY <5>1, <5>2 DEF Waiting
      <4> QED BY <4>1, <4>2
    <3>3. CASE ~Waiting(m)
      <4>1. passed'[m] = 0
        BY <3>1, <3>3 DEF Fresh
      <4> QED BY <4>1, <2>2
    <3> QED BY <3>2, <3>3
  <2> QED BY <2>3, <2>4
<1> QED BY <1>1, <1>2

\* "Every master is guaranteed a turn within NSLOT rounds": whatever the slot
\* map and the traffic, a waiting master is passed at most NSLOT - 1 times.
THEOREM TurnWithinNSLOT == Spec => []BoundedBypass
<1>1. Init => Fresh /\ SlotAhead
  BY DEF Init, Fresh, SlotAhead, Waiting
<1>2. TypeOK /\ TypeOK' /\ (Fresh /\ SlotAhead) /\ [Next]_vars => (Fresh /\ SlotAhead)'
  BY BypassStep
<1>3. TypeOK /\ SlotAhead => BoundedBypass
  <2> SUFFICES ASSUME TypeOK, SlotAhead, NEW m \in Masters, Waiting(m) PROVE passed[m] <= NSLOT - 1
    BY DEF BoundedBypass
  <2>1. PICK k \in Slots : passed[m] + k <= NSLOT - 1
    BY DEF SlotAhead
  <2> QED BY <2>1, ArbConstants, SMT DEF Slots, TypeOK
<1> QED BY <1>1, <1>2, <1>3, TypeCorrect, PTL DEF Spec
=============================================================================
