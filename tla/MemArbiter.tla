----------------------------- MODULE MemArbiter -----------------------------
(***************************************************************************)
(* mem_arbiter: the slot-based weighted round-robin arbiter that puts N    *)
(* one-outstanding masters on one DRAM lane.                               *)
(*                                                                         *)
(* One step is one clock.  In a cycle each idle master may raise a request *)
(* (it then holds it until its response), and the lane (the AXI master, or *)
(* the DRAM of henry_tb) may accept the presented request or answer the    *)
(* one it accepted.  The lane takes a new request only after it has seen   *)
(* mem_req_valid low.  Addresses, data and opcodes are abstracted to one   *)
(* tag bit per master, which tells a request from the master's next one.   *)
(***************************************************************************)
EXTENDS Integers

CONSTANTS
  Masters,   \* the masters of this lane
  NSLOT,     \* round-robin slots
  SLOT_MAP   \* the master each slot belongs to

Slots == 0 .. NSLOT - 1

\* Every master owns a slot, as in the instances u_arb0 and u_arb1 of henry_soc.
ASSUME ArbConstants ==
  /\ NSLOT \in Nat \ {0}
  /\ SLOT_MAP \in [Slots -> Masters]
  /\ \A m \in Masters : \E s \in Slots : SLOT_MAP[s] = m

VARIABLES
  state,   \* r_arb_state
  owner,   \* r_owner
  slot,    \* r_slot
  req,     \* m_req_valid
  tag,     \* which request of its own each master is making
  port,    \* the lane: "ready", "work" on job, or "low" (waits for valid to drop)
  job,     \* the request the lane accepted last
  passed   \* history: grants to others since each master's request was raised

vars == <<state, owner, slot, req, tag, port, job, passed>>

States == {"IDLE", "BUSY", "TURN"}

AfterNoWrap(s) == s + 1

\* slot + k, wrapped as the scan wraps it; the slot after s
Wrap(ws) == IF ws >= NSLOT THEN ws - NSLOT ELSE ws
After(s) == IF s = NSLOT - 1 THEN 0 ELSE s + 1

Init ==
  /\ state = "IDLE" /\ owner = SLOT_MAP[0] /\ slot = 0
  /\ req = [m \in Masters |-> FALSE] /\ tag = [m \in Masters |-> 0]
  /\ port = "ready" /\ job = [m |-> SLOT_MAP[0], tag |-> 0]
  /\ passed = [m \in Masters |-> 0]

AnyReq == \E m \in Masters : req[m]
MemReqValid == (state = "IDLE" /\ AnyReq) \/ state = "BUSY"

FoundLast(k) ==
  /\ req[SLOT_MAP[Wrap(slot + k)]]
  /\ \A j \in Slots : j > k => ~req[SLOT_MAP[Wrap(slot + j)]]

\* the k-th slot from the pointer is the first whose owner is requesting
Found(k) ==
  /\ req[SLOT_MAP[Wrap(slot + k)]]
  /\ \A j \in Slots : j < k => ~req[SLOT_MAP[Wrap(slot + j)]]

CurOwnerLatched(m) == m = owner

\* the owner whose request is on the bus in this cycle
CurOwner(m) ==
  IF state = "IDLE" THEN \E k \in Slots : Found(k) /\ m = SLOT_MAP[Wrap(slot + k)]
                    ELSE m = owner

\* each waiting master other than the one granted has been passed once more
Granted(m) == [x \in Masters |-> IF x = m THEN 0 ELSE IF req[x] THEN passed[x] + 1 ELSE passed[x]]

Grant ==
  /\ state = "IDLE"
  /\ \E k \in Slots :
       /\ Found(k)
       /\ owner' = SLOT_MAP[Wrap(slot + k)] /\ slot' = After(Wrap(slot + k))
       /\ passed' = Granted(SLOT_MAP[Wrap(slot + k)])
  /\ state' = "BUSY"

Hold == UNCHANGED <<owner, slot, passed>>

BusyNoTurn(rsp) == state = "BUSY" /\ state' = (IF rsp THEN "IDLE" ELSE "BUSY") /\ Hold

Busy(rsp) == state = "BUSY" /\ state' = (IF rsp THEN "TURN" ELSE "BUSY") /\ Hold

Turn == state = "TURN" /\ state' = "IDLE" /\ Hold

ArbStep(rsp) ==
  \/ Grant
  \/ state = "IDLE" /\ ~AnyReq /\ UNCHANGED state /\ Hold
  \/ Busy(rsp)
  \/ Turn

\* m_rsp_valid: the response goes to the latched owner, in BUSY only
Rsp(m, rsp) == rsp /\ state = "BUSY" /\ m = owner

(***************************************************************************)
(* The masters and the lane (external to mem_arbiter)                      *)
(***************************************************************************)
\* a master raises a request when it has none, or right after its response
MasterStep(raise, rsp) ==
  /\ \A m \in raise : ~req[m] \/ Rsp(m, rsp)
  /\ req' = [m \in Masters |-> m \in raise \/ (req[m] /\ ~Rsp(m, rsp))]
  /\ tag' = [m \in Masters |-> IF m \in raise THEN 1 - tag[m] ELSE tag[m]]

Accept ==
  /\ port = "ready" /\ MemReqValid /\ port' = "work"
  /\ \E m \in Masters : CurOwner(m) /\ job' = [m |-> m, tag |-> tag[m]]

LaneStep(acc, rsp) ==
  \/ acc /\ ~rsp /\ Accept
  \/ rsp /\ ~acc /\ port = "work" /\ port' = "low" /\ UNCHANGED job
  \/ /\ ~acc /\ ~rsp
     /\ port' = IF port = "low" /\ ~MemReqValid THEN "ready" ELSE port
     /\ UNCHANGED job

Clock(raise, acc, rsp) == ArbStep(rsp) /\ MasterStep(raise, rsp) /\ LaneStep(acc, rsp)

Next == \E raise \in SUBSET Masters : \E acc, rsp \in BOOLEAN : Clock(raise, acc, rsp)

\* The clock runs; the lane accepts a request it can take and answers it.
Fairness ==
  /\ WF_vars(\E raise \in SUBSET Masters, acc, rsp \in BOOLEAN : Clock(raise, acc, rsp))
  /\ WF_vars(\E raise \in SUBSET Masters : Clock(raise, TRUE, FALSE))
  /\ WF_vars(\E raise \in SUBSET Masters : Clock(raise, FALSE, TRUE))

Spec == Init /\ [][Next]_vars /\ Fairness

(***************************************************************************)
(* Properties                                                              *)
(***************************************************************************)
\* Type invariant.
TypeOK ==
  /\ state \in States /\ owner \in Masters /\ slot \in Slots
  /\ req \in [Masters -> BOOLEAN] /\ tag \in [Masters -> {0, 1}]
  /\ port \in {"ready", "work", "low"}
  /\ job \in [m : Masters, tag : {0, 1}]
  /\ passed \in [Masters -> Nat]

\* The answer goes back to the master that asked: while the lane works, the
\* arbiter is BUSY for the master whose current request the lane accepted,
\* whether the lane took it in the granting cycle or later.
AnswerToOwner ==
  port = "work" => /\ state = "BUSY" /\ job = [m |-> owner, tag |-> tag[owner]]
                   /\ req[owner]

\* The valid-low cycle is there: when the arbiter comes back to IDLE the lane
\* can take a request.
LaneReady == state = "IDLE" => port = "ready"

\* m is waiting: it requests and is not the one being served
Waiting(m) == req[m] /\ ~(state = "BUSY" /\ owner = m)

\* "Every master is guaranteed a turn within NSLOT rounds": a waiting master
\* is passed over at most NSLOT - 1 times.
BoundedBypass == \A m \in Masters : Waiting(m) => passed[m] <= NSLOT - 1

\* The inductive form: a slot of m lies ahead of the pointer, near enough that
\* the grants already given to others and the slots up to it stay below NSLOT.
SlotAhead ==
  \A m \in Masters : Waiting(m) =>
    \E k \in Slots : SLOT_MAP[Wrap(slot + k)] = m /\ passed[m] + k <= NSLOT - 1

\* Every request is answered.
Served == \A m \in Masters : req[m] ~> (state = "TURN" /\ owner = m)
=============================================================================
