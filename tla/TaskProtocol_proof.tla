------------------------- MODULE TaskProtocol_proof -------------------------
(***************************************************************************)
(* Proofs about TaskProtocol, for any number of agents and tasks.          *)
(***************************************************************************)
EXTENDS TaskProtocol, TLAPS

LEMMA ProtocolTyped == Spec => []TypeOK
<1>1. Init => TypeOK
  BY DEF Init, TypeOK, MaybeAgent
<1>2. TypeOK /\ [Next]_vars => TypeOK'
  <2>. SUFFICES ASSUME TypeOK, [Next]_vars PROVE TypeOK'
    OBVIOUS
  <2>1. ASSUME NEW t \in Tasks, NEW to \in Statuses, Move(t, to)
        PROVE  status' \in [Tasks -> Statuses \cup {"none"}]
    BY <2>1 DEF Move, TypeOK
  <2>2. {"requested", "accepted", "rejected", "in_progress",
         "completed", "failed", "verified", "disputed"} \subseteq Statuses
    BY DEF Statuses
  <2>3. CASE Next
    <3>1. PICK t \in Tasks, a \in Agents :
            \/ \E b \in MaybeAgent : Create(t, a, b)
            \/ Accept(t, a)
            \/ Reject(t, a)
            \/ Progress(t, a)
            \/ Submit(t, a)
            \/ Fail(t, a)
            \/ Verify(t, a)
            \/ Dispute(t, a)
      BY <2>3 DEF Next
    <3>2. status' \in [Tasks -> Statuses \cup {"none"}]
      BY <2>1, <2>2, <3>1
         DEF Create, Accept, Reject, Progress, Submit, Fail, Verify, Dispute
    <3>3. /\ requester' \in [Tasks -> MaybeAgent] /\ assignee' \in [Tasks -> MaybeAgent]
          /\ author' \in [Tasks -> MaybeAgent] /\ voucher' \in [Tasks -> MaybeAgent]
      BY <3>1 DEF TypeOK, MaybeAgent,
                  Create, Accept, Reject, Progress, Submit, Fail, Verify, Dispute
    <3>. QED
      BY <3>2, <3>3 DEF TypeOK
  <2>4. CASE UNCHANGED vars
    BY <2>4 DEF vars, TypeOK
  <2>. QED
    BY <2>3, <2>4
<1>. QED
  BY <1>1, <1>2, PTL DEF Spec

\* A result has one author, its task's assignee to the end.
LEMMA VouchStep ==
  ASSUME None \notin Agents, TypeOK, VouchInv, [Next]_vars
  PROVE  VouchInv'
<1>. USE DEF TypeOK, VouchInv, MaybeAgent, Move, HandlerSteps, TASK_TRANSITIONS
<1>1. ASSUME NEW t \in Tasks, NEW a \in Agents, NEW b \in MaybeAgent, Create(t, a, b)
      PROVE  VouchInv'
  BY <1>1 DEF Create
<1>2. ASSUME NEW t \in Tasks, NEW a \in Agents, Accept(t, a) PROVE VouchInv'
  BY <1>2 DEF Accept
<1>3. ASSUME NEW t \in Tasks, NEW a \in Agents, Reject(t, a) PROVE VouchInv'
  BY <1>3 DEF Reject
<1>4. ASSUME NEW t \in Tasks, NEW a \in Agents, Progress(t, a) \/ Fail(t, a) \/ Dispute(t, a)
      PROVE  VouchInv'
  BY <1>4 DEF Progress, Fail, Dispute
<1>5. ASSUME NEW t \in Tasks, NEW a \in Agents, Submit(t, a) PROVE VouchInv'
  BY <1>5 DEF Submit
<1>6. ASSUME NEW t \in Tasks, NEW a \in Agents, Verify(t, a) PROVE VouchInv'
  BY <1>6 DEF Verify
<1>7. CASE UNCHANGED vars
  BY <1>7 DEF vars
<1>. QED
  BY <1>1, <1>2, <1>3, <1>4, <1>5, <1>6, <1>7 DEF Next

(***************************************************************************)
(* In the protocol no one vouches for their own work, whatever the order   *)
(* of requests (what verify_task's check of the assignee amounts to when   *)
(* the assignee of a submitted task never changes).                        *)
(***************************************************************************)
THEOREM VouchersIndependent ==
  ASSUME None \notin Agents
  PROVE  Spec => []IndependentVoucher
<1>1. Init => VouchInv
  BY DEF Init, VouchInv
<1>2. TypeOK /\ VouchInv /\ [Next]_vars => VouchInv'
  BY VouchStep
<1>3. VouchInv => IndependentVoucher
  BY DEF VouchInv, IndependentVoucher
<1>. QED
  BY <1>1, <1>2, <1>3, ProtocolTyped, PTL DEF Spec
=============================================================================
