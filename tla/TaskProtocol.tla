---------------------------- MODULE TaskProtocol ----------------------------
(***************************************************************************)
(* What the registry promises about one delegated task, whoever asks and   *)
(* through whichever route: the strict state machine of                    *)
(* src/src/tar/workflow.py, who may take each step, and nothing about      *)
(* requests, rows, threads or messages.  TaskWorkflow implements it when   *)
(* the handlers of a task do not overlap.                                  *)
(***************************************************************************)

CONSTANTS
  Agents,   \* agent identifiers
  Tasks,    \* task identifiers
  None      \* the absent agent: no assignee, no author, no voucher

VARIABLES
  status,     \* task -> its status, "none" before it is created
  requester,  \* task -> the agent that delegated it
  assignee,   \* task -> the agent that works on it, or None
  author,     \* task -> the agent that submitted its result, or None
  voucher     \* task -> the agent that verified the result, or None

vars == <<status, requester, assignee, author, voucher>>

Statuses == {"requested", "accepted", "rejected", "in_progress",
             "completed", "failed", "verified", "disputed"}

\* TASK_TRANSITIONS: the pairs of statuses one call of transition() may take.
TASK_TRANSITIONS ==
  {<<"requested", "accepted">>, <<"requested", "rejected">>,
   <<"accepted", "in_progress">>, <<"accepted", "rejected">>, <<"accepted", "failed">>,
   <<"in_progress", "completed">>, <<"in_progress", "failed">>,
   <<"completed", "verified">>, <<"completed", "disputed">>,
   <<"failed", "disputed">>, <<"verified", "disputed">>}

\* A step of a whole handler: submit_result may take two transitions in one.
HandlerSteps ==
  TASK_TRANSITIONS \cup {<<"none", "requested">>, <<"accepted", "completed">>}

MaybeAgent == Agents \cup {None}

TypeOK ==
  /\ status \in [Tasks -> Statuses \cup {"none"}]
  /\ requester \in [Tasks -> MaybeAgent]
  /\ assignee \in [Tasks -> MaybeAgent]
  /\ author \in [Tasks -> MaybeAgent]
  /\ voucher \in [Tasks -> MaybeAgent]

Init ==
  /\ status = [t \in Tasks |-> "none"]
  /\ requester = [t \in Tasks |-> None]
  /\ assignee = [t \in Tasks |-> None]
  /\ author = [t \in Tasks |-> None]
  /\ voucher = [t \in Tasks |-> None]

Move(t, to) ==
  /\ <<status[t], to>> \in HandlerSteps
  /\ status' = [status EXCEPT ![t] = to]

Create(t, r, a) ==
  /\ Move(t, "requested")
  /\ requester' = [requester EXCEPT ![t] = r]
  /\ assignee' = [assignee EXCEPT ![t] = a]
  /\ UNCHANGED <<author, voucher>>

\* An open task goes to whoever takes it; an assigned one only to its assignee.
Accept(t, a) ==
  /\ assignee[t] \in {a, None}
  /\ Move(t, "accepted")
  /\ assignee' = [assignee EXCEPT ![t] = a]
  /\ UNCHANGED <<requester, author, voucher>>

Reject(t, a) ==
  /\ a \in {requester[t], assignee[t]} \/ assignee[t] = None
  /\ Move(t, "rejected")
  /\ assignee' = [assignee EXCEPT ![t] = IF a = requester[t] THEN @ ELSE a]
  /\ UNCHANGED <<requester, author, voucher>>

Progress(t, a) ==
  /\ a = assignee[t]
  /\ Move(t, "in_progress")
  /\ UNCHANGED <<requester, assignee, author, voucher>>

Submit(t, a) ==
  /\ a = assignee[t]
  /\ Move(t, "completed")
  /\ author' = [author EXCEPT ![t] = a]
  /\ UNCHANGED <<requester, assignee, voucher>>

Fail(t, a) ==
  /\ a \in {requester[t], assignee[t]}
  /\ Move(t, "failed")
  /\ UNCHANGED <<requester, assignee, author, voucher>>

Verify(t, a) ==
  /\ a # assignee[t]
  /\ Move(t, "verified")
  /\ voucher' = [voucher EXCEPT ![t] = a]
  /\ UNCHANGED <<requester, assignee, author>>

Dispute(t, a) ==
  /\ Move(t, "disputed")
  /\ UNCHANGED <<requester, assignee, author, voucher>>

Next ==
  \E t \in Tasks, a \in Agents :
    \/ \E b \in MaybeAgent : Create(t, a, b)
    \/ Accept(t, a)
    \/ Reject(t, a)
    \/ Progress(t, a)
    \/ Submit(t, a)
    \/ Fail(t, a)
    \/ Verify(t, a)
    \/ Dispute(t, a)

Spec == Init /\ [][Next]_vars

-----------------------------------------------------------------------------

(***************************************************************************)
(* No one vouches for their own work: the agent that verified a task is    *)
(* not the one that wrote its result (verify_task's docstring and          *)
(* SECURITY.md: verification comes from an independent agent).             *)
(***************************************************************************)
IndependentVoucher ==
  \A t \in Tasks : author[t] # None => voucher[t] # author[t]

(***************************************************************************)
(* The statement above made inductive: a result is only ever written by    *)
(* the assignee of that moment, after which the assignee never changes,    *)
(* and a voucher exists only once the result does.                         *)
(***************************************************************************)
VouchInv ==
  \A t \in Tasks :
    /\ author[t] # None =>
         /\ author[t] = assignee[t]
         /\ status[t] \in {"completed", "verified", "disputed"}
    /\ status[t] = "completed" => author[t] # None
    /\ voucher[t] # None => author[t] # None /\ voucher[t] # author[t]
=============================================================================
