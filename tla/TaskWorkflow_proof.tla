------------------------- MODULE TaskWorkflow_proof -------------------------
(***************************************************************************)
(* Proofs about TaskWorkflow, for any number of agents, tasks, messages,   *)
(* threads and deletions.                                                  *)
(***************************************************************************)
EXTENDS TaskWorkflow, SequenceTheorems, FiniteSetTheorems, TLAPS

ReadJobs ==
  [stage : {"read"}, via : {"rest", "envelope"}, task : Tasks, row : Task,
   known : SUBSET Agents, able : SUBSET Agents, fresh : SUBSET MessageIds]

WriteJobs == [stage : {"write"}, plan : WriteSet]

\* The stage of a job tells its shape.
LEMMA JobShape ==
  ASSUME TypeOK, NEW w \in Workers
  PROVE  /\ jobs[w].stage = "read" => jobs[w] \in ReadJobs
         /\ jobs[w].stage = "write" => jobs[w] \in WriteJobs
         /\ jobs[w] = Idle <=> jobs[w].stage = "idle"
BY DEF TypeOK, Job, Idle, ReadJobs, WriteJobs

LEMMA NoTaskType == NoTask \in Task
BY DEF NoTask, Task, MaybeAgent

LEMMA MsgType ==
  ASSUME NEW id \in MessageIds, NEW type \in MESSAGE_TYPES, NEW a \in Agents, NEW t \in Tasks
  PROVE  {Msg(id, type, a, t)} \in SUBSET Message
BY DEF Msg, Message

\* A handler works on a row of the right type.
LEMMA RowType ==
  ASSUME TypeOK, NEW w \in Workers, jobs[w].stage = "read"
  PROVE  Row(w) \in Task /\ jobs[w].task \in Tasks
<1>1. jobs[w] \in ReadJobs
  BY JobShape
<1>2. jobs[w].task \in Tasks /\ jobs[w].row \in Task
  BY <1>1 DEF ReadJobs
<1>3. tasks[jobs[w].task] \in Task
  BY <1>2 DEF TypeOK
<1>. QED
  BY <1>2, <1>3 DEF Row

LEMMA ChangeType ==
  ASSUME TypeOK, NEW w \in Workers, jobs[w].stage = "read",
         NEW a \in Agents, NEW new \in Task, NEW event \in Events \cup {"none"},
         NEW sent \in SUBSET Message, NEW credit \in SUBSET (Agents \X ContributionEvents)
  PROVE  Change(w, a, new, event, sent, credit) \in WriteSet
BY RowType DEF Change, WriteSet

LEMMA QueueType ==
  ASSUME TypeOK, NEW w \in Workers, NEW p \in WriteSet, Queue(w, p)
  PROVE  TypeOK'
<1>1. [stage |-> "write", plan |-> p] \in Job
  BY DEF Job
<1>. QED
  BY <1>1 DEF TypeOK, Queue, tables

-----------------------------------------------------------------------------
(* What every handler queues *)

\* The event a handler may record, by the status of the row it loaded.
HandlerEvents ==
  {<<"none", "created">>, <<"requested", "accepted">>, <<"requested", "rejected">>,
   <<"accepted", "rejected">>, <<"accepted", "progress">>, <<"in_progress", "progress">>,
   <<"accepted", "result">>, <<"in_progress", "result">>, <<"accepted", "failed">>,
   <<"in_progress", "failed">>, <<"completed", "verified">>, <<"completed", "disputed">>,
   <<"failed", "disputed">>, <<"verified", "disputed">>}

\* Queued writes either leave the row alone and record nothing, or record the
\* event that explains the status they set.
Prepared(p) ==
  /\ p.event = "none" => p.new = p.old
  /\ p.event # "none" =>
       /\ p.new.status # "none"
       /\ p.event = EventOf(p.new.status)
       /\ <<p.old.status, p.event>> \in HandlerEvents

\* The row queued writes start from: none, or the one the handler loaded.
FromRow(w, p) ==
  \/ p.old = NoTask
  \/ jobs[w].stage = "read" /\ p.task = jobs[w].task /\ p.old = Row(w)

LEMMA CreationQueued ==
  ASSUME NEW t \in Tasks, NEW a \in Agents, NEW b \in MaybeAgent, NEW sent \in SUBSET Message
  PROVE  /\ Creation(t, a, b, sent) \in WriteSet
         /\ Prepared(Creation(t, a, b, sent))
         /\ Creation(t, a, b, sent).old = NoTask
<1>1. [requester |-> a, assignee |-> b, status |-> "requested"] \in Task
  BY DEF Task, MaybeAgent, Statuses
<1>2. Creation(t, a, b, sent) \in WriteSet
  BY <1>1, NoTaskType DEF Creation, WriteSet, Events
<1>. QED
  BY <1>2 DEF Creation, Prepared, EventOf, HandlerEvents, NoTask

\* A change of the loaded row that sets the status of its event.
LEMMA ChangeQueued ==
  ASSUME TypeOK, NEW w \in Workers, jobs[w].stage = "read", NEW a \in Agents,
         NEW new \in Task, NEW event \in Events,
         NEW sent \in SUBSET Message, NEW credit \in SUBSET (Agents \X ContributionEvents),
         <<Row(w).status, event>> \in HandlerEvents,
         new.status # "none", event = EventOf(new.status)
  PROVE  LET p == Change(w, a, new, event, sent, credit)
         IN  p \in WriteSet /\ Prepared(p) /\ FromRow(w, p)
<1>. DEFINE p == Change(w, a, new, event, sent, credit)
<1>1. p \in WriteSet
  BY ChangeType
<1>2. event # "none"
  BY DEF Events
<1>. QED
  BY <1>1, <1>2 DEF Change, Prepared, FromRow

LEMMA HandlerQueues ==
  ASSUME TypeOK, NEW w \in Workers, NEW a \in Agents, Handler(w, a)
  PROVE  \E p \in WriteSet : Queue(w, p) /\ Prepared(p) /\ FromRow(w, p)
<1>1. CASE \E t \in Tasks, b \in MaybeAgent : CreateTask(w, t, a, b)
  <2>1. PICK t \in Tasks, b \in MaybeAgent : CreateTask(w, t, a, b)
    BY <1>1
  <2>2. PICK sent \in IF b = None THEN {{}}
                      ELSE {{Msg(i, "REQUEST", a, t)} : i \in FreshIds} :
               Queue(w, Creation(t, a, b, sent))
    BY <2>1 DEF CreateTask
  <2>3. FreshIds \subseteq MessageIds /\ "REQUEST" \in MESSAGE_TYPES
    BY DEF FreshIds, MESSAGE_TYPES
  <2>4. sent \in SUBSET Message
    BY <2>2, <2>3, MsgType
  <2>. QED
    BY <2>2, <2>4, CreationQueued DEF FromRow
<1>2. CASE \E id \in MessageIds, b \in Agents : ApplyRequest(w, a, b, id)
  <2>1. PICK id \in MessageIds, b \in Agents : ApplyRequest(w, a, b, id)
    BY <1>2
  <2>2. jobs[w].stage = "read" /\ Queue(w, Creation(jobs[w].task, a, b, {Msg(id, "REQUEST", a, jobs[w].task)}))
    BY <2>1 DEF ApplyRequest
  <2>3. jobs[w].task \in Tasks
    BY <2>2, RowType
  <2>4. {Msg(id, "REQUEST", a, jobs[w].task)} \in SUBSET Message
    BY <2>3, MsgType DEF MESSAGE_TYPES
  <2>5. b \in MaybeAgent
    BY DEF MaybeAgent
  <2>. QED
    BY <2>2, <2>3, <2>4, <2>5, CreationQueued DEF FromRow
<1>3. CASE \E id \in MessageIds, type \in MESSAGE_TYPES : KeepMessage(w, a, type, id)
  <2>1. PICK id \in MessageIds, type \in MESSAGE_TYPES : KeepMessage(w, a, type, id)
    BY <1>3
  <2>. DEFINE sent == {Msg(id, type, a, jobs[w].task)}
              p == Change(w, a, Row(w), "none", sent, {})
  <2>2. jobs[w].stage = "read" /\ Queue(w, p)
    BY <2>1 DEF KeepMessage
  <2>3. Row(w) \in Task /\ jobs[w].task \in Tasks
    BY <2>2, RowType
  <2>4. sent \in SUBSET Message
    BY <2>3, MsgType
  <2>5. p \in WriteSet
    BY <2>2, <2>3, <2>4, ChangeType
  <2>6. Prepared(p) /\ FromRow(w, p)
    BY <2>2 DEF Change, Prepared, FromRow
  <2>. QED
    BY <2>2, <2>5, <2>6
<1>4. CASE \E id \in MessageIds : AcceptTask(w, a, id)
  <2>1. PICK id \in MessageIds : AcceptTask(w, a, id)
    BY <1>4
  <2>. DEFINE new == [Row(w) EXCEPT !.status = "accepted", !.assignee = a]
              sent == {Msg(id, "ACCEPT", a, jobs[w].task)}
              credit == {}
  <2>2. /\ jobs[w].stage = "read"
        /\ <<Row(w).status, "accepted">> \in TASK_TRANSITIONS
        /\ Queue(w, Change(w, a, new, "accepted", sent, credit))
    BY <2>1 DEF AcceptTask, OnTask, Allowed
  <2>3. Row(w) \in Task /\ jobs[w].task \in Tasks
    BY <2>2, RowType
  <2>4. new \in Task /\ new.status = "accepted"
    BY <2>3 DEF Task, MaybeAgent, Statuses
  <2>5. sent \in SUBSET Message
    BY <2>3, MsgType DEF MESSAGE_TYPES
  <2>6. /\ <<Row(w).status, "accepted">> \in HandlerEvents
        /\ EventOf("accepted") = "accepted" /\ "accepted" # "none" /\ "accepted" \in Events
    BY <2>2 DEF TASK_TRANSITIONS, HandlerEvents, EventOf, Events
  <2>7. credit \in SUBSET (Agents \X ContributionEvents)
    OBVIOUS
  <2>. HIDE DEF new, sent, credit
  <2>. QED
    BY <2>2, <2>4, <2>5, <2>6, <2>7, ChangeQueued
<1>5. CASE \E id \in MessageIds : RejectTask(w, a, id)
  <2>1. PICK id \in MessageIds : RejectTask(w, a, id)
    BY <1>5
  <2>. DEFINE new == [Row(w) EXCEPT !.status = "rejected", !.assignee =
                         IF a # Row(w).requester /\ Row(w).assignee = None THEN a ELSE Row(w).assignee]
              sent == {Msg(id, "REJECT", a, jobs[w].task)}
              credit == {}
  <2>2. /\ jobs[w].stage = "read"
        /\ <<Row(w).status, "rejected">> \in TASK_TRANSITIONS
        /\ Queue(w, Change(w, a, new, "rejected", sent, credit))
    BY <2>1 DEF RejectTask, OnTask, Allowed
  <2>3. Row(w) \in Task /\ jobs[w].task \in Tasks
    BY <2>2, RowType
  <2>4. new \in Task /\ new.status = "rejected"
    BY <2>3 DEF Task, MaybeAgent, Statuses
  <2>5. sent \in SUBSET Message
    BY <2>3, MsgType DEF MESSAGE_TYPES
  <2>6. /\ <<Row(w).status, "rejected">> \in HandlerEvents
        /\ EventOf("rejected") = "rejected" /\ "rejected" # "none" /\ "rejected" \in Events
    BY <2>2 DEF TASK_TRANSITIONS, HandlerEvents, EventOf, Events
  <2>7. credit \in SUBSET (Agents \X ContributionEvents)
    OBVIOUS
  <2>. HIDE DEF new, sent, credit
  <2>. QED
    BY <2>2, <2>4, <2>5, <2>6, <2>7, ChangeQueued
<1>6. CASE \E id \in MessageIds : ProgressTask(w, a, id)
  <2>1. PICK id \in MessageIds : ProgressTask(w, a, id)
    BY <1>6
  <2>. DEFINE new == [Row(w) EXCEPT !.status = "in_progress"]
              sent == {Msg(id, "PROGRESS", a, jobs[w].task)}
              credit == {}
  <2>2. /\ jobs[w].stage = "read"
        /\ Row(w).status \in {"accepted", "in_progress"}
        /\ Queue(w, Change(w, a, new, "progress", sent, credit))
    BY <2>1 DEF ProgressTask, OnTask
  <2>3. Row(w) \in Task /\ jobs[w].task \in Tasks
    BY <2>2, RowType
  <2>4. new \in Task /\ new.status = "in_progress"
    BY <2>3 DEF Task, MaybeAgent, Statuses
  <2>5. sent \in SUBSET Message
    BY <2>3, MsgType DEF MESSAGE_TYPES
  <2>6. /\ <<Row(w).status, "progress">> \in HandlerEvents
        /\ EventOf("in_progress") = "progress" /\ "in_progress" # "none" /\ "progress" \in Events
    BY <2>2 DEF TASK_TRANSITIONS, HandlerEvents, EventOf, Events
  <2>7. credit \in SUBSET (Agents \X ContributionEvents)
    OBVIOUS
  <2>. HIDE DEF new, sent, credit
  <2>. QED
    BY <2>2, <2>4, <2>5, <2>6, <2>7, ChangeQueued
<1>7. CASE \E id \in MessageIds : SubmitResult(w, a, id)
  <2>1. PICK id \in MessageIds : SubmitResult(w, a, id)
    BY <1>7
  <2>. DEFINE new == [Row(w) EXCEPT !.status = "completed"]
              sent == {Msg(id, "RESULT", a, jobs[w].task)}
              credit == {<<a, "task_completed">>}
  <2>2. /\ jobs[w].stage = "read"
        /\ Row(w).status \in {"accepted", "in_progress"}
        /\ Queue(w, Change(w, a, new, "result", sent, credit))
    BY <2>1 DEF SubmitResult, OnTask
  <2>3. Row(w) \in Task /\ jobs[w].task \in Tasks
    BY <2>2, RowType
  <2>4. new \in Task /\ new.status = "completed"
    BY <2>3 DEF Task, MaybeAgent, Statuses
  <2>5. sent \in SUBSET Message
    BY <2>3, MsgType DEF MESSAGE_TYPES
  <2>6. /\ <<Row(w).status, "result">> \in HandlerEvents
        /\ EventOf("completed") = "result" /\ "completed" # "none" /\ "result" \in Events
    BY <2>2 DEF TASK_TRANSITIONS, HandlerEvents, EventOf, Events
  <2>7. credit \in SUBSET (Agents \X ContributionEvents)
    BY DEF ContributionEvents
  <2>. HIDE DEF new, sent, credit
  <2>. QED
    BY <2>2, <2>4, <2>5, <2>6, <2>7, ChangeQueued
<1>8. CASE \E id \in MessageIds : VerifyTask(w, a, id)
  <2>1. PICK id \in MessageIds : VerifyTask(w, a, id)
    BY <1>8
  <2>. DEFINE new == [Row(w) EXCEPT !.status = "verified"]
              sent == {Msg(id, "VERIFY", a, jobs[w].task)}
              credit == ({Row(w).assignee} \ {None}) \X {"result_verified"}
  <2>2. /\ jobs[w].stage = "read"
        /\ <<Row(w).status, "verified">> \in TASK_TRANSITIONS
        /\ Queue(w, Change(w, a, new, "verified", sent, credit))
    BY <2>1 DEF VerifyTask, OnTask, Allowed
  <2>3. Row(w) \in Task /\ jobs[w].task \in Tasks
    BY <2>2, RowType
  <2>4. new \in Task /\ new.status = "verified"
    BY <2>3 DEF Task, MaybeAgent, Statuses
  <2>5. sent \in SUBSET Message
    BY <2>3, MsgType DEF MESSAGE_TYPES
  <2>6. /\ <<Row(w).status, "verified">> \in HandlerEvents
        /\ EventOf("verified") = "verified" /\ "verified" # "none" /\ "verified" \in Events
    BY <2>2 DEF TASK_TRANSITIONS, HandlerEvents, EventOf, Events
  <2>7. credit \in SUBSET (Agents \X ContributionEvents)
    BY <2>3 DEF Task, MaybeAgent, ContributionEvents
  <2>. HIDE DEF new, sent, credit
  <2>. QED
    BY <2>2, <2>4, <2>5, <2>6, <2>7, ChangeQueued
<1>9. CASE FailTask(w, a)
  <2>. DEFINE new == [Row(w) EXCEPT !.status = "failed"]
              sent == {}
              credit == {<<Blamed(w, a), "task_failed">>}
  <2>2. /\ jobs[w].stage = "read"
        /\ <<Row(w).status, "failed">> \in TASK_TRANSITIONS
        /\ Queue(w, Change(w, a, new, "failed", sent, credit))
    BY <1>9 DEF FailTask, OnTask, Allowed
  <2>3. Row(w) \in Task /\ jobs[w].task \in Tasks
    BY <2>2, RowType
  <2>4. new \in Task /\ new.status = "failed"
    BY <2>3 DEF Task, MaybeAgent, Statuses
  <2>5. sent \in SUBSET Message
    OBVIOUS
  <2>6. /\ <<Row(w).status, "failed">> \in HandlerEvents
        /\ EventOf("failed") = "failed" /\ "failed" # "none" /\ "failed" \in Events
    BY <2>2 DEF TASK_TRANSITIONS, HandlerEvents, EventOf, Events
  <2>7. credit \in SUBSET (Agents \X ContributionEvents)
    BY <2>3 DEF Blamed, Task, MaybeAgent, ContributionEvents
  <2>. HIDE DEF new, sent, credit
  <2>. QED
    BY <2>2, <2>4, <2>5, <2>6, <2>7, ChangeQueued
<1>10. CASE DisputeTask(w, a)
  <2>. DEFINE new == [Row(w) EXCEPT !.status = "disputed"]
              sent == {}
              credit == {<<Blamed(w, a), "dispute">>}
  <2>2. /\ jobs[w].stage = "read"
        /\ <<Row(w).status, "disputed">> \in TASK_TRANSITIONS
        /\ Queue(w, Change(w, a, new, "disputed", sent, credit))
    BY <1>10 DEF DisputeTask, OnTask, Allowed
  <2>3. Row(w) \in Task /\ jobs[w].task \in Tasks
    BY <2>2, RowType
  <2>4. new \in Task /\ new.status = "disputed"
    BY <2>3 DEF Task, MaybeAgent, Statuses
  <2>5. sent \in SUBSET Message
    OBVIOUS
  <2>6. /\ <<Row(w).status, "disputed">> \in HandlerEvents
        /\ EventOf("disputed") = "disputed" /\ "disputed" # "none" /\ "disputed" \in Events
    BY <2>2 DEF TASK_TRANSITIONS, HandlerEvents, EventOf, Events
  <2>7. credit \in SUBSET (Agents \X ContributionEvents)
    BY <2>3 DEF Blamed, Task, MaybeAgent, ContributionEvents
  <2>. HIDE DEF new, sent, credit
  <2>. QED
    BY <2>2, <2>4, <2>5, <2>6, <2>7, ChangeQueued
<1>. QED
  BY <1>1, <1>2, <1>3, <1>4, <1>5, <1>6, <1>7, <1>8, <1>9, <1>10 DEF Handler

-----------------------------------------------------------------------------
(* Type correctness *)

\* What a commit leaves in the tables.
LEMMA CommitShape ==
  ASSUME TypeOK, NEW w \in Workers, Commit(w)
  PROVE  LET p == jobs[w].plan IN
         /\ jobs[w] \in WriteJobs
         /\ p \in WriteSet
         /\ Merged(tasks[p.task], p.old, p.new) \in Task
         /\ tasks' = [tasks EXCEPT ![p.task] = Merged(tasks[p.task], p.old, p.new)]
         /\ log' = IF p.event = "none" THEN log
                   ELSE [log EXCEPT ![p.task] =
                           Append(log[p.task], [event |-> p.event, actor |-> p.actor])]
         /\ jobs' = [jobs EXCEPT ![w] = Idle]
<1>. DEFINE p == jobs[w].plan
<1>1. jobs[w] \in WriteJobs
  BY JobShape DEF Commit
<1>2. p \in WriteSet
  BY <1>1 DEF WriteJobs
<1>3. p.task \in Tasks /\ p.old \in Task /\ p.new \in Task
  BY <1>2 DEF WriteSet
<1>4. tasks[p.task] \in Task
  BY <1>3 DEF TypeOK
<1>5. Merged(tasks[p.task], p.old, p.new) \in Task
  BY <1>3, <1>4 DEF Merged, Dirty, Task
<1>. QED
  BY <1>1, <1>2, <1>5 DEF Commit, Recorded

LEMMA CommitType ==
  ASSUME TypeOK, NEW w \in Workers, Commit(w)
  PROVE  TypeOK'
<1>. DEFINE p == jobs[w].plan
<1>1. p \in WriteSet
  BY CommitShape
<1>2. /\ p.task \in Tasks /\ p.actor \in Agents /\ p.sent \subseteq Message
      /\ p.event \in Events \cup {"none"}
  BY <1>1 DEF WriteSet
<1>3. tasks' \in [Tasks -> Task]
  BY <1>2, CommitShape DEF TypeOK
<1>4. log' \in [Tasks -> Seq(TaskEvent)]
  <2>1. CASE p.event = "none"
    BY <2>1, CommitShape DEF TypeOK
  <2>2. CASE p.event # "none"
    <3>1. [event |-> p.event, actor |-> p.actor] \in TaskEvent
      BY <1>2, <2>2 DEF TaskEvent
    <3>2. log[p.task] \in Seq(TaskEvent)
      BY <1>2 DEF TypeOK
    <3>3. Append(log[p.task], [event |-> p.event, actor |-> p.actor]) \in Seq(TaskEvent)
      BY <3>1, <3>2, AppendProperties
    <3>. QED
      BY <3>3, <2>2, CommitShape DEF TypeOK
  <2>. QED
    BY <2>1, <2>2
<1>5. messages' \subseteq Message
  BY <1>2 DEF Commit, TypeOK
<1>6. contribs' \in [Agents \X ContributionEvents \X Tasks -> Nat]
  BY DEF Commit, Credited, TypeOK
<1>7. jobs' \in [Workers -> Job]
  BY CommitShape DEF TypeOK, Job
<1>. QED
  BY <1>3, <1>4, <1>5, <1>6, <1>7 DEF Commit, TypeOK

LEMMA DeleteType ==
  ASSUME TypeOK, NEW a \in Agents, DeleteAgent(a)
  PROVE  TypeOK'
<1>1. contribs' \in [Agents \X ContributionEvents \X Tasks -> Nat]
  BY DEF DeleteAgent, TypeOK
<1>2. \A t \in Tasks : RowWithout(a, tasks[t]) \in Task
  BY NoTaskType DEF RowWithout, TypeOK, Task, MaybeAgent
<1>3. tasks' \in [Tasks -> Task]
  BY <1>2 DEF DeleteAgent, TypeOK
<1>4. \A t \in Tasks : log[t] \in Seq(TaskEvent) /\ <<>> \in Seq(TaskEvent)
  BY EmptySeq DEF TypeOK
<1>5. log' \in [Tasks -> Seq(TaskEvent)]
  BY <1>4 DEF DeleteAgent, TypeOK
<1>. QED
  BY <1>1, <1>3, <1>5 DEF DeleteAgent, TypeOK

(***************************************************************************)
(* The state of the registry always has the shape of its tables and        *)
(* sessions (TypeOK), on both databases and however requests interleave.   *)
(***************************************************************************)
THEOREM TypeCorrect == Spec => []TypeOK
<1>1. Init => TypeOK
  <2>1. <<>> \in Seq(TaskEvent)
    BY EmptySeq
  <2>. QED
    BY <2>1, NoTaskType DEF Init, TypeOK, Job
<1>2. TypeOK /\ [Next]_vars => TypeOK'
  <2>. SUFFICES ASSUME TypeOK, [Next]_vars PROVE TypeOK'
    OBVIOUS
  <2>1. ASSUME NEW w \in Workers, BeginAction(w) PROVE TypeOK'
    <3>1. PICK t \in Tasks : jobs' = [jobs EXCEPT ![w] =
             [stage |-> "read", via |-> "rest", task |-> t, row |-> tasks[t],
              known |-> {}, able |-> {}, fresh |-> {}]]
      BY <2>1 DEF BeginAction
    <3>2. tasks[t] \in Task
      BY DEF TypeOK
    <3>3. jobs' \in [Workers -> Job]
      BY <3>1, <3>2 DEF TypeOK, Job
    <3>. QED
      BY <2>1, <3>3 DEF BeginAction, tables, TypeOK
  <2>2. ASSUME NEW w \in Workers, BeginEnvelope(w) PROVE TypeOK'
    <3>1. PICK t \in Tasks : jobs' = [jobs EXCEPT ![w] =
             [stage |-> "read", via |-> "envelope", task |-> t, row |-> NoTask,
              known |-> agents, able |-> capable, fresh |-> MessageIds \ UsedIds]]
      BY <2>2 DEF BeginEnvelope
    <3>2. jobs' \in [Workers -> Job]
      BY <3>1, NoTaskType DEF TypeOK, Job
    <3>. QED
      BY <2>2, <3>2 DEF BeginEnvelope, tables, TypeOK
  <2>3. ASSUME NEW w \in Workers, NEW a \in Agents, Handler(w, a) PROVE TypeOK'
    BY <2>3, HandlerQueues, QueueType
  <2>4. ASSUME NEW w \in Workers, Commit(w) PROVE TypeOK'
    BY <2>4, CommitType
  <2>5. ASSUME NEW w \in Workers, Drop(w) PROVE TypeOK'
    BY <2>5 DEF Drop, tables, TypeOK, Job
  <2>6. ASSUME NEW a \in Agents, RegisterAgent(a) PROVE TypeOK'
    BY <2>6 DEF RegisterAgent, TypeOK
  <2>7. ASSUME NEW a \in Agents, UpdateAgent(a) PROVE TypeOK'
    BY <2>7 DEF UpdateAgent, TypeOK
  <2>8. ASSUME NEW a \in Agents, DeleteAgent(a) PROVE TypeOK'
    BY <2>8, DeleteType
  <2>9. CASE UNCHANGED vars
    BY <2>9 DEF vars, TypeOK
  <2>. QED
    BY <2>1, <2>2, <2>3, <2>4, <2>5, <2>6, <2>7, <2>8, <2>9 DEF Next
<1>. QED
  BY <1>1, <1>2, PTL DEF Spec

-----------------------------------------------------------------------------
(* Histories, where no deletion takes a task from under a session *)

\* The session of w holds a copy of the row of t, read from the table.
Holds(w, t) ==
  \/ jobs[w].stage = "read" /\ jobs[w].task = t /\ jobs[w].row.status # "none"
  \/ jobs[w].stage = "write" /\ jobs[w].plan.task = t /\ jobs[w].plan.old.status # "none"

(***************************************************************************)
(* An agent is deleted while no session holds a row of a task it requested *)
(* (where foreign keys are enforced the task goes too; one that takes its  *)
(* identifier later would inherit what such a session writes).             *)
(***************************************************************************)
QuietDelete ==
  \A a \in Agents, t \in Tasks, w \in Workers :
    EnforceFK /\ DeleteAgent(a) /\ tasks[t].requester = a => ~Holds(w, t)

(***************************************************************************)
(* What a session holds is grounded in the history: the row a handler      *)
(* loaded, however old, had its event recorded, and histories only grow.   *)
(***************************************************************************)
Grounded(w) ==
  /\ jobs[w].stage = "read" => Backed(jobs[w].task, jobs[w].row)
  /\ jobs[w].stage = "write" =>
       Prepared(jobs[w].plan) /\ Backed(jobs[w].plan.task, jobs[w].plan.old)

HistoryInv ==
  /\ CausalHistory
  /\ StatusExplained
  /\ \A w \in Workers : Grounded(w)

\* The status a handler loads carries the causes of the event it records.
LEMMA CauseAtHand ==
  ASSUME TypeOK, CausalHistory, NEW t \in Tasks, NEW row \in Task, Backed(t, row),
         NEW event \in Events, <<row.status, event>> \in HandlerEvents,
         Causes(event) # {}
  PROVE  Occurred(t, Causes(event))
<1>1. log[t] \in Seq(TaskEvent)
  BY DEF TypeOK
<1>2. \A i \in DOMAIN log[t] : log[t][i].event \in Events
  <2>1. \A i \in DOMAIN log[t] : log[t][i] \in TaskEvent
    BY <1>1
  <2>. QED
    BY <2>1 DEF TaskEvent
<1>3. row.status # "none"
  <2>1. event # "created"
    BY DEF Causes
  <2>. QED
    BY <2>1 DEF HandlerEvents
<1>4. PICK i \in DOMAIN log[t] : log[t][i].event = EventOf(row.status)
  BY <1>3 DEF Backed, Occurred
<1>5. \A j \in 1 .. i - 1 : j \in DOMAIN log[t]
  BY <1>1, <1>4
<1>6. CASE EventOf(row.status) \in Causes(event)
  BY <1>4, <1>6 DEF Occurred
<1>7. CASE Causes(EventOf(row.status)) # {} /\ Causes(EventOf(row.status)) \subseteq Causes(event)
  <2>1. PICK j \in 1 .. i - 1 : log[t][j].event \in Causes(log[t][i].event)
    BY <1>4, <1>7 DEF CausalHistory
  <2>. QED
    BY <2>1, <1>4, <1>5, <1>7 DEF Occurred
<1>8. \/ EventOf(row.status) \in Causes(event)
      \/ Causes(EventOf(row.status)) # {} /\ Causes(EventOf(row.status)) \subseteq Causes(event)
  BY DEF HandlerEvents, EventOf, Causes
<1>. QED
  BY <1>6, <1>7, <1>8

\* Histories only grow, so what occurred stays.
LEMMA OccurredStays ==
  ASSUME TypeOK, NEW w \in Workers, Commit(w), NEW t \in Tasks
  PROVE  /\ Len(log'[t]) \in Nat /\ Len(log[t]) <= Len(log'[t])
         /\ DOMAIN log[t] = 1 .. Len(log[t]) /\ DOMAIN log'[t] = 1 .. Len(log'[t])
         /\ \A i \in DOMAIN log[t] : log'[t][i] = log[t][i]
         /\ \A events : Occurred(t, events) => Occurred(t, events)'
<1>. DEFINE p == jobs[w].plan
            e == [event |-> p.event, actor |-> p.actor]
<1>1. log[t] \in Seq(TaskEvent)
  BY DEF TypeOK
<1>2. log'[t] = log[t] \/ log'[t] = Append(log[t], e)
  BY CommitShape DEF TypeOK
<1>3. /\ Len(log'[t]) \in Nat /\ Len(log[t]) <= Len(log'[t])
      /\ DOMAIN log[t] = 1 .. Len(log[t]) /\ DOMAIN log'[t] = 1 .. Len(log'[t])
      /\ \A i \in DOMAIN log[t] : log'[t][i] = log[t][i]
  BY <1>1, <1>2
<1>. QED
  BY <1>3 DEF Occurred

LEMMA BackedStays ==
  ASSUME TypeOK, NEW w \in Workers, Commit(w), NEW t \in Tasks, NEW row, Backed(t, row)
  PROVE  Backed(t, row)'
BY OccurredStays DEF Backed

\* An event recorded by a commit comes after all the others, and after its cause.
LEMMA CommitRecords ==
  ASSUME TypeOK, HistoryInv, NEW w \in Workers, Commit(w), jobs[w].plan.event # "none"
  PROVE  LET p == jobs[w].plan
             n == Len(log[p.task]) + 1
         IN
         /\ n \in DOMAIN log'[p.task]
         /\ DOMAIN log'[p.task] = 1 .. n
         /\ log'[p.task][n].event = p.event
         /\ Causes(p.event) # {} => Occurred(p.task, Causes(p.event))
<1>. DEFINE p == jobs[w].plan
            n == Len(log[p.task]) + 1
            e == [event |-> p.event, actor |-> p.actor]
<1>1. p \in WriteSet
  BY CommitShape
<1>2. p.task \in Tasks /\ p.event \in Events \cup {"none"} /\ p.old \in Task
  BY <1>1 DEF WriteSet
<1>3. log[p.task] \in Seq(TaskEvent)
  BY <1>2 DEF TypeOK
<1>4. log'[p.task] = Append(log[p.task], e)
  BY <1>2, CommitShape DEF TypeOK
<1>5. n \in DOMAIN log'[p.task] /\ DOMAIN log'[p.task] = 1 .. n /\ log'[p.task][n] = e
  BY <1>3, <1>4
<1>6. jobs[w].stage = "write"
  BY DEF Commit
<1>7. Prepared(p) /\ Backed(p.task, p.old)
  BY <1>6 DEF HistoryInv, Grounded
<1>8. <<p.old.status, p.event>> \in HandlerEvents
  BY <1>7 DEF Prepared
<1>9. Causes(p.event) # {} => Occurred(p.task, Causes(p.event))
  BY <1>2, <1>7, <1>8, CauseAtHand DEF HistoryInv
<1>. QED
  BY <1>5, <1>9

LEMMA CommitCausal ==
  ASSUME TypeOK, HistoryInv, NEW w \in Workers, Commit(w)
  PROVE  CausalHistory'
<1>. DEFINE p == jobs[w].plan
<1>. SUFFICES ASSUME NEW t \in Tasks, NEW i \in DOMAIN log'[t],
                     Causes(log'[t][i].event) # {}
              PROVE  \E j \in 1 .. i - 1 : log'[t][j].event \in Causes(log'[t][i].event)
  BY DEF CausalHistory
<1>1. CASE i \in DOMAIN log[t]
  <2>1. log'[t][i] = log[t][i]
    BY <1>1, OccurredStays
  <2>2. PICK j \in 1 .. i - 1 : log[t][j].event \in Causes(log[t][i].event)
    BY <1>1, <2>1 DEF HistoryInv, CausalHistory
  <2>3. j \in DOMAIN log[t]
    BY <1>1, <2>2, OccurredStays
  <2>. QED
    BY <2>1, <2>2, <2>3, OccurredStays
<1>2. CASE i \notin DOMAIN log[t]
  <2>1. p.event # "none" /\ t = p.task
    BY <1>2, CommitShape DEF TypeOK
  <2>2. /\ DOMAIN log'[t] = 1 .. Len(log[t]) + 1
        /\ log'[t][Len(log[t]) + 1].event = p.event
        /\ Causes(p.event) # {} => Occurred(t, Causes(p.event))
    BY <2>1, CommitRecords
  <2>3. DOMAIN log[t] = 1 .. Len(log[t])
    BY OccurredStays
  <2>3a. log[t] \in Seq(TaskEvent)
    BY DEF TypeOK
  <2>3b. Len(log[t]) \in Nat
    BY <2>3a
  <2>4. i = Len(log[t]) + 1
    BY <1>2, <2>2, <2>3, <2>3b
  <2>5. PICK j \in DOMAIN log[t] : log[t][j].event \in Causes(p.event)
    BY <2>2, <2>4 DEF Occurred
  <2>6. j \in 1 .. i - 1
    BY <2>3, <2>3b, <2>4
  <2>. QED
    BY <2>2, <2>4, <2>5, <2>6, OccurredStays
<1>. QED
  BY <1>1, <1>2

LEMMA CommitExplained ==
  ASSUME TypeOK, HistoryInv, NEW w \in Workers, Commit(w)
  PROVE  StatusExplained'
<1>. DEFINE p == jobs[w].plan
<1>. SUFFICES ASSUME NEW t \in Tasks PROVE Backed(t, tasks[t])'
  BY DEF StatusExplained
<1>1. p \in WriteSet /\ p.task \in Tasks
  BY CommitShape DEF WriteSet
<1>2. Prepared(p)
  BY DEF HistoryInv, Grounded, Commit
<1>3. Backed(t, tasks[t])
  BY DEF HistoryInv, StatusExplained
<1>4. CASE tasks'[t].status = tasks[t].status
  BY <1>3, <1>4, OccurredStays DEF Backed
<1>5. CASE tasks'[t].status # tasks[t].status
  <2>1. t = p.task /\ tasks'[t] = Merged(tasks[t], p.old, p.new)
    <3>1. tasks' = [tasks EXCEPT ![p.task] = Merged(tasks[p.task], p.old, p.new)]
      BY CommitShape
    <3>2. tasks \in [Tasks -> Task]
      BY DEF TypeOK
    <3>3. t # p.task => tasks'[t] = tasks[t]
      BY <3>1, <3>2
    <3>. QED
      BY <1>1, <1>5, <3>1, <3>2, <3>3
  <2>2. p.new.status # p.old.status /\ tasks'[t].status = p.new.status
    BY <1>5, <2>1 DEF Merged, Dirty
  <2>3. p.event # "none" /\ p.event = EventOf(p.new.status)
    BY <1>2, <2>2 DEF Prepared
  <2>4. \E n \in DOMAIN log'[t] : log'[t][n].event = EventOf(tasks'[t].status)
    BY <2>1, <2>2, <2>3, CommitRecords
  <2>. QED
    BY <2>4 DEF Backed, Occurred
<1>. QED
  BY <1>4, <1>5

LEMMA CommitHistory ==
  ASSUME TypeOK, HistoryInv, NEW w \in Workers, Commit(w)
  PROVE  HistoryInv'
<1>1. ASSUME NEW v \in Workers PROVE Grounded(v)'
  <2>1. CASE v = w
    <3>1. jobs'[v] = Idle
      BY <2>1 DEF Commit, TypeOK
    <3>. QED
      BY <3>1 DEF Grounded, Idle
  <2>2. CASE v # w
    <3>1. jobs'[v] = jobs[v]
      BY <2>2, CommitShape DEF TypeOK
    <3>2. Grounded(v)
      BY DEF HistoryInv
    <3>3. CASE jobs[v].stage = "read"
      <4>1. Backed(jobs[v].task, jobs[v].row) /\ jobs[v].task \in Tasks
        BY <3>2, <3>3, JobShape DEF Grounded, ReadJobs
      <4>. QED
        BY <3>1, <3>3, <4>1, BackedStays DEF Grounded, Backed, Occurred
    <3>4. CASE jobs[v].stage = "write"
      <4>1. /\ Prepared(jobs[v].plan)
            /\ Backed(jobs[v].plan.task, jobs[v].plan.old)
            /\ jobs[v].plan.task \in Tasks
        BY <3>2, <3>4, JobShape DEF Grounded, WriteJobs, WriteSet
      <4>. QED
        BY <3>1, <3>4, <4>1, BackedStays DEF Grounded, Backed, Occurred
    <3>. QED
      BY <3>1, <3>3, <3>4 DEF Grounded
  <2>. QED
    BY <2>1, <2>2
<1>. QED
  BY <1>1, CommitCausal, CommitExplained DEF HistoryInv

\* Steps that leave tasks and histories alone keep every session grounded that
\* keeps its job.
LEMMA SessionsKept ==
  ASSUME TypeOK, HistoryInv, UNCHANGED <<tasks, log>>, NEW w,
         \A v \in Workers \ {w} : jobs'[v] = jobs[v],
         w \in Workers => Grounded(w)'
  PROVE  HistoryInv'
<1>1. ASSUME NEW v \in Workers, v # w PROVE Grounded(v)'
  <2>1. Grounded(v) /\ jobs'[v] = jobs[v] /\ log' = log
    BY <1>1 DEF HistoryInv
  <2>. QED
    BY <2>1 DEF Grounded, Backed, Occurred
<1>2. CausalHistory'
  BY DEF HistoryInv, CausalHistory
<1>3. StatusExplained'
  BY DEF HistoryInv, StatusExplained, Backed, Occurred
<1>. QED
  BY <1>1, <1>2, <1>3 DEF HistoryInv

\* A handler queues writes that start from a row with its history.
LEMMA HandlerHistory ==
  ASSUME TypeOK, HistoryInv, NEW w \in Workers, NEW a \in Agents, Handler(w, a)
  PROVE  HistoryInv'
<1>1. PICK p \in WriteSet : Queue(w, p) /\ Prepared(p) /\ FromRow(w, p)
  BY HandlerQueues
<1>2. Backed(p.task, p.old)
  <2>1. CASE p.old = NoTask
    BY <2>1 DEF Backed, NoTask
  <2>2. CASE jobs[w].stage = "read" /\ p.task = jobs[w].task /\ p.old = Row(w)
    <3>1. Backed(jobs[w].task, jobs[w].row)
      BY <2>2 DEF HistoryInv, Grounded
    <3>2. Backed(jobs[w].task, tasks[jobs[w].task])
      BY <2>2, RowType DEF HistoryInv, StatusExplained
    <3>. QED
      BY <2>2, <3>1, <3>2 DEF Row
  <2>. QED
    BY <1>1, <2>1, <2>2 DEF FromRow
<1>3. UNCHANGED <<tasks, log>>
  BY <1>1 DEF Queue, tables
<1>4. \A v \in Workers \ {w} : jobs'[v] = jobs[v]
  BY <1>1 DEF Queue, TypeOK
<1>5. jobs'[w] = [stage |-> "write", plan |-> p]
  BY <1>1 DEF Queue, TypeOK
<1>6. Grounded(w)'
  BY <1>1, <1>2, <1>3, <1>5 DEF Grounded, Backed, Occurred
<1>. QED
  BY <1>3, <1>4, <1>6, SessionsKept

\* A deletion that no session notices: a task keeps its history, or both go.
LEMMA DeleteHistory ==
  ASSUME EnforceFK, TypeOK, HistoryInv, NEW a \in Agents, DeleteAgent(a), QuietDelete
  PROVE  HistoryInv'
<1>1. \A t \in Tasks : tasks[t].requester = a =>
        /\ tasks'[t] = NoTask /\ log'[t] = <<>>
        /\ \A w \in Workers : ~Holds(w, t)
  BY DEF DeleteAgent, RowWithout, QuietDelete
<1>2. \A t \in Tasks : tasks[t].requester # a =>
        tasks'[t].status = tasks[t].status /\ log'[t] = log[t]
  <2>. SUFFICES ASSUME NEW t \in Tasks, tasks[t].requester # a
                PROVE  tasks'[t].status = tasks[t].status /\ log'[t] = log[t]
    OBVIOUS
  <2>1. tasks[t] \in Task
    BY DEF TypeOK
  <2>2. RowWithout(a, tasks[t]).status = tasks[t].status
    BY <2>1 DEF RowWithout, Task
  <2>3. tasks'[t] = RowWithout(a, tasks[t]) /\ log'[t] = log[t]
    BY DEF DeleteAgent
  <2>. QED
    BY <2>2, <2>3
<1>3. jobs' = jobs
  BY DEF DeleteAgent
<1>4. CausalHistory'
  BY <1>1, <1>2 DEF HistoryInv, CausalHistory
<1>5. StatusExplained'
  <2>. SUFFICES ASSUME NEW t \in Tasks PROVE Backed(t, tasks[t])'
    BY DEF StatusExplained
  <2>1. Backed(t, tasks[t])
    BY DEF HistoryInv, StatusExplained
  <2>. QED
    BY <1>1, <1>2, <2>1 DEF Backed, Occurred, NoTask
<1>6. ASSUME NEW w \in Workers PROVE Grounded(w)'
  <2>1. Grounded(w)
    BY DEF HistoryInv
  <2>2. CASE jobs[w].stage = "read"
    <3>1. jobs[w].task \in Tasks
      BY <2>2, JobShape DEF ReadJobs
    <3>2. CASE jobs[w].row.status = "none"
      BY <1>3, <2>2, <3>2 DEF Grounded, Backed
    <3>3. CASE jobs[w].row.status # "none"
      <4>1. tasks[jobs[w].task].requester # a
        BY <1>1, <2>2, <3>1, <3>3 DEF Holds
      <4>. QED
        BY <1>2, <1>3, <2>1, <2>2, <3>1, <4>1 DEF Grounded, Backed, Occurred
    <3>. QED
      BY <3>2, <3>3
  <2>3. CASE jobs[w].stage = "write"
    <3>1. jobs[w].plan.task \in Tasks
      BY <2>3, JobShape DEF WriteJobs, WriteSet
    <3>2. CASE jobs[w].plan.old.status = "none"
      BY <1>3, <2>1, <2>3, <3>2 DEF Grounded, Backed
    <3>3. CASE jobs[w].plan.old.status # "none"
      <4>1. tasks[jobs[w].plan.task].requester # a
        BY <1>1, <2>3, <3>1, <3>3 DEF Holds
      <4>. QED
        BY <1>2, <1>3, <2>1, <2>3, <3>1, <4>1 DEF Grounded, Backed, Occurred
    <3>. QED
      BY <3>2, <3>3
  <2>. QED
    BY <1>3, <2>2, <2>3 DEF Grounded
<1>. QED
  BY <1>4, <1>5, <1>6 DEF HistoryInv

\* No step breaks the histories, where no deletion disturbs a session.
LEMMA HistoryStep ==
  ASSUME TypeOK, HistoryInv, [Next]_vars, [QuietDelete]_vars
  PROVE  HistoryInv'
<1>1. ASSUME NEW w \in Workers, BeginAction(w) PROVE HistoryInv'
  <2>1. PICK t \in Tasks : jobs' = [jobs EXCEPT ![w] =
           [stage |-> "read", via |-> "rest", task |-> t, row |-> tasks[t],
            known |-> {}, able |-> {}, fresh |-> {}]]
    BY <1>1 DEF BeginAction
  <2>2. UNCHANGED <<tasks, log>> /\ Backed(t, tasks[t])
    BY <1>1 DEF BeginAction, tables, HistoryInv, StatusExplained
  <2>3. \A v \in Workers \ {w} : jobs'[v] = jobs[v]
    BY <2>1 DEF TypeOK
  <2>4. jobs'[w].stage = "read" /\ jobs'[w].task = t /\ jobs'[w].row = tasks[t]
    BY <2>1 DEF TypeOK
  <2>5. Grounded(w)'
    BY <2>2, <2>4 DEF Grounded, Backed, Occurred
  <2>. QED
    BY <2>2, <2>3, <2>5, SessionsKept
<1>2. ASSUME NEW w \in Workers, BeginEnvelope(w) PROVE HistoryInv'
  <2>1. PICK t \in Tasks : jobs' = [jobs EXCEPT ![w] =
           [stage |-> "read", via |-> "envelope", task |-> t, row |-> NoTask,
            known |-> agents, able |-> capable, fresh |-> MessageIds \ UsedIds]]
    BY <1>2 DEF BeginEnvelope
  <2>2. UNCHANGED <<tasks, log>>
    BY <1>2 DEF BeginEnvelope, tables
  <2>3. \A v \in Workers \ {w} : jobs'[v] = jobs[v]
    BY <2>1 DEF TypeOK
  <2>4. jobs'[w].stage = "read" /\ jobs'[w].row = NoTask
    BY <2>1 DEF TypeOK
  <2>5. Grounded(w)'
    BY <2>4 DEF Grounded, Backed, NoTask
  <2>. QED
    BY <2>2, <2>3, <2>5, SessionsKept
<1>3. ASSUME NEW w \in Workers, NEW a \in Agents, Handler(w, a) PROVE HistoryInv'
  BY <1>3, HandlerHistory
<1>4. ASSUME NEW w \in Workers, Commit(w) PROVE HistoryInv'
  BY <1>4, CommitHistory
<1>5. ASSUME NEW w \in Workers, Drop(w) PROVE HistoryInv'
  <2>1. UNCHANGED <<tasks, log>> /\ jobs'[w] = Idle
    BY <1>5 DEF Drop, tables, TypeOK
  <2>2. \A v \in Workers \ {w} : jobs'[v] = jobs[v]
    BY <1>5 DEF Drop, TypeOK
  <2>3. Grounded(w)'
    BY <2>1 DEF Grounded, Idle
  <2>. QED
    BY <2>1, <2>2, <2>3, SessionsKept
<1>6. CASE UNCHANGED <<tasks, log, jobs>>
  <2>1. \A v \in Workers : Grounded(v)'
    BY <1>6 DEF HistoryInv, Grounded, Backed, Occurred
  <2>2. CausalHistory' /\ StatusExplained'
    BY <1>6 DEF HistoryInv, CausalHistory, StatusExplained, Backed, Occurred
  <2>. QED
    BY <2>1, <2>2 DEF HistoryInv
<1>7. ASSUME NEW a \in Agents, RegisterAgent(a) \/ UpdateAgent(a) PROVE HistoryInv'
  BY <1>6, <1>7 DEF RegisterAgent, UpdateAgent
<1>8. ASSUME NEW a \in Agents, DeleteAgent(a) PROVE HistoryInv'
  <2>1. CASE EnforceFK /\ QuietDelete
    BY <1>8, <2>1, DeleteHistory
  <2>2. CASE ~EnforceFK
    BY <1>6, <1>8, <2>2 DEF DeleteAgent
  <2>3. CASE UNCHANGED vars
    BY <1>6, <2>3 DEF vars
  <2>. QED
    BY <2>1, <2>2, <2>3
<1>. QED
  BY <1>1, <1>2, <1>3, <1>4, <1>5, <1>6, <1>7, <1>8 DEF Next, vars

\* The inductive invariant behind the two theorems below.
THEOREM HistoryInvariant == Spec /\ [][QuietDelete]_vars => [](TypeOK /\ HistoryInv)
<1>1. Init => HistoryInv
  BY DEF Init, HistoryInv, CausalHistory, StatusExplained, Backed, Grounded, NoTask, Idle
<1>2. TypeOK /\ HistoryInv /\ [Next]_vars /\ [QuietDelete]_vars => HistoryInv'
  BY HistoryStep
<1>. QED
  BY <1>1, <1>2, TypeCorrect, PTL DEF Spec

(***************************************************************************)
(* However many handlers of a task interleave, its history has no effect   *)
(* before its cause.  On SQLite always; on Postgres as long as no deletion *)
(* takes a task whose row a session holds.                                 *)
(***************************************************************************)
THEOREM HistoriesCausal == Spec /\ [][QuietDelete]_vars => []CausalHistory
<1>1. HistoryInv => CausalHistory
  BY DEF HistoryInv
<1>. QED
  BY <1>1, HistoryInvariant, PTL

(***************************************************************************)
(* Under the same condition, every status a task shows has the event that  *)
(* set it in its history.                                                  *)
(***************************************************************************)
THEOREM StatusesExplained == Spec /\ [][QuietDelete]_vars => []StatusExplained
<1>1. HistoryInv => StatusExplained
  BY DEF HistoryInv
<1>. QED
  BY <1>1, HistoryInvariant, PTL

-----------------------------------------------------------------------------
(* What the handlers decide *)

\* The events a message brings about.
MessageEvents == {"accepted", "rejected", "progress", "result", "verified"}

(***************************************************************************)
(* The writes a session has queued are those of one handler: its event,    *)
(* the row it loaded, who acts, whom it credits.                           *)
(***************************************************************************)
Decided(p) ==
  LET old == p.old
      new == p.new
      a == p.actor
      Moved(to) == new = [old EXCEPT !.status = to]
  IN
  /\ p.event \notin {"none", "created"} => <<old.status, p.event>> \in HandlerEvents
  /\ p.event = "none" => new = old /\ p.credit = {}
  /\ p.event = "created" =>
       /\ old = NoTask /\ p.credit = {}
       /\ new.requester = a /\ new.status = "requested"
  /\ p.event = "accepted" =>
       /\ old.assignee \in {None, a} /\ p.credit = {}
       /\ new = [old EXCEPT !.status = "accepted", !.assignee = a]
  /\ p.event = "rejected" =>
       /\ a \in {old.requester, old.assignee} \/ old.assignee = None
       /\ new = [old EXCEPT !.status = "rejected",
                            !.assignee = IF a = old.requester THEN @ ELSE a]
       /\ p.credit = {}
  /\ p.event = "progress" => old.assignee = a /\ Moved("in_progress") /\ p.credit = {}
  /\ p.event = "result" =>
       old.assignee = a /\ Moved("completed") /\ p.credit = {<<a, "task_completed">>}
  /\ p.event = "failed" =>
       /\ a \in {old.requester, old.assignee} /\ Moved("failed")
       /\ \A c \in p.credit : c[2] = "task_failed"
  /\ p.event = "verified" =>
       /\ a # old.assignee /\ Moved("verified")
       /\ \A c \in p.credit : c[2] = "result_verified"
  /\ p.event = "disputed" =>
       Moved("disputed") /\ \A c \in p.credit : c[2] = "dispute"

\* A handler that a message may bring about queues that message.
Carried(p) ==
  /\ IsFiniteSet(p.sent)
  /\ p.event \in MessageEvents =>
       \E id \in MessageIds : p.sent = {Msg(id, MessageOf(p.event), p.actor, p.task)}

PlanOK(w) == jobs[w].stage = "write" => Decided(jobs[w].plan) /\ Carried(jobs[w].plan)

PlanInv == \A w \in Workers : PlanOK(w)

LEMMA HandlerDecides ==
  ASSUME TypeOK, NEW w \in Workers, NEW a \in Agents, Handler(w, a)
  PROVE  Decided(jobs'[w].plan) /\ Carried(jobs'[w].plan)
<1>0. \A x : IsFiniteSet({x})
  BY FS_Singleton
<1>0a. IsFiniteSet({})
  BY FS_EmptySet
<1>0b. ASSUME NEW p, Queue(w, p) PROVE jobs'[w].plan = p
  BY <1>0b DEF Queue, TypeOK
<1>1. ASSUME NEW t \in Tasks, NEW b \in MaybeAgent, CreateTask(w, t, a, b)
      PROVE  Decided(jobs'[w].plan) /\ Carried(jobs'[w].plan)
  <2>1. PICK sent \in IF b = None THEN {{}}
                      ELSE {{Msg(i, "REQUEST", a, t)} : i \in FreshIds} :
               Queue(w, Creation(t, a, b, sent))
    BY <1>1 DEF CreateTask
  <2>2. IsFiniteSet(sent)
    BY <2>1, <1>0, <1>0a
  <2>3. jobs'[w].plan = Creation(t, a, b, sent)
    BY <2>1, <1>0b
  <2>4. Decided(Creation(t, a, b, sent)) /\ Carried(Creation(t, a, b, sent))
    BY <2>2 DEF Decided, Carried, Creation, MessageEvents
  <2>. QED
    BY <2>3, <2>4
<1>2. ASSUME NEW id \in MessageIds, NEW b \in Agents, ApplyRequest(w, a, b, id)
      PROVE  Decided(jobs'[w].plan) /\ Carried(jobs'[w].plan)
  <2>. DEFINE t == jobs[w].task
              sent == {Msg(id, "REQUEST", a, t)}
  <2>1. jobs'[w].plan = Creation(t, a, b, sent)
    BY <1>2, <1>0b DEF ApplyRequest
  <2>2. IsFiniteSet(sent)
    BY <1>0
  <2>. HIDE DEF t, sent
  <2>3. Decided(Creation(t, a, b, sent)) /\ Carried(Creation(t, a, b, sent))
    BY <2>2 DEF Decided, Carried, Creation, MessageEvents
  <2>. QED
    BY <2>1, <2>3
<1>3. ASSUME NEW id \in MessageIds, NEW type \in MESSAGE_TYPES, KeepMessage(w, a, type, id)
      PROVE  Decided(jobs'[w].plan) /\ Carried(jobs'[w].plan)
  <2>. DEFINE sent == {Msg(id, type, a, jobs[w].task)}
              p == Change(w, a, Row(w), "none", sent, {})
  <2>1. jobs'[w].plan = p
    BY <1>3, <1>0b DEF KeepMessage
  <2>2. IsFiniteSet(sent)
    BY <1>0
  <2>. HIDE DEF sent
  <2>3. Decided(p) /\ Carried(p)
    BY <2>2 DEF Decided, Carried, Change, MessageEvents
  <2>. QED
    BY <2>1, <2>3
<1>4. ASSUME NEW id \in MessageIds, AcceptTask(w, a, id)
      PROVE  Decided(jobs'[w].plan) /\ Carried(jobs'[w].plan)
  <2>. DEFINE p == Change(w, a, [Row(w) EXCEPT !.status = "accepted", !.assignee = a],
                          "accepted", {Msg(id, "ACCEPT", a, jobs[w].task)}, {})
  <2>1. jobs'[w].plan = p
    BY <1>4, <1>0b DEF AcceptTask
  <2>2. /\ <<Row(w).status, "accepted">> \in HandlerEvents
        /\ Row(w).assignee \in {None, a}
    BY <1>4 DEF AcceptTask, OnTask, Allowed, EnsureAssignee, TASK_TRANSITIONS, HandlerEvents
  <2>3. /\ p.event = "accepted" /\ p.actor = a /\ p.task = jobs[w].task /\ p.old = Row(w)
        /\ p.new = [Row(w) EXCEPT !.status = "accepted", !.assignee = a]
        /\ p.sent = {Msg(id, "ACCEPT", a, jobs[w].task)} /\ p.credit = {}
    BY DEF Change
  <2>. HIDE DEF p
  <2>4. Decided(p)
    BY <2>2, <2>3 DEF Decided
  <2>5. Carried(p)
    BY <2>3, <1>0 DEF Carried, MessageOf
  <2>. QED
    BY <2>1, <2>4, <2>5
<1>5. ASSUME NEW id \in MessageIds, RejectTask(w, a, id)
      PROVE  Decided(jobs'[w].plan) /\ Carried(jobs'[w].plan)
  <2>. DEFINE row == Row(w)
              holder == IF a # row.requester /\ row.assignee = None THEN a ELSE row.assignee
              p == Change(w, a, [row EXCEPT !.status = "rejected", !.assignee = holder],
                          "rejected", {Msg(id, "REJECT", a, jobs[w].task)}, {})
  <2>1. jobs'[w].plan = p
    BY <1>5, <1>0b DEF RejectTask
  <2>2. /\ <<row.status, "rejected">> \in HandlerEvents
        /\ a \in {row.requester, row.assignee} \/ row.assignee = None
    BY <1>5 DEF RejectTask, OnTask, Allowed, TASK_TRANSITIONS, HandlerEvents
  <2>3. /\ p.event = "rejected" /\ p.actor = a /\ p.task = jobs[w].task /\ p.old = row
        /\ p.new = [row EXCEPT !.status = "rejected", !.assignee = holder]
        /\ p.sent = {Msg(id, "REJECT", a, jobs[w].task)} /\ p.credit = {}
    BY DEF Change
  <2>4. holder = IF a = row.requester THEN row.assignee ELSE a
    BY <2>2
  <2>. HIDE DEF p, row, holder
  <2>5. Decided(p)
    BY <2>2, <2>3, <2>4 DEF Decided
  <2>6. Carried(p)
    BY <2>3, <1>0 DEF Carried, MessageOf
  <2>. QED
    BY <2>1, <2>5, <2>6
<1>6. ASSUME NEW id \in MessageIds, ProgressTask(w, a, id)
      PROVE  Decided(jobs'[w].plan) /\ Carried(jobs'[w].plan)
  <2>. DEFINE p == Change(w, a, [Row(w) EXCEPT !.status = "in_progress"],
                          "progress", {Msg(id, "PROGRESS", a, jobs[w].task)}, {})
  <2>1. jobs'[w].plan = p
    BY <1>6, <1>0b DEF ProgressTask
  <2>2. <<Row(w).status, "progress">> \in HandlerEvents /\ Row(w).assignee = a
    BY <1>6 DEF ProgressTask, HandlerEvents
  <2>3. /\ p.event = "progress" /\ p.actor = a /\ p.task = jobs[w].task /\ p.old = Row(w)
        /\ p.new = [Row(w) EXCEPT !.status = "in_progress"]
        /\ p.sent = {Msg(id, "PROGRESS", a, jobs[w].task)} /\ p.credit = {}
    BY DEF Change
  <2>. HIDE DEF p
  <2>4. Decided(p)
    BY <2>2, <2>3 DEF Decided
  <2>5. Carried(p)
    BY <2>3, <1>0 DEF Carried, MessageOf
  <2>. QED
    BY <2>1, <2>4, <2>5
<1>7. ASSUME NEW id \in MessageIds, SubmitResult(w, a, id)
      PROVE  Decided(jobs'[w].plan) /\ Carried(jobs'[w].plan)
  <2>. DEFINE p == Change(w, a, [Row(w) EXCEPT !.status = "completed"],
                          "result", {Msg(id, "RESULT", a, jobs[w].task)},
                          {<<a, "task_completed">>})
  <2>1. jobs'[w].plan = p
    BY <1>7, <1>0b DEF SubmitResult
  <2>2. <<Row(w).status, "result">> \in HandlerEvents /\ Row(w).assignee = a
    BY <1>7 DEF SubmitResult, HandlerEvents
  <2>3. /\ p.event = "result" /\ p.actor = a /\ p.task = jobs[w].task /\ p.old = Row(w)
        /\ p.new = [Row(w) EXCEPT !.status = "completed"]
        /\ p.sent = {Msg(id, "RESULT", a, jobs[w].task)} /\ p.credit = {<<a, "task_completed">>}
    BY DEF Change
  <2>. HIDE DEF p
  <2>4. Decided(p)
    BY <2>2, <2>3 DEF Decided
  <2>5. Carried(p)
    BY <2>3, <1>0 DEF Carried, MessageOf
  <2>. QED
    BY <2>1, <2>4, <2>5
<1>8. ASSUME NEW id \in MessageIds, VerifyTask(w, a, id)
      PROVE  Decided(jobs'[w].plan) /\ Carried(jobs'[w].plan)
  <2>. DEFINE credit == ({Row(w).assignee} \ {None}) \X {"result_verified"}
              p == Change(w, a, [Row(w) EXCEPT !.status = "verified"],
                          "verified", {Msg(id, "VERIFY", a, jobs[w].task)}, credit)
  <2>1. jobs'[w].plan = p
    BY <1>8, <1>0b DEF VerifyTask
  <2>2. <<Row(w).status, "verified">> \in HandlerEvents /\ a # Row(w).assignee
    BY <1>8 DEF VerifyTask, Independent, Allowed, TASK_TRANSITIONS, HandlerEvents
  <2>3. /\ p.event = "verified" /\ p.actor = a /\ p.task = jobs[w].task /\ p.old = Row(w)
        /\ p.new = [Row(w) EXCEPT !.status = "verified"]
        /\ p.sent = {Msg(id, "VERIFY", a, jobs[w].task)} /\ p.credit = credit
    BY DEF Change
  <2>4. \A c \in credit : c[2] = "result_verified"
    OBVIOUS
  <2>. HIDE DEF p, credit
  <2>5. Decided(p)
    BY <2>2, <2>3, <2>4 DEF Decided
  <2>6. Carried(p)
    BY <2>3, <1>0 DEF Carried, MessageOf
  <2>. QED
    BY <2>1, <2>5, <2>6
<1>9. ASSUME FailTask(w, a) PROVE Decided(jobs'[w].plan) /\ Carried(jobs'[w].plan)
  <2>. DEFINE p == Change(w, a, [Row(w) EXCEPT !.status = "failed"],
                          "failed", {}, {<<Blamed(w, a), "task_failed">>})
  <2>1. jobs'[w].plan = p
    BY <1>9, <1>0b DEF FailTask
  <2>2. /\ <<Row(w).status, "failed">> \in HandlerEvents
        /\ a \in {Row(w).requester, Row(w).assignee}
    BY <1>9 DEF FailTask, Allowed, TASK_TRANSITIONS, HandlerEvents
  <2>3. /\ p.event = "failed" /\ p.actor = a /\ p.old = Row(w)
        /\ p.new = [Row(w) EXCEPT !.status = "failed"]
        /\ p.sent = {} /\ p.credit = {<<Blamed(w, a), "task_failed">>}
    BY DEF Change
  <2>. HIDE DEF p
  <2>4. Decided(p)
    BY <2>2, <2>3 DEF Decided
  <2>5. Carried(p)
    BY <2>3, <1>0a DEF Carried, MessageEvents
  <2>. QED
    BY <2>1, <2>4, <2>5
<1>10. ASSUME DisputeTask(w, a) PROVE Decided(jobs'[w].plan) /\ Carried(jobs'[w].plan)
  <2>. DEFINE p == Change(w, a, [Row(w) EXCEPT !.status = "disputed"],
                          "disputed", {}, {<<Blamed(w, a), "dispute">>})
  <2>1. jobs'[w].plan = p
    BY <1>10, <1>0b DEF DisputeTask
  <2>2. <<Row(w).status, "disputed">> \in HandlerEvents
    BY <1>10 DEF DisputeTask, Allowed, TASK_TRANSITIONS, HandlerEvents
  <2>3. /\ p.event = "disputed" /\ p.actor = a /\ p.old = Row(w)
        /\ p.new = [Row(w) EXCEPT !.status = "disputed"]
        /\ p.sent = {} /\ p.credit = {<<Blamed(w, a), "dispute">>}
    BY DEF Change
  <2>. HIDE DEF p
  <2>4. Decided(p)
    BY <2>2, <2>3 DEF Decided
  <2>5. Carried(p)
    BY <2>3, <1>0a DEF Carried, MessageEvents
  <2>. QED
    BY <2>1, <2>4, <2>5
<1>. QED
  BY <1>1, <1>2, <1>3, <1>4, <1>5, <1>6, <1>7, <1>8, <1>9, <1>10 DEF Handler

\* How a step changes what a thread holds.
LEMMA JobStep ==
  ASSUME TypeOK, [Next]_vars, NEW v \in Workers
  PROVE  \/ jobs'[v] = jobs[v]
         \/ jobs'[v].stage \in {"idle", "read"}
         \/ \E a \in Agents : Handler(v, a)
<1>1. ASSUME NEW w \in Workers,
             BeginAction(w) \/ BeginEnvelope(w) \/ Commit(w) \/ Drop(w)
      PROVE  jobs'[v] = jobs[v] \/ jobs'[v].stage \in {"idle", "read"}
  <2>1. ASSUME NEW j, jobs' = [jobs EXCEPT ![w] = j], j.stage \in {"idle", "read"}
        PROVE  jobs'[v] = jobs[v] \/ jobs'[v].stage \in {"idle", "read"}
    BY <2>1 DEF TypeOK
  <2>2. CASE BeginAction(w)
    <3>1. PICK t \in Tasks : jobs' = [jobs EXCEPT ![w] =
             [stage |-> "read", via |-> "rest", task |-> t, row |-> tasks[t],
              known |-> {}, able |-> {}, fresh |-> {}]]
      BY <2>2 DEF BeginAction
    <3>. QED
      BY <3>1, <2>1
  <2>3. CASE BeginEnvelope(w)
    <3>1. PICK t \in Tasks : jobs' = [jobs EXCEPT ![w] =
             [stage |-> "read", via |-> "envelope", task |-> t, row |-> NoTask,
              known |-> agents, able |-> capable, fresh |-> MessageIds \ UsedIds]]
      BY <2>3 DEF BeginEnvelope
    <3>. QED
      BY <3>1, <2>1
  <2>4. CASE Commit(w) \/ Drop(w)
    BY <2>1, <2>4 DEF Commit, Drop, Idle
  <2>. QED
    BY <1>1, <2>2, <2>3, <2>4
<1>2. ASSUME NEW w \in Workers, NEW a \in Agents, Handler(w, a), w # v
      PROVE  jobs'[v] = jobs[v]
  <2>1. PICK p \in WriteSet : Queue(w, p)
    BY <1>2, HandlerQueues
  <2>. QED
    BY <2>1, <1>2 DEF Queue, TypeOK
<1>3. ASSUME NEW a \in Agents, RegisterAgent(a) \/ UpdateAgent(a) \/ DeleteAgent(a)
      PROVE  jobs'[v] = jobs[v]
  BY <1>3 DEF RegisterAgent, UpdateAgent, DeleteAgent
<1>4. CASE UNCHANGED vars
  BY <1>4 DEF vars
<1>. QED
  BY <1>1, <1>2, <1>3, <1>4 DEF Next

LEMMA PlansStep ==
  ASSUME TypeOK, PlanInv, [Next]_vars
  PROVE  PlanInv'
<1>. SUFFICES ASSUME NEW w \in Workers, jobs'[w].stage = "write"
              PROVE  Decided(jobs'[w].plan) /\ Carried(jobs'[w].plan)
  BY DEF PlanInv, PlanOK, Decided, Carried
<1>1. CASE jobs'[w] = jobs[w]
  BY <1>1 DEF PlanInv, PlanOK
<1>2. CASE \E a \in Agents : Handler(w, a)
  BY <1>2, HandlerDecides
<1>. QED
  BY <1>1, <1>2, JobStep

\* Every session's writes are those of a handler, always.
LEMMA PlansSound == Spec => [](TypeOK /\ PlanInv)
<1>1. Init => PlanInv
  BY DEF Init, PlanInv, PlanOK, Idle
<1>2. TypeOK /\ PlanInv /\ [Next]_vars => PlanInv'
  BY PlansStep
<1>. QED
  BY <1>1, <1>2, TypeCorrect, PTL DEF Spec

-----------------------------------------------------------------------------
(* References, where foreign keys are enforced *)

LEMMA CommitReferences ==
  ASSUME EnforceFK, TypeOK, PlanInv, ReferencesHold, NEW w \in Workers, Commit(w)
  PROVE  ReferencesHold'
<1>. DEFINE p == jobs[w].plan
            t == p.task
<1>1. /\ p \in WriteSet /\ t \in Tasks
      /\ p.old \in Task /\ p.new \in Task /\ p.actor \in Agents
      /\ p.event \in Events \cup {"none"}
  BY CommitShape DEF WriteSet
<1>2. Decided(p)
  BY DEF PlanInv, PlanOK, Commit
<1>3. RowMatches(p) /\ ForeignKeys(p) /\ agents' = agents
  BY DEF Commit
<1>4. /\ tasks'[t] = Merged(tasks[t], p.old, p.new)
      /\ \A x \in Tasks \ {t} : tasks'[x] = tasks[x] /\ log'[x] = log[x]
      /\ p.event = "none" => log' = log
  BY <1>1, CommitShape DEF TypeOK
<1>5. /\ tasks[t] \in Task
      /\ tasks[t].status # "none" =>
           tasks[t].requester \in agents /\ tasks[t].assignee \in agents \cup {None}
      /\ tasks[t].status = "none" => tasks[t] = NoTask /\ log[t] = <<>>
  BY <1>1 DEF ReferencesHold, TypeOK
<1>. HIDE DEF t
<1>6. /\ tasks'[t].status # "none" =>
           tasks'[t].requester \in agents' /\ tasks'[t].assignee \in agents' \cup {None}
      /\ tasks'[t].status = "none" => tasks'[t] = NoTask /\ log'[t] = <<>>
  <2>1. CASE p.event = "none"
    <3>1. tasks'[t] = tasks[t]
      BY <1>2, <1>4, <1>5, <2>1 DEF Decided, Merged, Dirty, Task
    <3>. QED
      BY <1>3, <1>4, <1>5, <2>1, <3>1
  <2>2. CASE p.event = "created"
    <3>1. p.old = NoTask /\ p.new.requester = p.actor /\ p.new.status = "requested"
      BY <1>2, <2>2 DEF Decided
    <3>2. p.new # p.old /\ p.actor # None /\ p.old.status = "none" /\ p.old.requester = None
          /\ p.old.assignee = None
      BY <1>1, <3>1, NoneAssumption DEF NoTask
    <3>3. tasks[t] = NoTask
      BY <1>3, <1>5, <3>2 DEF RowMatches, t
    <3>4. tasks'[t].status = "requested" /\ tasks'[t].requester = p.actor
          /\ tasks'[t].assignee = p.new.assignee
      BY <1>4, <3>1, <3>2, <3>3 DEF Merged, Dirty, NoTask
    <3>5. p.actor \in agents /\ p.new.assignee \in agents \cup {None}
      BY <1>3, <3>1, <3>2 DEF ForeignKeys
    <3>. QED
      BY <1>3, <3>4, <3>5
  <2>3. CASE p.event \notin {"none", "created"}
    <3>1. tasks[t].status # "none"
      BY <1>3, <2>3 DEF ForeignKeys, t
    <3>2. p.new.status # "none"
      BY <1>1, <1>2, <2>3 DEF Decided, Events, Task
    <3>3. tasks'[t].status \in {p.new.status, tasks[t].status}
      BY <1>4 DEF Merged, Dirty
    <3>4. tasks'[t].requester \in agents /\ tasks'[t].assignee \in agents \cup {None}
      BY <1>3, <1>4, <1>5, <3>1 DEF Merged, Dirty, ForeignKeys
    <3>. QED
      BY <1>3, <3>1, <3>2, <3>3, <3>4
  <2>. QED
    BY <2>1, <2>2, <2>3
<1>7. ASSUME NEW x \in Tasks
      PROVE  /\ tasks'[x].status # "none" =>
                  tasks'[x].requester \in agents' /\ tasks'[x].assignee \in agents' \cup {None}
             /\ tasks'[x].status = "none" => tasks'[x] = NoTask /\ log'[x] = <<>>
  <2>1. CASE x = t
    BY <1>6, <2>1
  <2>2. CASE x # t
    BY <1>3, <1>4, <2>2 DEF ReferencesHold
  <2>. QED
    BY <2>1, <2>2
<1>8. ASSUME NEW c \in DOMAIN contribs', contribs'[c] > 0 PROVE c[1] \in agents'
  <2>1. c \in DOMAIN contribs /\ contribs'[c] = IF c[3] = p.task /\ <<c[1], c[2]>> \in p.credit
                                                THEN contribs[c] + 1 ELSE contribs[c]
    BY DEF Commit, Credited
  <2>2. CASE <<c[1], c[2]>> \in p.credit
    BY <1>3, <2>2 DEF ForeignKeys
  <2>3. CASE <<c[1], c[2]>> \notin p.credit
    BY <1>3, <1>8, <2>1, <2>3 DEF ReferencesHold
  <2>. QED
    BY <2>2, <2>3
<1>. QED
  BY <1>7, <1>8 DEF ReferencesHold

LEMMA DeleteReferences ==
  ASSUME EnforceFK, TypeOK, ReferencesHold, NEW a \in Agents, DeleteAgent(a)
  PROVE  ReferencesHold'
<1>1. ASSUME NEW t \in Tasks
      PROVE  /\ tasks'[t].status # "none" =>
                  tasks'[t].requester \in agents' /\ tasks'[t].assignee \in agents' \cup {None}
             /\ tasks'[t].status = "none" => tasks'[t] = NoTask /\ log'[t] = <<>>
  <2>1. /\ tasks'[t] = RowWithout(a, tasks[t])
        /\ log'[t] = IF tasks[t].requester = a THEN <<>> ELSE log[t]
        /\ agents' = agents \ {a}
    BY DEF DeleteAgent
  <2>2. /\ tasks[t] \in Task
        /\ tasks[t].status # "none" =>
             tasks[t].requester \in agents /\ tasks[t].assignee \in agents \cup {None}
        /\ tasks[t].status = "none" => tasks[t] = NoTask /\ log[t] = <<>>
    BY DEF ReferencesHold, TypeOK
  <2>3. a # None
    BY NoneAssumption
  <2>4. CASE tasks[t].requester = a
    BY <2>1, <2>4 DEF RowWithout, NoTask
  <2>5. CASE tasks[t].requester # a /\ tasks[t].assignee = a
    <3>1. tasks'[t] = [tasks[t] EXCEPT !.assignee = None] /\ tasks[t] # NoTask
      BY <2>1, <2>3, <2>5 DEF RowWithout, NoTask
    <3>2. /\ tasks'[t].status = tasks[t].status /\ tasks'[t].requester = tasks[t].requester
          /\ tasks'[t].assignee = None
      BY <2>2, <3>1 DEF Task
    <3>. QED
      BY <2>1, <2>2, <2>5, <3>1, <3>2
  <2>6. CASE tasks[t].requester # a /\ tasks[t].assignee # a
    BY <2>1, <2>2, <2>6 DEF RowWithout
  <2>. QED
    BY <2>4, <2>5, <2>6
<1>2. ASSUME NEW c \in DOMAIN contribs', contribs'[c] > 0 PROVE c[1] \in agents'
  BY <1>2 DEF DeleteAgent, ReferencesHold
<1>. QED
  BY <1>1, <1>2 DEF ReferencesHold

(***************************************************************************)
(* With foreign keys enforced no task, event or contribution refers to a   *)
(* missing row, whatever is deleted while sessions hold rows they read     *)
(* before.  Of messages, which have no foreign keys, nothing is said.      *)
(***************************************************************************)
THEOREM RowsReferToRows ==
  ASSUME EnforceFK
  PROVE  Spec => []ReferencesHold
<1>1. Init => ReferencesHold
  BY DEF Init, ReferencesHold, NoTask
<1>2. TypeOK /\ PlanInv /\ ReferencesHold /\ [Next]_vars => ReferencesHold'
  <2>. SUFFICES ASSUME TypeOK, PlanInv, ReferencesHold, [Next]_vars PROVE ReferencesHold'
    OBVIOUS
  <2>1. CASE agents \subseteq agents' /\ UNCHANGED <<tasks, log, contribs>>
    BY <2>1 DEF ReferencesHold
  <2>2. ASSUME NEW w \in Workers, BeginAction(w) \/ BeginEnvelope(w) \/ Drop(w)
        PROVE  ReferencesHold'
    BY <2>1, <2>2 DEF BeginAction, BeginEnvelope, Drop, tables
  <2>3. ASSUME NEW w \in Workers, NEW a \in Agents, Handler(w, a) PROVE ReferencesHold'
    <3>1. PICK p \in WriteSet : Queue(w, p)
      BY <2>3, HandlerQueues
    <3>. QED
      BY <2>1, <3>1 DEF Queue, tables
  <2>4. ASSUME NEW w \in Workers, Commit(w) PROVE ReferencesHold'
    BY <2>4, CommitReferences
  <2>5. ASSUME NEW a \in Agents, RegisterAgent(a) \/ UpdateAgent(a) PROVE ReferencesHold'
    BY <2>1, <2>5 DEF RegisterAgent, UpdateAgent
  <2>6. ASSUME NEW a \in Agents, DeleteAgent(a) PROVE ReferencesHold'
    BY <2>6, DeleteReferences
  <2>7. CASE UNCHANGED vars
    BY <2>1, <2>7 DEF vars
  <2>. QED
    BY <2>2, <2>3, <2>4, <2>5, <2>6, <2>7 DEF Next
<1>. QED
  BY <1>1, <1>2, PlansSound, PTL DEF Spec

(***************************************************************************)
(* With foreign keys enforced a registered requester is never stuck with   *)
(* an open task: an agent that could not be told is no longer its          *)
(* assignee.                                                               *)
(***************************************************************************)
THEOREM RequesterNeverStuck ==
  ASSUME EnforceFK
  PROVE  Spec => []RequesterCanClose
<1>1. TypeOK /\ ReferencesHold => RequesterCanClose
  <2>. SUFFICES ASSUME TypeOK, ReferencesHold, NEW t \in Tasks,
                       tasks[t].requester \in agents,
                       tasks[t].status \notin {"rejected", "disputed"}
                PROVE  \/ <<tasks[t].status, "failed">> \in TASK_TRANSITIONS
                       \/ <<tasks[t].status, "disputed">> \in TASK_TRANSITIONS
                       \/ /\ <<tasks[t].status, "rejected">> \in TASK_TRANSITIONS
                          /\ tasks[t].assignee \in agents \cup {None}
    BY DEF RequesterCanClose
  <2>1. tasks[t].status # "none"
    BY NoneAssumption DEF ReferencesHold, NoTask, TypeOK
  <2>2. tasks[t].assignee \in agents \cup {None} /\ tasks[t].status \in Statuses
    BY <2>1 DEF ReferencesHold, TypeOK, Task
  <2>. QED
    BY <2>2 DEF Statuses, TASK_TRANSITIONS
<1>. QED
  BY <1>1, RowsReferToRows, TypeCorrect, PTL

-----------------------------------------------------------------------------
(* Counting: messages, events and contributions *)

Occurrences(s, E) == {i \in DOMAIN s : s[i] \in E}

LEMMA OccurrencesFinite ==
  ASSUME NEW s \in Seq(TaskEvent), NEW E
  PROVE  IsFiniteSet(Occurrences(s, E)) /\ Cardinality(Occurrences(s, E)) \in Nat
<1>1. IsFiniteSet(1 .. Len(s))
  BY FS_Interval
<1>2. Occurrences(s, E) \in SUBSET (1 .. Len(s))
  BY DEF Occurrences
<1>3. IsFiniteSet(Occurrences(s, E))
  BY <1>1, <1>2, FS_Subset
<1>. QED
  BY <1>3, FS_CardinalityType

\* What one more event adds to a count.
LEMMA OccurrencesAppend ==
  ASSUME NEW s \in Seq(TaskEvent), NEW x \in TaskEvent, NEW E
  PROVE  /\ x \in E => Cardinality(Occurrences(Append(s, x), E)) = Cardinality(Occurrences(s, E)) + 1
         /\ x \notin E => Occurrences(Append(s, x), E) = Occurrences(s, E)
<1>. DEFINE n == Len(s) + 1
<1>1. /\ Len(s) \in Nat /\ DOMAIN s = 1 .. Len(s) /\ DOMAIN Append(s, x) = 1 .. n
      /\ Append(s, x)[n] = x /\ \A i \in 1 .. Len(s) : Append(s, x)[i] = s[i]
  OBVIOUS
<1>2. n \in Nat /\ n \notin 1 .. Len(s) /\ 1 .. n = (1 .. Len(s)) \cup {n}
  BY <1>1
<1>. HIDE DEF n
<1>3. n \notin Occurrences(s, E)
  BY <1>1, <1>2 DEF Occurrences
<1>4. CASE x \in E
  <2>1. Occurrences(Append(s, x), E) = Occurrences(s, E) \cup {n}
    BY <1>1, <1>2, <1>4 DEF Occurrences
  <2>. QED
    BY <1>3, <1>4, <2>1, OccurrencesFinite, FS_AddElement
<1>5. CASE x \notin E
  BY <1>1, <1>2, <1>5 DEF Occurrences
<1>. QED
  BY <1>4, <1>5

\* The log of a task after a commit: the same, or one event longer.
LEMMA CommitLog ==
  ASSUME TypeOK, NEW w \in Workers, Commit(w), NEW t \in Tasks
  PROVE  LET p == jobs[w].plan
             e == [event |-> p.event, actor |-> p.actor]
         IN
         /\ log[t] \in Seq(TaskEvent)
         /\ t = p.task /\ p.event # "none" => e \in TaskEvent /\ log'[t] = Append(log[t], e)
         /\ t # p.task \/ p.event = "none" => log'[t] = log[t]
<1>. DEFINE p == jobs[w].plan
            e == [event |-> p.event, actor |-> p.actor]
<1>1. p.actor \in Agents /\ p.event \in Events \cup {"none"}
  BY CommitShape DEF WriteSet
<1>2. p.event # "none" => e \in TaskEvent
  BY <1>1 DEF TaskEvent
<1>. QED
  BY <1>2, CommitShape DEF TypeOK

Sent(t, a, e) == {m \in messages : m.task = t /\ m.from = a /\ m.type = MessageOf(e)}

Of(e, a) == {[event |-> e, actor |-> a]}

LEMMA EventCountIs ==
  ASSUME NEW t, NEW a, NEW e
  PROVE  /\ EventCount(t, a, e) = Cardinality(Occurrences(log[t], Of(e, a)))
         /\ EventCount(t, a, e)' = Cardinality(Occurrences(log'[t], Of(e, a)))
<1>1. {i \in DOMAIN log[t] : log[t][i] = [event |-> e, actor |-> a]} = Occurrences(log[t], Of(e, a))
  BY DEF Occurrences, Of
<1>2. {i \in DOMAIN log'[t] : log'[t][i] = [event |-> e, actor |-> a]} = Occurrences(log'[t], Of(e, a))
  BY DEF Occurrences, Of
<1>. QED
  BY <1>1, <1>2 DEF EventCount

AppliedInv == IsFiniteSet(messages) /\ AppliedOnce

LEMMA CommitApplied ==
  ASSUME TypeOK, PlanInv, AppliedInv, NEW w \in Workers, Commit(w)
  PROVE  AppliedInv'
<1>. DEFINE p == jobs[w].plan
<1>1. Carried(p)
  BY DEF PlanInv, PlanOK, Commit
<1>2. messages' = messages \cup p.sent /\ \A m \in p.sent : m.id \notin UsedIds
  BY DEF Commit, UniqueMessage
<1>3. IsFiniteSet(messages) /\ IsFiniteSet(messages')
  BY <1>1, <1>2, FS_Union DEF AppliedInv, Carried
<1>4. ASSUME NEW t \in Tasks, NEW a \in Agents, NEW e \in MessageEvents
      PROVE  EventCount(t, a, e)' <= Cardinality(Sent(t, a, e))'
  <2>. DEFINE S == Sent(t, a, e)
              S2 == {m \in messages' : m.task = t /\ m.from = a /\ m.type = MessageOf(e)}
              C == EventCount(t, a, e)
              x == [event |-> p.event, actor |-> p.actor]
  <2>1. S \in SUBSET messages /\ S2 \in SUBSET messages' /\ S \in SUBSET S2
    BY <1>2 DEF Sent
  <2>2. IsFiniteSet(S) /\ IsFiniteSet(S2)
    BY <1>3, <2>1, FS_Subset
  <2>3. Cardinality(S) \in Nat /\ Cardinality(S2) \in Nat /\ Cardinality(S) <= Cardinality(S2)
    BY <2>1, <2>2, FS_Subset, FS_CardinalityType
  <2>4. C <= Cardinality(S)
    BY DEF AppliedInv, AppliedOnce, Sent, MessageEvents
  <2>5. /\ C = Cardinality(Occurrences(log[t], Of(e, a))) /\ C \in Nat
        /\ C' = Cardinality(Occurrences(log'[t], Of(e, a)))
    <3>1. log[t] \in Seq(TaskEvent)
      BY DEF TypeOK
    <3>2. Cardinality(Occurrences(log[t], Of(e, a))) \in Nat
      BY <3>1, OccurrencesFinite
    <3>. QED
      BY <3>2, EventCountIs
  <2>. SUFFICES C' <= Cardinality(S2)
    BY DEF Sent
  <2>. HIDE DEF C, S, S2
  <2>6. CASE t = p.task /\ x \in Of(e, a)
    <3>1. p.event = e /\ p.actor = a /\ p.event # "none"
      BY <2>6 DEF Of, MessageEvents
    <3>2. PICK id \in MessageIds : p.sent = {Msg(id, MessageOf(e), a, t)}
      BY <1>1, <2>6, <3>1 DEF Carried
    <3>. DEFINE m == Msg(id, MessageOf(e), a, t)
    <3>3. m.task = t /\ m.from = a /\ m.type = MessageOf(e) /\ m.id = id
      BY DEF Msg
    <3>. HIDE DEF m
    <3>4. m \notin messages
      BY <1>2, <3>2 DEF UsedIds, m
    <3>5. S2 = S \cup {m} /\ m \notin S
      BY <1>2, <3>2, <3>3, <3>4 DEF S, S2, Sent, m
    <3>6. Cardinality(S2) = Cardinality(S) + 1
      BY <2>2, <3>5, FS_AddElement
    <3>7. log'[t] = Append(log[t], x) /\ log[t] \in Seq(TaskEvent) /\ x \in TaskEvent
      BY <2>6, <3>1, CommitLog
    <3>8. C' = C + 1
      BY <2>5, <2>6, <3>7, OccurrencesAppend
    <3>. QED
      BY <2>3, <2>4, <2>5, <3>6, <3>8
  <2>7. CASE t # p.task \/ x \notin Of(e, a)
    <3>1. C' = C
      <4>1. CASE t = p.task /\ p.event # "none"
        <5>1. log'[t] = Append(log[t], x) /\ log[t] \in Seq(TaskEvent) /\ x \in TaskEvent
          BY <4>1, CommitLog
        <5>. QED
          BY <2>5, <2>7, <4>1, <5>1, OccurrencesAppend
      <4>2. CASE t # p.task \/ p.event = "none"
        BY <2>5, <4>2, CommitLog
      <4>. QED
        BY <4>1, <4>2
    <3>. QED
      BY <2>3, <2>4, <2>5, <3>1
  <2>. QED
    BY <2>6, <2>7
<1>. QED
  BY <1>3, <1>4 DEF AppliedInv, AppliedOnce, Sent, MessageEvents

(***************************************************************************)
(* One message moves a task at most once, on both databases, whatever is   *)
(* repeated, in parallel or deleted: an agent has no more events of a kind *)
(* in a history than stored messages of that kind.                         *)
(***************************************************************************)
THEOREM MessagesApplyOnce == Spec => []AppliedOnce
<1>1. Init => AppliedInv
  <2>1. IsFiniteSet({}) /\ Cardinality({}) = 0
    BY FS_EmptySet
  <2>2. ASSUME Init, NEW t \in Tasks, NEW a \in Agents, NEW e
        PROVE  EventCount(t, a, e) = 0
    <3>1. log[t] = <<>>
      BY <2>2 DEF Init
    <3>2. {i \in DOMAIN log[t] : log[t][i] = [event |-> e, actor |-> a]} = {}
      BY <3>1
    <3>. QED
      BY <2>1, <3>2 DEF EventCount
  <2>3. ASSUME Init, NEW t \in Tasks, NEW a \in Agents, NEW e
        PROVE  Cardinality({m \in messages : m.task = t /\ m.from = a /\ m.type = MessageOf(e)}) = 0
    <3>1. {m \in messages : m.task = t /\ m.from = a /\ m.type = MessageOf(e)} = {}
      BY <2>3 DEF Init
    <3>. QED
      BY <2>1, <3>1
  <2>. QED
    BY <2>1, <2>2, <2>3 DEF Init, AppliedInv, AppliedOnce
<1>2. TypeOK /\ PlanInv /\ AppliedInv /\ [Next]_vars => AppliedInv'
  <2>. SUFFICES ASSUME TypeOK, PlanInv, AppliedInv, [Next]_vars PROVE AppliedInv'
    OBVIOUS
  <2>1. CASE UNCHANGED <<log, messages>>
    <3>1. log' = log /\ messages' = messages
      BY <2>1
    <3>2. \A t, a, e : EventCount(t, a, e)' = EventCount(t, a, e)
      BY <3>1 DEF EventCount
    <3>. QED
      BY <3>1, <3>2 DEF AppliedInv, AppliedOnce
  <2>2. ASSUME NEW w \in Workers, BeginAction(w) \/ BeginEnvelope(w) \/ Drop(w)
        PROVE  AppliedInv'
    BY <2>1, <2>2 DEF BeginAction, BeginEnvelope, Drop, tables
  <2>3. ASSUME NEW w \in Workers, NEW a \in Agents, Handler(w, a) PROVE AppliedInv'
    <3>1. PICK p \in WriteSet : Queue(w, p)
      BY <2>3, HandlerQueues
    <3>. QED
      BY <2>1, <3>1 DEF Queue, tables
  <2>4. ASSUME NEW w \in Workers, Commit(w) PROVE AppliedInv'
    BY <2>4, CommitApplied
  <2>5. ASSUME NEW a \in Agents, RegisterAgent(a) \/ UpdateAgent(a) PROVE AppliedInv'
    BY <2>1, <2>5 DEF RegisterAgent, UpdateAgent
  <2>6. ASSUME NEW d \in Agents, DeleteAgent(d) PROVE AppliedInv'
    <3>1. messages' = messages
      BY <2>6 DEF DeleteAgent
    <3>2. ASSUME NEW t \in Tasks, NEW a \in Agents, NEW e \in MessageEvents
          PROVE  EventCount(t, a, e)' <= Cardinality(Sent(t, a, e))
      <4>1. Sent(t, a, e) \in SUBSET messages
        BY DEF Sent
      <4>2. Cardinality(Sent(t, a, e)) \in Nat
        BY <4>1, FS_Subset, FS_CardinalityType DEF AppliedInv
      <4>3. EventCount(t, a, e) <= Cardinality(Sent(t, a, e))
        BY DEF AppliedInv, AppliedOnce, Sent, MessageEvents
      <4>4. log'[t] \in {<<>>, log[t]}
        BY <2>6 DEF DeleteAgent
      <4>5. CASE log'[t] = log[t]
        BY <4>3, <4>5 DEF EventCount
      <4>6. CASE log'[t] = <<>>
        <5>1. {i \in DOMAIN log'[t] : log'[t][i] = [event |-> e, actor |-> a]} = {}
          BY <4>6
        <5>. QED
          BY <4>2, <5>1, FS_EmptySet DEF EventCount
      <4>. QED
        BY <4>4, <4>5, <4>6
    <3>. QED
      BY <3>1, <3>2 DEF AppliedInv, AppliedOnce, Sent, MessageEvents
  <2>7. CASE UNCHANGED vars
    BY <2>1, <2>7 DEF vars
  <2>. QED
    BY <2>2, <2>3, <2>4, <2>5, <2>6, <2>7 DEF Next
<1>3. AppliedInv => AppliedOnce
  BY DEF AppliedInv
<1>. QED
  BY <1>1, <1>2, <1>3, PlansSound, PTL DEF Spec

-----------------------------------------------------------------------------
(* Contributions and their events *)

\* All the events of a kind in a history, whoever acted.
OfAny(e) == {x \in TaskEvent : x.event = e}

\* A credit comes with the event that earns it.
LEMMA CreditHasEvent ==
  ASSUME NEW p \in WriteSet, Decided(p), NEW c \in p.credit
  PROVE  /\ p.event = Earns(c[2]) /\ p.event # "none"
         /\ c[2] = "task_completed" => p.event = "result" /\ c[1] = p.actor
BY DEF WriteSet, Decided, Earns, Events, ContributionEvents

LEMMA AnyCountIs ==
  ASSUME TypeOK, NEW t \in Tasks, NEW e
  PROVE  {i \in DOMAIN log[t] : log[t][i].event = e} = Occurrences(log[t], OfAny(e))
<1>1. log[t] \in Seq(TaskEvent)
  BY DEF TypeOK
<1>2. \A i \in DOMAIN log[t] : log[t][i] \in TaskEvent
  BY <1>1
<1>. QED
  BY <1>2 DEF Occurrences, OfAny

LEMMA CommitEarned ==
  ASSUME TypeOK, PlanInv, ContributionsEarned, NEW w \in Workers, Commit(w)
  PROVE  ContributionsEarned'
<1>. DEFINE p == jobs[w].plan
            x == [event |-> p.event, actor |-> p.actor]
<1>1. p \in WriteSet /\ Decided(p) /\ TypeOK'
  BY CommitShape, CommitType DEF PlanInv, PlanOK, Commit
<1>2. ASSUME NEW t \in Tasks, NEW kind \in ContributionEvents, NEW a \in Agents, NEW E,
             LET n == contribs[<<a, kind, t>>] IN n <= Cardinality(Occurrences(log[t], E)),
             t = p.task /\ <<a, kind>> \in p.credit => x \in E
      PROVE  contribs'[<<a, kind, t>>] <= Cardinality(Occurrences(log'[t], E))
  <2>. DEFINE n == contribs[<<a, kind, t>>]
              before == Cardinality(Occurrences(log[t], E))
              after == Cardinality(Occurrences(log'[t], E))
  <2>1. n \in Nat
    BY DEF TypeOK
  <2>2. log[t] \in Seq(TaskEvent)
    BY DEF TypeOK
  <2>3. before \in Nat /\ n <= before
    BY <1>2, <2>2, OccurrencesFinite
  <2>4. contribs'[<<a, kind, t>>] = IF t = p.task /\ <<a, kind>> \in p.credit THEN n + 1 ELSE n
    BY DEF Commit, Credited, TypeOK
  <2>5. CASE t = p.task /\ <<a, kind>> \in p.credit
    <3>1. x \in E /\ p.event # "none"
      BY <1>1, <1>2, <2>5, CreditHasEvent
    <3>2. log'[t] = Append(log[t], x) /\ x \in TaskEvent
      BY <2>5, <3>1, CommitLog
    <3>3. after = before + 1
      BY <2>2, <3>1, <3>2, OccurrencesAppend
    <3>. QED
      BY <2>1, <2>3, <2>4, <2>5, <3>3
  <2>6. CASE ~(t = p.task /\ <<a, kind>> \in p.credit)
    <3>1. after \in {before, before + 1}
      <4>1. CASE t = p.task /\ p.event # "none"
        <5>1. log'[t] = Append(log[t], x) /\ x \in TaskEvent
          BY <4>1, CommitLog
        <5>. QED
          BY <2>2, <5>1, OccurrencesAppend
      <4>2. CASE t # p.task \/ p.event = "none"
        BY <4>2, CommitLog
      <4>. QED
        BY <4>1, <4>2
    <3>. QED
      BY <2>1, <2>3, <2>4, <2>6, <3>1
  <2>. QED
    BY <2>5, <2>6
<1>3. ASSUME NEW t \in Tasks, NEW kind \in ContributionEvents, NEW a \in Agents
      PROVE  contribs'[<<a, kind, t>>] <=
               Cardinality({i \in DOMAIN log'[t] : log'[t][i].event = Earns(kind)})
  <2>1. contribs[<<a, kind, t>>] <= Cardinality(Occurrences(log[t], OfAny(Earns(kind))))
    BY AnyCountIs DEF ContributionsEarned
  <2>2. t = p.task /\ <<a, kind>> \in p.credit => x \in OfAny(Earns(kind))
    <3>. SUFFICES ASSUME t = p.task, <<a, kind>> \in p.credit PROVE x \in OfAny(Earns(kind))
      OBVIOUS
    <3>1. p.event = Earns(kind) /\ p.event # "none"
      BY <1>1, CreditHasEvent
    <3>2. x \in TaskEvent
      BY <3>1, CommitLog
    <3>. QED
      BY <3>1, <3>2 DEF OfAny
  <2>3. contribs'[<<a, kind, t>>] <= Cardinality(Occurrences(log'[t], OfAny(Earns(kind))))
    BY <1>2, <2>1, <2>2
  <2>4. {i \in DOMAIN log'[t] : log'[t][i].event = Earns(kind)}
          = Occurrences(log'[t], OfAny(Earns(kind)))
    <3>1. log'[t] \in Seq(TaskEvent)
      BY <1>1 DEF TypeOK
    <3>2. \A i \in DOMAIN log'[t] : log'[t][i] \in TaskEvent
      BY <3>1
    <3>. QED
      BY <3>2 DEF Occurrences, OfAny
  <2>. QED
    BY <2>3, <2>4
<1>4. ASSUME NEW t \in Tasks, NEW a \in Agents
      PROVE  contribs'[<<a, "task_completed", t>>] <= EventCount(t, a, "result")'
  <2>0. "task_completed" \in ContributionEvents
    BY DEF ContributionEvents
  <2>1. contribs[<<a, "task_completed", t>>] <= Cardinality(Occurrences(log[t], Of("result", a)))
    BY <2>0, EventCountIs DEF ContributionsEarned
  <2>2. t = p.task /\ <<a, "task_completed">> \in p.credit => x \in Of("result", a)
    BY <1>1, CreditHasEvent DEF Of
  <2>3. contribs'[<<a, "task_completed", t>>] <= Cardinality(Occurrences(log'[t], Of("result", a)))
    BY <1>2, <2>0, <2>1, <2>2
  <2>. QED
    BY <2>3, EventCountIs
<1>. QED
  BY <1>3, <1>4 DEF ContributionsEarned

\* Where foreign keys are enforced, no requester of a task is deleted: a task
\* that goes takes its history along and leaves its assignee's contributions.
RequestersStay ==
  \A a \in Agents, t \in Tasks :
    EnforceFK /\ DeleteAgent(a) => tasks[t].requester # a

(***************************************************************************)
(* Contributions are earned: each has an event of its kind in the task's   *)
(* history, and a completion one of the agent's own, whatever overlaps and *)
(* whoever is deleted, as long as the task is there.                       *)
(***************************************************************************)
THEOREM CreditsEarned == Spec /\ [][RequestersStay]_vars => []ContributionsEarned
<1>1. Init => ContributionsEarned
  <2>1. ASSUME Init, NEW t \in Tasks
        PROVE  /\ \A a \in Agents : \A e : EventCount(t, a, e) = 0
               /\ \A e : Cardinality({i \in DOMAIN log[t] : log[t][i].event = e}) = 0
    <3>1. log[t] = <<>> /\ DOMAIN <<>> = {}
      BY <2>1 DEF Init
    <3>2. ASSUME NEW a \in Agents, NEW e PROVE EventCount(t, a, e) = 0
      <4>1. {i \in DOMAIN log[t] : log[t][i] = [event |-> e, actor |-> a]} = {}
        BY <3>1
      <4>. QED
        BY <4>1, FS_EmptySet DEF EventCount
    <3>3. ASSUME NEW e PROVE Cardinality({i \in DOMAIN log[t] : log[t][i].event = e}) = 0
      <4>1. {i \in DOMAIN log[t] : log[t][i].event = e} = {}
        BY <3>1
      <4>. QED
        BY <4>1, FS_EmptySet
    <3>. QED
      BY <3>2, <3>3
  <2>2. Init => \A c \in Agents \X ContributionEvents \X Tasks : contribs[c] = 0
    BY DEF Init
  <2>3. ASSUME Init, NEW t \in Tasks, NEW kind \in ContributionEvents, NEW a \in Agents
        PROVE  /\ contribs[<<a, kind, t>>] <=
                    Cardinality({i \in DOMAIN log[t] : log[t][i].event = Earns(kind)})
               /\ contribs[<<a, kind, t>>] <= EventCount(t, a, "result")
    <3>1. contribs[<<a, kind, t>>] = 0
      BY <2>2, <2>3
    <3>2. /\ EventCount(t, a, "result") = 0
          /\ Cardinality({i \in DOMAIN log[t] : log[t][i].event = Earns(kind)}) = 0
      BY <2>1, <2>3
    <3>. QED
      BY <3>1, <3>2
  <2>. QED
    BY <2>3 DEF ContributionsEarned
<1>2. /\ TypeOK /\ PlanInv /\ ContributionsEarned
      /\ [Next]_vars /\ [RequestersStay]_vars
      => ContributionsEarned'
  <2>. SUFFICES ASSUME TypeOK, PlanInv, ContributionsEarned, [Next]_vars, [RequestersStay]_vars
                PROVE  ContributionsEarned'
    OBVIOUS
  <2>1. CASE /\ log' = log
             /\ \A c \in Agents \X ContributionEvents \X Tasks :
                  contribs'[c] = contribs[c] \/ contribs'[c] = 0
    <3>1. ASSUME NEW t \in Tasks, NEW kind \in ContributionEvents, NEW a \in Agents, NEW E,
                 contribs[<<a, kind, t>>] <= Cardinality(Occurrences(log[t], E))
          PROVE  contribs'[<<a, kind, t>>] <= Cardinality(Occurrences(log'[t], E))
      <4>1. log[t] \in Seq(TaskEvent)
        BY DEF TypeOK
      <4>2. Cardinality(Occurrences(log[t], E)) \in Nat
        BY <4>1, OccurrencesFinite
      <4>3. contribs'[<<a, kind, t>>] \in {contribs[<<a, kind, t>>], 0} /\ log'[t] = log[t]
        BY <2>1
      <4>. QED
        BY <3>1, <4>2, <4>3
    <3>2. ASSUME NEW t \in Tasks, NEW kind \in ContributionEvents, NEW a \in Agents
          PROVE  contribs'[<<a, kind, t>>] <=
                   Cardinality({i \in DOMAIN log'[t] : log'[t][i].event = Earns(kind)})
      <4>. DEFINE E == OfAny(Earns(kind))
                  S == {i \in DOMAIN log[t] : log[t][i].event = Earns(kind)}
      <4>1. S = Occurrences(log[t], E)
        BY AnyCountIs
      <4>2. contribs[<<a, kind, t>>] <= Cardinality(S)
        BY DEF ContributionsEarned
      <4>3. contribs'[<<a, kind, t>>] <= Cardinality(Occurrences(log'[t], E))
        BY <3>1, <4>1, <4>2
      <4>4. log'[t] = log[t]
        BY <2>1
      <4>5. contribs'[<<a, kind, t>>] <= Cardinality(S)
        BY <4>1, <4>3, <4>4
      <4>. QED
        BY <4>4, <4>5
    <3>3. ASSUME NEW t \in Tasks, NEW a \in Agents
          PROVE  contribs'[<<a, "task_completed", t>>] <= EventCount(t, a, "result")'
      <4>1. "task_completed" \in ContributionEvents
        BY DEF ContributionEvents
      <4>2. contribs[<<a, "task_completed", t>>] <= Cardinality(Occurrences(log[t], Of("result", a)))
        BY <4>1, EventCountIs DEF ContributionsEarned
      <4>3. contribs'[<<a, "task_completed", t>>] <= Cardinality(Occurrences(log'[t], Of("result", a)))
        BY <3>1, <4>1, <4>2
      <4>. QED
        BY <4>3, EventCountIs
    <3>. QED
      BY <3>2, <3>3 DEF ContributionsEarned
  <2>2. ASSUME NEW w \in Workers, BeginAction(w) \/ BeginEnvelope(w) \/ Drop(w)
        PROVE  ContributionsEarned'
    BY <2>1, <2>2 DEF BeginAction, BeginEnvelope, Drop, tables
  <2>3. ASSUME NEW w \in Workers, NEW a \in Agents, Handler(w, a) PROVE ContributionsEarned'
    <3>1. PICK p \in WriteSet : Queue(w, p)
      BY <2>3, HandlerQueues
    <3>. QED
      BY <2>1, <3>1 DEF Queue, tables
  <2>4. ASSUME NEW w \in Workers, Commit(w) PROVE ContributionsEarned'
    BY <2>4, CommitEarned
  <2>5. ASSUME NEW a \in Agents, RegisterAgent(a) \/ UpdateAgent(a) PROVE ContributionsEarned'
    BY <2>1, <2>5 DEF RegisterAgent, UpdateAgent
  <2>6. CASE UNCHANGED vars
    BY <2>1, <2>6 DEF vars
  <2>7. ASSUME NEW a \in Agents, DeleteAgent(a) PROVE ContributionsEarned'
    <3>1. CASE EnforceFK /\ RequestersStay
      <4>1. \A t \in Tasks : tasks[t].requester # a
        BY <2>7, <3>1 DEF RequestersStay
      <4>2. log' = log
        BY <2>7, <3>1, <4>1 DEF DeleteAgent, TypeOK
      <4>. QED
        BY <2>1, <2>7, <4>2 DEF DeleteAgent, TypeOK
    <3>2. CASE ~EnforceFK
      BY <2>1, <2>7, <3>2 DEF DeleteAgent, TypeOK
    <3>. QED
      BY <2>6, <3>1, <3>2
  <2>. QED
    BY <2>2, <2>3, <2>4, <2>5, <2>6, <2>7 DEF Next
<1>. QED
  BY <1>1, <1>2, PlansSound, PTL DEF Spec

-----------------------------------------------------------------------------
(* Handlers of a task that do not overlap *)

\* The task a session works on, if any.
TaskOf(w) ==
  CASE jobs[w].stage = "read" -> {jobs[w].task}
    [] jobs[w].stage = "write" -> {jobs[w].plan.task}
    [] OTHER -> {}

\* No two sessions work on one task: what requests one at a time give, and
\* what a lock on the row of the task would.
TasksApart == \A v, w \in Workers : v # w => TaskOf(v) \cap TaskOf(w) = {}

\* Where foreign keys are enforced, no party to a task is deleted.
PartiesStay ==
  \A a \in Agents, t \in Tasks :
    EnforceFK /\ DeleteAgent(a) => a \notin {tasks[t].requester, tasks[t].assignee}

LEMMA DeletionsKeepTasks ==
  ASSUME TypeOK, NEW a \in Agents, DeleteAgent(a), [PartiesStay]_vars
  PROVE  tasks' = tasks /\ log' = log
<1>1. CASE EnforceFK /\ PartiesStay
  <2>1. \A t \in Tasks : tasks[t].requester # a /\ tasks[t].assignee # a
    BY <1>1 DEF PartiesStay
  <2>2. \A t \in Tasks : RowWithout(a, tasks[t]) = tasks[t]
    BY <2>1 DEF RowWithout
  <2>. QED
    BY <1>1, <2>1, <2>2 DEF DeleteAgent, TypeOK
<1>2. CASE ~EnforceFK
  BY <1>2 DEF DeleteAgent
<1>3. CASE UNCHANGED vars
  BY <1>3 DEF vars
<1>. QED
  BY <1>1, <1>2, <1>3

\* The row a session works from is the one in the table.
Current(w) ==
  /\ jobs[w].stage = "read" /\ jobs[w].via = "rest" => jobs[w].row = tasks[jobs[w].task]
  /\ jobs[w].stage = "write" => jobs[w].plan.old = tasks[jobs[w].plan.task]

\* Results are the assignee's, verifications others', credits for them one each.
Vouched(t) ==
  /\ tasks[t].status = "none" => tasks[t] = NoTask
  /\ \A i \in DOMAIN log[t] :
       /\ log[t][i].event = "result" =>
            /\ log[t][i].actor = tasks[t].assignee
            /\ tasks[t].status \in {"completed", "verified", "disputed"}
       /\ log[t][i].event = "verified" =>
            /\ log[t][i].actor # tasks[t].assignee
            /\ tasks[t].status \in {"verified", "disputed"}
  /\ \A a \in Agents :
       /\ contribs[<<a, "result_verified", t>>] <= 1
       /\ contribs[<<a, "result_verified", t>>] > 0 => tasks[t].status \in {"verified", "disputed"}

At(s, event) == {i \in DOMAIN s : s[i].event = event}

\* Among the events of a kind there is a last one.
HasLast(t) ==
  \A event \in Events :
    LET at == At(log[t], event) IN at = {} \/ \E i \in at : \A j \in at : j <= i

SerialInv ==
  /\ \A w \in Workers : Current(w)
  /\ \A t \in Tasks : Vouched(t) /\ HasLast(t)

\* Where the writes a handler queues start from.
LEMMA HandlerLoads ==
  ASSUME TypeOK, NEW w \in Workers, NEW a \in Agents, Handler(w, a)
  PROVE  LET p == jobs'[w].plan IN
         \/ p.old = NoTask /\ tasks[p.task].status = "none"
         \/ jobs[w].stage = "read" /\ p.task = jobs[w].task /\ p.old = Row(w)
<1>1. ASSUME NEW p, Queue(w, p) PROVE jobs'[w].plan = p
  BY <1>1 DEF Queue, TypeOK
<1>2. ASSUME NEW t \in Tasks, NEW b \in MaybeAgent, CreateTask(w, t, a, b)
      PROVE  LET p == jobs'[w].plan IN p.old = NoTask /\ tasks[p.task].status = "none"
  <2>1. PICK sent : Queue(w, Creation(t, a, b, sent))
    BY <1>2 DEF CreateTask
  <2>2. jobs'[w].plan = Creation(t, a, b, sent)
    BY <2>1, <1>1
  <2>. QED
    BY <1>2, <2>2 DEF CreateTask, Creation, MayCreate
<1>3. ASSUME NEW id \in MessageIds, NEW b \in Agents, ApplyRequest(w, a, b, id)
      PROVE  LET p == jobs'[w].plan IN p.old = NoTask /\ tasks[p.task].status = "none"
  <2>1. jobs'[w].plan = Creation(jobs[w].task, a, b, {Msg(id, "REQUEST", a, jobs[w].task)})
    BY <1>3, <1>1 DEF ApplyRequest
  <2>. QED
    BY <1>3, <2>1 DEF ApplyRequest, Creation, MayCreate
<1>4. ASSUME NEW new, NEW event, NEW sent, NEW credit, jobs[w].stage = "read",
             Queue(w, Change(w, a, new, event, sent, credit))
      PROVE  LET p == jobs'[w].plan IN
             jobs[w].stage = "read" /\ p.task = jobs[w].task /\ p.old = Row(w)
  <2>1. jobs'[w].plan = Change(w, a, new, event, sent, credit)
    BY <1>4, <1>1
  <2>. QED
    BY <1>4, <2>1 DEF Change
<1>5. ASSUME NEW id \in MessageIds,
             \/ \E type \in MESSAGE_TYPES : KeepMessage(w, a, type, id)
             \/ AcceptTask(w, a, id)
             \/ RejectTask(w, a, id)
      PROVE  LET p == jobs'[w].plan IN
             jobs[w].stage = "read" /\ p.task = jobs[w].task /\ p.old = Row(w)
  BY <1>4, <1>5 DEF KeepMessage, AcceptTask, RejectTask, OnTask
<1>6. ASSUME NEW id \in MessageIds,
             \/ ProgressTask(w, a, id)
             \/ SubmitResult(w, a, id)
             \/ VerifyTask(w, a, id)
      PROVE  LET p == jobs'[w].plan IN
             jobs[w].stage = "read" /\ p.task = jobs[w].task /\ p.old = Row(w)
  BY <1>4, <1>6 DEF ProgressTask, SubmitResult, VerifyTask, OnTask
<1>7. ASSUME FailTask(w, a) \/ DisputeTask(w, a)
      PROVE  LET p == jobs'[w].plan IN
             jobs[w].stage = "read" /\ p.task = jobs[w].task /\ p.old = Row(w)
  BY <1>4, <1>7 DEF FailTask, DisputeTask, OnTask
<1>. QED
  BY <1>2, <1>3, <1>5, <1>6, <1>7 DEF Handler

\* A commit over the row its handler loaded leaves exactly the row it queued.
LEMMA SerialCommit ==
  ASSUME TypeOK, PlanInv, SerialInv, NEW w \in Workers, Commit(w)
  PROVE  LET p == jobs[w].plan
             t == p.task
         IN
         /\ p \in WriteSet /\ t \in Tasks /\ p.old \in Task /\ p.new \in Task
         /\ p.actor \in Agents /\ p.event \in Events \cup {"none"}
         /\ Decided(p)
         /\ tasks[t] = p.old /\ tasks' = [tasks EXCEPT ![t] = p.new]
         /\ tasks'[t] = p.new /\ \A x \in Tasks \ {t} : tasks'[x] = tasks[x]
<1>. DEFINE p == jobs[w].plan
            t == p.task
<1>1. /\ p \in WriteSet /\ t \in Tasks /\ p.old \in Task /\ p.new \in Task
      /\ p.actor \in Agents /\ p.event \in Events \cup {"none"}
  BY CommitShape DEF WriteSet
<1>2. Decided(p)
  BY DEF PlanInv, PlanOK, Commit
<1>3. tasks[t] = p.old
  BY DEF SerialInv, Current, Commit
<1>4. Merged(tasks[t], p.old, p.new) = p.new
  BY <1>1, <1>3 DEF Merged, Dirty, Task
<1>5. tasks' = [tasks EXCEPT ![t] = p.new]
  BY <1>4, CommitShape
<1>6. tasks'[t] = p.new /\ \A x \in Tasks \ {t} : tasks'[x] = tasks[x]
  BY <1>1, <1>5 DEF TypeOK
<1>. QED
  BY <1>1, <1>2, <1>3, <1>5, <1>6

LEMMA CommitVouched ==
  ASSUME TypeOK, PlanInv, SerialInv, NEW w \in Workers, Commit(w), NEW t \in Tasks
  PROVE  Vouched(t)'
<1>. DEFINE p == jobs[w].plan
            x == [event |-> p.event, actor |-> p.actor]
<1>1. /\ p \in WriteSet /\ p.task \in Tasks /\ p.old \in Task /\ p.new \in Task
      /\ p.actor \in Agents /\ p.event \in Events \cup {"none"}
      /\ Decided(p)
      /\ tasks[p.task] = p.old
      /\ tasks'[p.task] = p.new /\ \A y \in Tasks \ {p.task} : tasks'[y] = tasks[y]
  BY SerialCommit
<1>2. Vouched(t)
  BY DEF SerialInv
<1>3. log[t] \in Seq(TaskEvent) /\ Len(log[t]) \in Nat
  BY DEF TypeOK
<1>4. \A a \in Agents :
        /\ contribs'[<<a, "result_verified", t>>] =
             IF t = p.task /\ <<a, "result_verified">> \in p.credit
               THEN contribs[<<a, "result_verified", t>>] + 1
               ELSE contribs[<<a, "result_verified", t>>]
        /\ contribs[<<a, "result_verified", t>>] \in Nat
  BY DEF Commit, Credited, TypeOK, ContributionEvents
<1>5. CASE t # p.task
  <2>1. tasks'[t] = tasks[t] /\ log'[t] = log[t]
    BY <1>1, <1>5, CommitLog
  <2>2. \A a \in Agents : contribs'[<<a, "result_verified", t>>] = contribs[<<a, "result_verified", t>>]
    BY <1>4, <1>5
  <2>. QED
    BY <1>2, <2>1, <2>2 DEF Vouched
<1>6. CASE t = p.task /\ p.event = "none"
  <2>1. tasks'[t] = tasks[t] /\ log'[t] = log[t]
    BY <1>1, <1>6, CommitLog DEF Decided
  <2>2. \A a \in Agents : contribs'[<<a, "result_verified", t>>] = contribs[<<a, "result_verified", t>>]
    BY <1>1, <1>4, <1>6 DEF Decided
  <2>. QED
    BY <1>2, <2>1, <2>2 DEF Vouched
<1>7. CASE t = p.task /\ p.event # "none"
  <2>1. /\ tasks[t] = p.old /\ tasks'[t] = p.new
        /\ log'[t] = Append(log[t], x)
    BY <1>1, <1>7, CommitLog
  <2>2. /\ DOMAIN log'[t] = 1 .. Len(log[t]) + 1 /\ DOMAIN log[t] = 1 .. Len(log[t])
        /\ \A i \in 1 .. Len(log[t]) : log'[t][i] = log[t][i]
        /\ log'[t][Len(log[t]) + 1] = x
    BY <1>3, <2>1
  \* An event the history already has leaves a status only these steps leave.
  <2>3. /\ p.new.status # "none"
        /\ p.old.status = "completed" =>
             p.new.status \in {"verified", "disputed"} /\ p.new.assignee = p.old.assignee
        /\ p.old.status \in {"verified", "disputed"} =>
             p.new.status = "disputed" /\ p.new.assignee = p.old.assignee
        /\ p.event = "result" =>
             /\ p.actor = p.new.assignee /\ p.new.status = "completed"
             /\ p.old.status \in {"accepted", "in_progress"}
        /\ p.event = "verified" =>
             p.actor # p.new.assignee /\ p.new.status = "verified" /\ p.old.status = "completed"
    <3>1. /\ p.event \notin {"none", "created"} => <<p.old.status, p.event>> \in HandlerEvents
          /\ p.event = "created" => p.old.status = "none" /\ p.new.status = "requested"
      BY <1>1 DEF Decided, NoTask
    <3>2. /\ p.event = "result" => p.old.assignee = p.actor /\ p.new = [p.old EXCEPT !.status = "completed"]
          /\ p.event = "verified" => p.actor # p.old.assignee /\ p.new = [p.old EXCEPT !.status = "verified"]
          /\ p.event = "disputed" => p.new = [p.old EXCEPT !.status = "disputed"]
      BY <1>1 DEF Decided
    <3>3. /\ p.event = "result" =>
               p.new.assignee = p.old.assignee /\ p.new.status = "completed"
          /\ p.event = "verified" => p.new.assignee = p.old.assignee /\ p.new.status = "verified"
          /\ p.event = "disputed" => p.new.assignee = p.old.assignee /\ p.new.status = "disputed"
      BY <1>1, <3>2 DEF Task
    <3>4. /\ p.event = "accepted" => p.new.status = "accepted"
          /\ p.event = "rejected" => p.new.status = "rejected"
          /\ p.event = "progress" => p.new.status = "in_progress"
          /\ p.event = "failed" => p.new.status = "failed"
      BY <1>1 DEF Decided, Task
    <3>5. p.event \in Events
      BY <1>1, <1>7
    <3>6. p.new.status # "none"
      BY <3>1, <3>3, <3>4, <3>5 DEF Events
    <3>7. /\ p.old.status = "completed" => p.event \in {"verified", "disputed"}
          /\ p.old.status \in {"verified", "disputed"} => p.event = "disputed"
          /\ p.event = "result" => p.old.status \in {"accepted", "in_progress"}
          /\ p.event = "verified" => p.old.status = "completed"
      BY <1>7, <3>1 DEF HandlerEvents
    <3>. QED
      BY <3>2, <3>3, <3>6, <3>7
  <2>4. ASSUME NEW i \in DOMAIN log'[t]
        PROVE  /\ log'[t][i].event = "result" =>
                    /\ log'[t][i].actor = tasks'[t].assignee
                    /\ tasks'[t].status \in {"completed", "verified", "disputed"}
               /\ log'[t][i].event = "verified" =>
                    /\ log'[t][i].actor # tasks'[t].assignee
                    /\ tasks'[t].status \in {"verified", "disputed"}
    <3>1. CASE i \in 1 .. Len(log[t])
      <4>1. log'[t][i] = log[t][i] /\ i \in DOMAIN log[t]
        BY <2>2, <3>1
      <4>2. log[t][i].event = "result" =>
              /\ log[t][i].actor = p.old.assignee
              /\ p.old.status \in {"completed", "verified", "disputed"}
        BY <1>2, <2>1, <4>1 DEF Vouched
      <4>3. log[t][i].event = "verified" =>
              log[t][i].actor # p.old.assignee /\ p.old.status \in {"verified", "disputed"}
        BY <1>2, <2>1, <4>1 DEF Vouched
      <4>. QED
        BY <2>1, <2>3, <4>1, <4>2, <4>3
    <3>2. CASE i = Len(log[t]) + 1
      <4>1. log'[t][i].event = p.event /\ log'[t][i].actor = p.actor
        BY <2>2, <3>2
      <4>. QED
        BY <2>1, <2>3, <4>1
    <3>. QED
      BY <1>3, <2>2, <3>1, <3>2
  <2>5. ASSUME NEW a \in Agents
        PROVE  /\ contribs'[<<a, "result_verified", t>>] <= 1
               /\ contribs'[<<a, "result_verified", t>>] > 0 => tasks'[t].status \in {"verified", "disputed"}
    <3>1. /\ contribs[<<a, "result_verified", t>>] <= 1
          /\ contribs[<<a, "result_verified", t>>] > 0 => p.old.status \in {"verified", "disputed"}
          /\ contribs[<<a, "result_verified", t>>] \in Nat
      BY <1>2, <1>4, <2>1 DEF Vouched
    <3>2. CASE <<a, "result_verified">> \in p.credit
      <4>1. p.event = "verified"
        BY <1>1, <3>2, CreditHasEvent DEF Earns
      <4>2. p.old.status = "completed" /\ p.new.status = "verified"
        BY <2>3, <4>1
      <4>3. contribs[<<a, "result_verified", t>>] = 0
        BY <3>1, <4>2
      <4>. QED
        BY <1>4, <1>7, <2>1, <3>2, <4>2, <4>3
    <3>3. CASE <<a, "result_verified">> \notin p.credit
      <4>1. contribs'[<<a, "result_verified", t>>] = contribs[<<a, "result_verified", t>>]
        BY <1>4, <3>3
      <4>. QED
        BY <2>1, <2>3, <3>1, <4>1
    <3>. QED
      BY <3>2, <3>3
  <2>6. tasks'[t].status # "none"
    BY <2>1, <2>3
  <2>. QED
    BY <2>4, <2>5, <2>6 DEF Vouched
<1>. QED
  BY <1>5, <1>6, <1>7

\* The events of a kind after one more event.
LEMMA AtAppend ==
  ASSUME NEW s \in Seq(TaskEvent), NEW x \in TaskEvent, NEW event
  PROVE  /\ x.event = event => At(Append(s, x), event) = At(s, event) \cup {Len(s) + 1}
         /\ x.event # event => At(Append(s, x), event) = At(s, event)
         /\ Len(s) + 1 \in Nat /\ \A i \in At(s, event) : i \in Nat /\ i < Len(s) + 1
<1>. DEFINE n == Len(s) + 1
<1>1. /\ Len(s) \in Nat /\ DOMAIN s = 1 .. Len(s) /\ DOMAIN Append(s, x) = 1 .. n
      /\ Append(s, x)[n] = x /\ \A i \in 1 .. Len(s) : Append(s, x)[i] = s[i]
  OBVIOUS
<1>2. n \in Nat /\ 1 .. n = (1 .. Len(s)) \cup {n} /\ \A i \in 1 .. Len(s) : i \in Nat /\ i < n
  BY <1>1
<1>. HIDE DEF n
<1>3. x.event = event => At(Append(s, x), event) = At(s, event) \cup {n}
  BY <1>1, <1>2 DEF At
<1>4. x.event # event => At(Append(s, x), event) = At(s, event)
  BY <1>1, <1>2 DEF At
<1>5. \A i \in At(s, event) : i \in Nat /\ i < n
  BY <1>1, <1>2 DEF At
<1>. QED
  BY <1>1, <1>2, <1>3, <1>4, <1>5 DEF n

LEMMA CommitHasLast ==
  ASSUME TypeOK, SerialInv, NEW w \in Workers, Commit(w), NEW t \in Tasks
  PROVE  HasLast(t)'
<1>. DEFINE p == jobs[w].plan
            x == [event |-> p.event, actor |-> p.actor]
<1>1. HasLast(t)
  BY DEF SerialInv
<1>2. CASE log'[t] = log[t]
  BY <1>1, <1>2 DEF HasLast
<1>3. CASE x \in TaskEvent /\ log'[t] = Append(log[t], x)
  <2>. SUFFICES ASSUME NEW event \in Events
                PROVE  LET at == At(log'[t], event)
                       IN  at = {} \/ \E i \in at : \A j \in at : j <= i
    BY DEF HasLast
  <2>0. log[t] \in Seq(TaskEvent)
    BY DEF TypeOK
  <2>. DEFINE n == Len(log[t]) + 1
              at == At(log[t], event)
              at2 == At(Append(log[t], x), event)
  <2>1. /\ x.event = event => at2 = at \cup {n}
        /\ x.event # event => at2 = at
        /\ n \in Nat /\ \A i \in at : i \in Nat /\ i < n
    <3>1. PICK s \in Seq(TaskEvent) : s = log[t]
      BY <2>0
    <3>2. PICK y \in TaskEvent : y = x
      BY <1>3
    <3>3. /\ y.event = event => At(Append(s, y), event) = At(s, event) \cup {Len(s) + 1}
          /\ y.event # event => At(Append(s, y), event) = At(s, event)
          /\ Len(s) + 1 \in Nat
          /\ \A i \in At(s, event) : i \in Nat /\ i < Len(s) + 1
      BY AtAppend
    <3>. HIDE DEF x
    <3>. QED
      BY <3>1, <3>2, <3>3
  <2>2. at = {} \/ \E i \in at : \A j \in at : j <= i
    BY <1>1 DEF HasLast
  <2>. HIDE DEF n, at, at2
  <2>3. at2 = {} \/ \E i \in at2 : \A j \in at2 : j <= i
    BY <2>1, <2>2
  <2>. QED
    BY <1>3, <2>3 DEF at2
<1>. QED
  BY <1>2, <1>3, CommitLog

LEMMA SerialStep ==
  ASSUME TasksApart, TypeOK, PlanInv, SerialInv, [Next]_vars, [PartiesStay]_vars
  PROVE  SerialInv'
<1>1. ASSUME UNCHANGED <<tasks, log>>,
             \A c \in Agents \X ContributionEvents \X Tasks : contribs'[c] \in {contribs[c], 0}
      PROVE  \A t \in Tasks : Vouched(t)' /\ HasLast(t)'
  <2>1. tasks' = tasks /\ log' = log
    BY <1>1
  <2>. SUFFICES ASSUME NEW t \in Tasks PROVE Vouched(t)' /\ HasLast(t)'
    OBVIOUS
  <2>2. HasLast(t)'
    BY <2>1 DEF SerialInv, HasLast
  <2>3. Vouched(t)
    BY DEF SerialInv
  <2>4. \A a \in Agents :
          contribs'[<<a, "result_verified", t>>] \in {contribs[<<a, "result_verified", t>>], 0}
    BY <1>1 DEF ContributionEvents
  <2>5. Vouched(t)'
    BY <2>1, <2>3, <2>4 DEF Vouched
  <2>. QED
    BY <2>2, <2>5
<1>2. ASSUME UNCHANGED <<tasks, log, contribs>>, NEW w \in Workers, Current(w)',
             \A v \in Workers \ {w} : jobs'[v] = jobs[v]
      PROVE  SerialInv'
  <2>1. \A v \in Workers : Current(v)'
    BY <1>2 DEF SerialInv, Current
  <2>. QED
    BY <1>1, <1>2, <2>1 DEF SerialInv
<1>3. ASSUME NEW w \in Workers, BeginAction(w) PROVE SerialInv'
  <2>1. PICK t \in Tasks : jobs' = [jobs EXCEPT ![w] =
           [stage |-> "read", via |-> "rest", task |-> t, row |-> tasks[t],
            known |-> {}, able |-> {}, fresh |-> {}]]
    BY <1>3 DEF BeginAction
  <2>2. /\ jobs'[w].stage = "read" /\ jobs'[w].row = tasks[t] /\ jobs'[w].task = t
        /\ tasks' = tasks /\ log' = log /\ contribs' = contribs
        /\ \A v \in Workers \ {w} : jobs'[v] = jobs[v]
    BY <1>3, <2>1 DEF BeginAction, tables, TypeOK
  <2>3. Current(w)'
    BY <2>2 DEF Current
  <2>. QED
    BY <1>2, <2>2, <2>3
<1>4. ASSUME NEW w \in Workers, BeginEnvelope(w) PROVE SerialInv'
  <2>1. PICK t \in Tasks : jobs' = [jobs EXCEPT ![w] =
           [stage |-> "read", via |-> "envelope", task |-> t, row |-> NoTask,
            known |-> agents, able |-> capable, fresh |-> MessageIds \ UsedIds]]
    BY <1>4 DEF BeginEnvelope
  <2>2. /\ jobs'[w].stage = "read" /\ jobs'[w].via = "envelope"
        /\ tasks' = tasks /\ log' = log /\ contribs' = contribs
        /\ \A v \in Workers \ {w} : jobs'[v] = jobs[v]
    BY <1>4, <2>1 DEF BeginEnvelope, tables, TypeOK
  <2>3. Current(w)'
    BY <2>2 DEF Current
  <2>. QED
    BY <1>2, <2>2, <2>3
<1>5. ASSUME NEW w \in Workers, NEW a \in Agents, Handler(w, a) PROVE SerialInv'
  <2>1. PICK p \in WriteSet : Queue(w, p)
    BY <1>5, HandlerQueues
  <2>2. /\ jobs'[w].plan = p /\ jobs'[w].stage = "write"
        /\ tasks' = tasks /\ log' = log /\ contribs' = contribs
        /\ \A v \in Workers \ {w} : jobs'[v] = jobs[v]
    BY <2>1 DEF Queue, tables, TypeOK
  <2>3. p.old = tasks[p.task]
    <3>1. \/ p.old = NoTask /\ tasks[p.task].status = "none"
          \/ jobs[w].stage = "read" /\ p.task = jobs[w].task /\ p.old = Row(w)
      BY <1>5, <2>2, HandlerLoads
    <3>2. CASE p.old = NoTask /\ tasks[p.task].status = "none"
      <4>1. p.task \in Tasks
        BY DEF WriteSet
      <4>. QED
        BY <3>2, <4>1 DEF SerialInv, Vouched
    <3>3. CASE jobs[w].stage = "read" /\ p.task = jobs[w].task /\ p.old = Row(w)
      BY <3>3 DEF Row, SerialInv, Current
    <3>. QED
      BY <3>1, <3>2, <3>3
  <2>4. Current(w)'
    BY <2>2, <2>3 DEF Current
  <2>. QED
    BY <1>2, <2>2, <2>4
<1>6. ASSUME NEW w \in Workers, Commit(w) PROVE SerialInv'
  <2>1. jobs'[w] = Idle
    BY <1>6 DEF Commit, TypeOK
  <2>2. Current(w)'
    BY <2>1 DEF Current, Idle
  \* The others work on other tasks, whose rows stay.
  <2>3. ASSUME NEW v \in Workers \ {w} PROVE Current(v)'
    <3>1. jobs'[v] = jobs[v] /\ Current(v)
      BY <1>6 DEF Commit, TypeOK, SerialInv
    <3>2. \A x \in Tasks \ {jobs[w].plan.task} : tasks'[x] = tasks[x]
      BY <1>6, SerialCommit
    <3>3. jobs[w].stage = "write"
      BY <1>6 DEF Commit
    <3>4. CASE jobs[v].stage = "read"
      <4>1. jobs[v].task \in Tasks /\ jobs[v].task # jobs[w].plan.task
        BY <3>3, <3>4, RowType DEF TasksApart, TaskOf
      <4>. QED
        BY <3>1, <3>2, <3>4, <4>1 DEF Current
    <3>5. CASE jobs[v].stage = "write"
      <4>1. jobs[v].plan.task \in Tasks
        BY <3>5, JobShape DEF WriteJobs, WriteSet
      <4>2. jobs[v].plan.task # jobs[w].plan.task
        BY <3>3, <3>5 DEF TasksApart, TaskOf
      <4>. QED
        BY <3>1, <3>2, <3>5, <4>1, <4>2 DEF Current
    <3>. QED
      BY <3>1, <3>4, <3>5 DEF Current
  <2>. QED
    BY <1>6, <2>2, <2>3, CommitVouched, CommitHasLast DEF SerialInv
<1>7. ASSUME NEW w \in Workers, Drop(w) PROVE SerialInv'
  <2>1. /\ jobs'[w] = Idle /\ tasks' = tasks /\ log' = log /\ contribs' = contribs
        /\ \A v \in Workers \ {w} : jobs'[v] = jobs[v]
    BY <1>7 DEF Drop, tables, TypeOK
  <2>2. Current(w)'
    BY <2>1 DEF Current, Idle
  <2>. QED
    BY <1>2, <2>1, <2>2
<1>8. CASE /\ UNCHANGED <<tasks, log, jobs>>
           /\ \A c \in Agents \X ContributionEvents \X Tasks : contribs'[c] \in {contribs[c], 0}
  <2>1. tasks' = tasks /\ jobs' = jobs
    BY <1>8
  <2>2. \A w \in Workers : Current(w)'
    BY <2>1 DEF SerialInv, Current
  <2>. QED
    BY <1>1, <1>8, <2>2 DEF SerialInv
<1>9. ASSUME NEW a \in Agents, RegisterAgent(a) \/ UpdateAgent(a) PROVE SerialInv'
  BY <1>8, <1>9 DEF RegisterAgent, UpdateAgent
<1>10. ASSUME NEW a \in Agents, DeleteAgent(a) PROVE SerialInv'
  <2>1. tasks' = tasks /\ log' = log
    BY <1>10, DeletionsKeepTasks
  <2>2. \A c \in Agents \X ContributionEvents \X Tasks : contribs'[c] \in {contribs[c], 0}
    BY <1>10 DEF DeleteAgent, TypeOK
  <2>. QED
    BY <1>8, <1>10, <2>1, <2>2 DEF DeleteAgent
<1>11. CASE UNCHANGED vars
  BY <1>8, <1>11 DEF vars
<1>. QED
  BY <1>3, <1>4, <1>5, <1>6, <1>7, <1>9, <1>10, <1>11 DEF Next

LEMMA SerialSound ==
  Spec /\ []TasksApart /\ [][PartiesStay]_vars => [](TypeOK /\ PlanInv /\ SerialInv)
<1>1. Init => SerialInv
  <2>. SUFFICES ASSUME Init PROVE SerialInv
    OBVIOUS
  <2>1. \A w \in Workers : Current(w)
    BY DEF Init, Current, Idle
  <2>2. ASSUME NEW t \in Tasks PROVE Vouched(t) /\ HasLast(t)
    <3>1. log[t] = <<>> /\ tasks[t] = NoTask
      BY DEF Init
    <3>2. \A a \in Agents : contribs[<<a, "result_verified", t>>] = 0
      BY DEF Init, ContributionEvents
    <3>3. \A event : At(log[t], event) = {}
      BY <3>1 DEF At
    <3>. QED
      BY <3>1, <3>2, <3>3 DEF Vouched, HasLast
  <2>. QED
    BY <2>1, <2>2 DEF SerialInv
<1>2. /\ TasksApart /\ TypeOK /\ PlanInv /\ SerialInv
      /\ [Next]_vars /\ [PartiesStay]_vars
      => SerialInv'
  BY SerialStep
<1>. QED
  BY <1>1, <1>2, PlansSound, PTL DEF Spec

(***************************************************************************)
(* While no two requests work on one task and its parties stay, no result  *)
(* is vouched for twice, however the requests for other tasks overlap.     *)
(***************************************************************************)
THEOREM VouchesAreSingle ==
  Spec /\ []TasksApart /\ [][PartiesStay]_vars => []VouchedOnce
<1>1. SerialInv => VouchedOnce
  BY DEF SerialInv, Vouched, VouchedOnce
<1>. QED
  BY <1>1, SerialSound, PTL

(***************************************************************************)
(* Under the same conditions nobody verifies a task whose result is        *)
(* theirs.                                                                 *)
(***************************************************************************)
THEOREM VouchesAreOthers ==
  Spec /\ []TasksApart /\ [][PartiesStay]_vars => []NoSelfVouch
<1>1. TypeOK /\ SerialInv => NoSelfVouch
  <2>. SUFFICES ASSUME TypeOK, SerialInv, NEW t \in Tasks, NEW a \in Agents,
                       EventCount(t, a, "verified") > 0
                PROVE  EventCount(t, a, "result") = 0
    BY DEF NoSelfVouch
  <2>1. Vouched(t)
    BY DEF SerialInv
  <2>2. {i \in DOMAIN log[t] : log[t][i] = [event |-> "verified", actor |-> a]} # {}
    BY FS_EmptySet DEF EventCount
  <2>3. PICK i \in DOMAIN log[t] : log[t][i] = [event |-> "verified", actor |-> a]
    BY <2>2
  <2>4. a # tasks[t].assignee
    BY <2>1, <2>3 DEF Vouched
  <2>5. {j \in DOMAIN log[t] : log[t][j] = [event |-> "result", actor |-> a]} = {}
    BY <2>1, <2>4 DEF Vouched
  <2>. QED
    BY <2>5, FS_EmptySet DEF EventCount
<1>. QED
  BY <1>1, SerialSound, PTL

-----------------------------------------------------------------------------
(* The refinement *)

Last(s, event) ==
  IF At(s, event) = {} THEN None
  ELSE s[CHOOSE i \in At(s, event) : \A j \in At(s, event) : j <= i].actor

LEMMA LastActorIs ==
  ASSUME NEW t, NEW event
  PROVE  /\ LastActor(t, event) = Last(log[t], event)
         /\ LastActor(t, event)' = Last(log'[t], event)
BY DEF LastActor, Last, At

\* One more event makes its actor the last of its kind, and of no other.
LEMMA LastAppend ==
  ASSUME NEW s \in Seq(TaskEvent), NEW y \in TaskEvent, NEW event,
         At(s, event) = {} \/ \E i \in At(s, event) : \A j \in At(s, event) : j <= i
  PROVE  Last(Append(s, y), event) = IF y.event = event THEN y.actor ELSE Last(s, event)
<1>1. /\ y.event = event => At(Append(s, y), event) = At(s, event) \cup {Len(s) + 1}
      /\ y.event # event => At(Append(s, y), event) = At(s, event)
      /\ Len(s) + 1 \in Nat
      /\ \A i \in At(s, event) : i \in Nat /\ i < Len(s) + 1
  BY AtAppend
<1>2. Append(s, y)[Len(s) + 1] = y /\ \A i \in DOMAIN s : Append(s, y)[i] = s[i]
  OBVIOUS
<1>. DEFINE n == Len(s) + 1
            at == At(s, event)
            at2 == At(Append(s, y), event)
            last == CHOOSE i \in at : \A j \in at : j <= i
            last2 == CHOOSE i \in at2 : \A j \in at2 : j <= i
<1>3. CASE y.event = event
  <2>1. n \in at2 /\ at2 = at \cup {n} /\ n \in Nat /\ \A i \in at : i \in Nat /\ i < n
    BY <1>1, <1>3
  <2>. HIDE DEF at, n, at2
  <2>2. \A j \in at2 : j <= n
    BY <2>1
  <2>3. \A i \in at2 : (\A j \in at2 : j <= i) => i = n
    BY <2>1, <2>2
  <2>4. last2 = n
    BY <2>1, <2>2, <2>3
  <2>. HIDE DEF last2
  <2>5. at2 # {} /\ Append(s, y)[last2] = y
    BY <1>2, <2>1, <2>4 DEF n
  <2>. QED
    BY <1>3, <2>5 DEF Last, last2, at2
<1>4. CASE y.event # event
  <2>1. at2 = at
    BY <1>1, <1>4
  <2>2. at # {} => last \in at
    OBVIOUS
  <2>2a. at # {} => last \in DOMAIN s
    BY <2>2 DEF At
  <2>. HIDE DEF last
  <2>3. at # {} => Append(s, y)[last] = s[last]
    BY <1>2, <2>2a
  <2>4. /\ Last(s, event) = IF at = {} THEN None ELSE s[last].actor
        /\ Last(Append(s, y), event) = IF at2 = {} THEN None ELSE Append(s, y)[last2].actor
    BY DEF Last, last
  <2>5. last2 = last
    BY <2>1 DEF last
  <2>. HIDE DEF at, at2, last2
  <2>. QED
    BY <1>4, <2>1, <2>3, <2>4, <2>5
<1>. QED
  BY <1>3, <1>4

LEMMA LastActorMoves ==
  ASSUME TypeOK, SerialInv, NEW w \in Workers, Commit(w), NEW t \in Tasks, NEW event \in Events
  PROVE  LET p == jobs[w].plan IN
         LastActor(t, event)' =
           IF t = p.task /\ p.event = event THEN p.actor ELSE LastActor(t, event)
<1>. DEFINE p == jobs[w].plan
            x == [event |-> p.event, actor |-> p.actor]
<1>0. event # "none"
  BY DEF Events
<1>1. CASE t # p.task \/ p.event = "none"
  <2>1. log'[t] = log[t]
    BY <1>1, CommitLog
  <2>2. LastActor(t, event)' = LastActor(t, event)
    BY <2>1, LastActorIs
  <2>. QED
    BY <1>0, <1>1, <2>2
<1>2. CASE t = p.task /\ p.event # "none"
  <2>1. PICK s \in Seq(TaskEvent) : s = log[t]
    BY DEF TypeOK
  <2>2. PICK y \in TaskEvent : y = x /\ y.event = p.event /\ y.actor = p.actor
    BY <1>2, CommitLog
  <2>3. log'[t] = Append(s, y)
    BY <1>2, <2>1, <2>2, CommitLog
  <2>4. At(s, event) = {} \/ \E i \in At(s, event) : \A j \in At(s, event) : j <= i
    BY <2>1 DEF SerialInv, HasLast
  <2>5. Last(Append(s, y), event) = IF y.event = event THEN y.actor ELSE Last(s, event)
    BY <2>4, LastAppend
  <2>6. LastActor(t, event) = Last(s, event) /\ LastActor(t, event)' = Last(Append(s, y), event)
    BY <2>1, <2>3, LastActorIs
  <2>. QED
    BY <1>2, <2>2, <2>5, <2>6
<1>. QED
  BY <1>1, <1>2

\* A commit, in the terms of the protocol: one of its steps, or a stutter.
LEMMA CommitImplements ==
  ASSUME TypeOK, PlanInv, SerialInv, NEW w \in Workers, Commit(w)
  PROVE  [Protocol!Next]_(Protocol!vars)
<1>0. jobs[w].plan.task \in Tasks /\ jobs[w].plan.actor \in Agents
  BY SerialCommit
<1>0a. PICK t \in Tasks, a \in Agents : t = jobs[w].plan.task /\ a = jobs[w].plan.actor
  BY <1>0
<1>. DEFINE p == jobs[w].plan
            status == [x \in Tasks |-> tasks[x].status]
            requester == [x \in Tasks |-> tasks[x].requester]
            assignee == [x \in Tasks |-> tasks[x].assignee]
            author == [x \in Tasks |-> LastActor(x, "result")]
            voucher == [x \in Tasks |-> LastActor(x, "verified")]
<1>1. /\ p \in WriteSet /\ t \in Tasks /\ p.old \in Task /\ p.new \in Task
      /\ a \in Agents /\ p.event \in Events \cup {"none"}
      /\ Decided(p) /\ t = p.task /\ a = p.actor
      /\ tasks[t] = p.old
      /\ tasks'[t] = p.new /\ \A x \in Tasks \ {t} : tasks'[x] = tasks[x]
  BY <1>0a, SerialCommit
<1>2. /\ status' = [status EXCEPT ![t] = p.new.status]
      /\ requester' = [requester EXCEPT ![t] = p.new.requester]
      /\ assignee' = [assignee EXCEPT ![t] = p.new.assignee]
  BY <1>1
<1>3. /\ author' = IF p.event = "result" THEN [author EXCEPT ![t] = a] ELSE author
      /\ voucher' = IF p.event = "verified" THEN [voucher EXCEPT ![t] = a] ELSE voucher
  <2>1. \A x \in Tasks :
          /\ LastActor(x, "result")' = IF x = t /\ p.event = "result" THEN a ELSE LastActor(x, "result")
          /\ LastActor(x, "verified")' = IF x = t /\ p.event = "verified" THEN a ELSE LastActor(x, "verified")
    BY <1>0a, LastActorMoves DEF Events
  <2>. QED
    BY <1>1, <2>1
<1>4. /\ status[t] = p.old.status /\ requester[t] = p.old.requester /\ assignee[t] = p.old.assignee
  BY <1>1
\* A column that the commit leaves alone.
<1>5. /\ p.new.status = p.old.status => status' = status
      /\ p.new.requester = p.old.requester => requester' = requester
      /\ p.new.assignee = p.old.assignee => assignee' = assignee
  <2>1. \A x \in Tasks \ {t} : tasks'[x] = tasks[x]
    BY <1>1
  <2>2. p.new.status = p.old.status => \A x \in Tasks : tasks'[x].status = tasks[x].status
    BY <1>1, <2>1
  <2>3. p.new.requester = p.old.requester => \A x \in Tasks : tasks'[x].requester = tasks[x].requester
    BY <1>1, <2>1
  <2>4. p.new.assignee = p.old.assignee => \A x \in Tasks : tasks'[x].assignee = tasks[x].assignee
    BY <1>1, <2>1
  <2>. QED
    BY <2>2, <2>3, <2>4
<1>. HIDE DEF status, requester, assignee, author, voucher
<1>7. CASE p.event = "none"
  <2>1. p.new = p.old
    BY <1>1, <1>7 DEF Decided
  <2>. QED
    BY <1>3, <1>5, <1>7, <2>1 DEF Protocol!vars, status, requester, assignee, author, voucher
<1>8. CASE p.event = "created"
  <2>1. /\ p.old = NoTask /\ p.new.requester = a /\ p.new.status = "requested"
    BY <1>1, <1>8 DEF Decided
  <2>2. p.old.status = "none"
    BY <2>1 DEF NoTask
  <2>2a. PICK b \in MaybeAgent : b = p.new.assignee
    BY <1>1 DEF Task
  <2>3. Protocol!Create(t, a, b)
    BY <1>2, <1>3, <1>4, <1>8, <2>1, <2>2, <2>2a
       DEF Protocol!Create, Protocol!Move, Protocol!HandlerSteps,
           status, requester, assignee, author, voucher
  <2>. QED
    BY <1>1, <2>3 DEF Protocol!Next, Protocol!MaybeAgent, MaybeAgent
<1>9. CASE p.event = "accepted"
  <2>1. /\ p.old.assignee \in {None, a} /\ p.old.status = "requested"
        /\ p.new = [p.old EXCEPT !.status = "accepted", !.assignee = a]
    BY <1>1, <1>9 DEF Decided, HandlerEvents
  <2>2. p.new.status = "accepted" /\ p.new.assignee = a /\ p.new.requester = p.old.requester
    BY <1>1, <2>1 DEF Task
  <2>3. Protocol!Accept(t, a)
    BY <1>2, <1>3, <1>4, <1>5, <1>9, <2>1, <2>2
       DEF Protocol!Accept, Protocol!Move, Protocol!HandlerSteps, Protocol!TASK_TRANSITIONS,
           status, requester, assignee, author, voucher
  <2>. QED
    BY <1>1, <2>3 DEF Protocol!Next
<1>10. CASE p.event = "rejected"
  <2>1. /\ a \in {p.old.requester, p.old.assignee} \/ p.old.assignee = None
        /\ p.old.status \in {"requested", "accepted"}
        /\ p.new = [p.old EXCEPT !.status = "rejected",
                                 !.assignee = IF a = p.old.requester THEN @ ELSE a]
    BY <1>1, <1>10 DEF Decided, HandlerEvents
  <2>2. /\ p.new.status = "rejected" /\ p.new.requester = p.old.requester
        /\ p.new.assignee = IF a = p.old.requester THEN p.old.assignee ELSE a
    BY <1>1, <2>1 DEF Task
  <2>3. Protocol!Reject(t, a)
    BY <1>2, <1>3, <1>4, <1>5, <1>10, <2>1, <2>2
       DEF Protocol!Reject, Protocol!Move, Protocol!HandlerSteps, Protocol!TASK_TRANSITIONS,
           status, requester, assignee, author, voucher
  <2>. QED
    BY <1>1, <2>3 DEF Protocol!Next
<1>11. CASE p.event = "progress"
  <2>1. /\ p.old.assignee = a /\ p.old.status \in {"accepted", "in_progress"}
        /\ p.new = [p.old EXCEPT !.status = "in_progress"]
    BY <1>1, <1>11 DEF Decided, HandlerEvents
  <2>2. /\ p.new.status = "in_progress" /\ p.new.assignee = p.old.assignee
        /\ p.new.requester = p.old.requester
    BY <1>1, <2>1 DEF Task
  <2>3. CASE p.old.status = "in_progress"
    BY <1>3, <1>5, <1>11, <2>2, <2>3
       DEF Protocol!vars, status, requester, assignee, author, voucher
  <2>4. CASE p.old.status = "accepted"
    <3>1. Protocol!Progress(t, a)
      BY <1>2, <1>3, <1>4, <1>5, <1>11, <2>1, <2>2, <2>4
         DEF Protocol!Progress, Protocol!Move, Protocol!HandlerSteps, Protocol!TASK_TRANSITIONS,
             status, requester, assignee, author, voucher
    <3>. QED
      BY <1>1, <3>1 DEF Protocol!Next
  <2>. QED
    BY <2>1, <2>3, <2>4
<1>12. CASE p.event = "result"
  <2>1. /\ p.old.assignee = a /\ p.old.status \in {"accepted", "in_progress"}
        /\ p.new = [p.old EXCEPT !.status = "completed"]
    BY <1>1, <1>12 DEF Decided, HandlerEvents
  <2>2. /\ p.new.status = "completed" /\ p.new.assignee = p.old.assignee
        /\ p.new.requester = p.old.requester
    BY <1>1, <2>1 DEF Task
  <2>3. Protocol!Submit(t, a)
    BY <1>2, <1>3, <1>4, <1>5, <1>12, <2>1, <2>2
       DEF Protocol!Submit, Protocol!Move, Protocol!HandlerSteps, Protocol!TASK_TRANSITIONS,
           status, requester, assignee, author, voucher
  <2>. QED
    BY <1>1, <2>3 DEF Protocol!Next
<1>13. CASE p.event = "failed"
  <2>1. /\ a \in {p.old.requester, p.old.assignee}
        /\ p.old.status \in {"accepted", "in_progress"}
        /\ p.new = [p.old EXCEPT !.status = "failed"]
    BY <1>1, <1>13 DEF Decided, HandlerEvents
  <2>2. /\ p.new.status = "failed" /\ p.new.assignee = p.old.assignee
        /\ p.new.requester = p.old.requester
    BY <1>1, <2>1 DEF Task
  <2>3. Protocol!Fail(t, a)
    BY <1>2, <1>3, <1>4, <1>5, <1>13, <2>1, <2>2
       DEF Protocol!Fail, Protocol!Move, Protocol!HandlerSteps, Protocol!TASK_TRANSITIONS,
           status, requester, assignee, author, voucher
  <2>. QED
    BY <1>1, <2>3 DEF Protocol!Next
<1>14. CASE p.event = "verified"
  <2>1. /\ a # p.old.assignee /\ p.old.status = "completed"
        /\ p.new = [p.old EXCEPT !.status = "verified"]
    BY <1>1, <1>14 DEF Decided, HandlerEvents
  <2>2. /\ p.new.status = "verified" /\ p.new.assignee = p.old.assignee
        /\ p.new.requester = p.old.requester
    BY <1>1, <2>1 DEF Task
  <2>3. Protocol!Verify(t, a)
    BY <1>2, <1>3, <1>4, <1>5, <1>14, <2>1, <2>2
       DEF Protocol!Verify, Protocol!Move, Protocol!HandlerSteps, Protocol!TASK_TRANSITIONS,
           status, requester, assignee, author, voucher
  <2>. QED
    BY <1>1, <2>3 DEF Protocol!Next
<1>15. CASE p.event = "disputed"
  <2>1. /\ p.old.status \in {"completed", "failed", "verified"}
        /\ p.new = [p.old EXCEPT !.status = "disputed"]
    BY <1>1, <1>15 DEF Decided, HandlerEvents
  <2>2. /\ p.new.status = "disputed" /\ p.new.assignee = p.old.assignee
        /\ p.new.requester = p.old.requester
    BY <1>1, <2>1 DEF Task
  <2>3. Protocol!Dispute(t, a)
    BY <1>2, <1>3, <1>4, <1>5, <1>15, <2>1, <2>2
       DEF Protocol!Dispute, Protocol!Move, Protocol!HandlerSteps, Protocol!TASK_TRANSITIONS,
           status, requester, assignee, author, voucher
  <2>. QED
    BY <1>1, <2>3 DEF Protocol!Next
<1>. QED
  BY <1>1, <1>7, <1>8, <1>9, <1>10, <1>11, <1>12, <1>13, <1>14, <1>15 DEF Events

\* Every step other than a commit leaves what the protocol sees alone.
LEMMA OthersStutter ==
  ASSUME TypeOK, [Next]_vars, [PartiesStay]_vars, \A w \in Workers : ~Commit(w)
  PROVE  UNCHANGED <<tasks, log>>
<1>1. ASSUME NEW w \in Workers, BeginAction(w) \/ BeginEnvelope(w) \/ Drop(w)
      PROVE  UNCHANGED <<tasks, log>>
  BY <1>1 DEF BeginAction, BeginEnvelope, Drop, tables
<1>2. ASSUME NEW w \in Workers, NEW a \in Agents, Handler(w, a) PROVE UNCHANGED <<tasks, log>>
  <2>1. PICK p \in WriteSet : Queue(w, p)
    BY <1>2, HandlerQueues
  <2>. QED
    BY <2>1 DEF Queue, tables
<1>3. ASSUME NEW a \in Agents, RegisterAgent(a) \/ UpdateAgent(a) PROVE UNCHANGED <<tasks, log>>
  BY <1>3 DEF RegisterAgent, UpdateAgent
<1>4. ASSUME NEW a \in Agents, DeleteAgent(a) PROVE UNCHANGED <<tasks, log>>
  BY <1>4, DeletionsKeepTasks
<1>5. CASE UNCHANGED vars
  BY <1>5 DEF vars
<1>. QED
  BY <1>1, <1>2, <1>3, <1>4, <1>5 DEF Next

(***************************************************************************)
(* While no two requests work on one task and its parties stay, the        *)
(* handlers implement the protocol of a task, whatever overlaps elsewhere  *)
(* and whatever other agents are registered, changed or deleted.           *)
(***************************************************************************)
THEOREM HandlersImplementProtocol ==
  Spec /\ []TasksApart /\ [][PartiesStay]_vars => ImplementsProtocol
<1>1. Init => Protocol!Init
  <2>. SUFFICES ASSUME Init PROVE Protocol!Init
    OBVIOUS
  <2>1. \A t \in Tasks : tasks[t] = NoTask /\ log[t] = <<>>
    BY DEF Init
  <2>2. \A t \in Tasks, event \in Events : LastActor(t, event) = None
    <3>. SUFFICES ASSUME NEW t \in Tasks, NEW event \in Events PROVE LastActor(t, event) = None
      OBVIOUS
    <3>1. At(log[t], event) = {}
      BY <2>1 DEF At
    <3>. QED
      BY <3>1, LastActorIs DEF Last
  <2>. QED
    BY <2>1, <2>2 DEF Protocol!Init, NoTask, Events
<1>2. TypeOK /\ PlanInv /\ SerialInv /\ [Next]_vars /\ [PartiesStay]_vars
      => [Protocol!Next]_(Protocol!vars)
  <2>. SUFFICES ASSUME TypeOK, PlanInv, SerialInv, [Next]_vars, [PartiesStay]_vars
                PROVE  [Protocol!Next]_(Protocol!vars)
    OBVIOUS
  <2>1. CASE \E w \in Workers : Commit(w)
    BY <2>1, CommitImplements
  <2>2. CASE ~ \E w \in Workers : Commit(w)
    <3>1. tasks' = tasks /\ log' = log
      BY <2>2, OthersStutter
    <3>2. \A t, event : LastActor(t, event)' = LastActor(t, event)
      BY <3>1 DEF LastActor
    <3>. QED
      BY <3>1, <3>2 DEF Protocol!vars
  <2>. QED
    BY <2>1, <2>2
<1>. QED
  BY <1>1, <1>2, SerialSound, PTL DEF Spec, ImplementsProtocol, Protocol!Spec

(***************************************************************************)
(* Under the same conditions a status only changes along the state         *)
(* machine: rejected and disputed are terminal.                            *)
(***************************************************************************)
THEOREM StatusesMoveStrictly ==
  Spec /\ []TasksApart /\ [][PartiesStay]_vars => StrictTransitions
<1>. DEFINE Strict == \A t \in Tasks :
       tasks'[t].status # tasks[t].status =>
         <<tasks[t].status, tasks'[t].status>> \in
           TASK_TRANSITIONS \cup {<<"none", "requested">>, <<"accepted", "completed">>}
<1>1. TypeOK /\ PlanInv /\ SerialInv /\ [Next]_vars /\ [PartiesStay]_vars => [Strict]_tasks
  <2>. SUFFICES ASSUME TypeOK, PlanInv, SerialInv, NEW w \in Workers, Commit(w) PROVE Strict
    BY OthersStutter
  <2>. DEFINE p == jobs[w].plan
  <2>1. /\ p.task \in Tasks /\ p.old \in Task /\ p.new \in Task /\ Decided(p)
        /\ p.event \in Events \cup {"none"}
        /\ tasks[p.task] = p.old
        /\ tasks'[p.task] = p.new /\ \A x \in Tasks \ {p.task} : tasks'[x] = tasks[x]
    BY SerialCommit
  <2>. HIDE DEF p
  <2>2. /\ p.event = "created" => p.old.status = "none" /\ p.new.status = "requested"
        /\ p.event \notin {"none", "created"} => <<p.old.status, p.event>> \in HandlerEvents
        /\ p.event = "none" => p.new.status = p.old.status
    BY <2>1 DEF Decided, NoTask
  <2>3. /\ p.event = "accepted" => p.new.status = "accepted"
        /\ p.event = "rejected" => p.new.status = "rejected"
        /\ p.event = "progress" => p.new.status = "in_progress"
        /\ p.event = "result" => p.new.status = "completed"
        /\ p.event = "failed" => p.new.status = "failed"
        /\ p.event = "verified" => p.new.status = "verified"
        /\ p.event = "disputed" => p.new.status = "disputed"
    BY <2>1 DEF Decided, Task
  <2>4. p.new.status # p.old.status =>
          <<p.old.status, p.new.status>> \in
            TASK_TRANSITIONS \cup {<<"none", "requested">>, <<"accepted", "completed">>}
    BY <2>1, <2>2, <2>3 DEF Events, HandlerEvents, TASK_TRANSITIONS
  <2>. QED
    BY <2>1, <2>4
<1>. QED
  BY <1>1, SerialSound, PTL DEF Spec, StrictTransitions
=============================================================================
