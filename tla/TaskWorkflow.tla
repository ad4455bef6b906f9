---------------------------- MODULE TaskWorkflow ----------------------------
(***************************************************************************)
(* The task workflow of the registry (workflow.py behind api.py): request  *)
(* handlers run in a pool of threads (or serverless processes), each with  *)
(* a database session of its own, over the tables agents, tasks,           *)
(* task_events, messages and contributions.                                *)
(*                                                                         *)
(* A handler reads, decides, and writes in one transaction at the end;     *)
(* nothing is locked in between and no row has a version.  So a request is *)
(* three steps: Begin (its first reads), its handler (the other reads and  *)
(* every guard; it fixes the writes), and Commit (the writes, under the    *)
(* constraints of the schema) or Drop (an error response, no writes).      *)
(* With one thread in Workers the requests do not overlap.                 *)
(*                                                                         *)
(* Abstracted: one capability stands for the one a task requests; texts,   *)
(* payloads, results and times are not kept; refusals that depend on them  *)
(* (validation, signature, replay window, token) are covered by Drop.      *)
(***************************************************************************)
EXTENDS Naturals, Sequences, FiniteSets

CONSTANTS
  Agents,      \* agent identifiers
  Tasks,       \* task identifiers
  MessageIds,  \* message identifiers: chosen by clients or drawn by new_id
  Workers,     \* threads that run handlers
  Routes,      \* the routes clients use: "rest", "envelope" or both
  None,        \* SQL NULL
  EnforceFK,   \* TRUE: Postgres; FALSE: SQLite, which ignores foreign keys here
  MaxChurn     \* bound on the updates and deletions of agents

ASSUME NoneAssumption == None \notin Agents /\ None \notin MessageIds
ASSUME ModeAssumption ==
  EnforceFK \in BOOLEAN /\ MaxChurn \in Nat /\ Routes \subseteq {"rest", "envelope"}

VARIABLES
  agents,    \* the registered agents
  capable,   \* those that advertise the requested capability
  tasks,     \* task -> its row
  log,       \* task -> its task_events, in order
  messages,  \* the message rows
  contribs,  \* <<agent, event, task>> -> number of contribution rows
  jobs,      \* thread -> the request it is handling
  churn      \* how many updates and deletions of agents happened

vars == <<agents, capable, tasks, log, messages, contribs, jobs, churn>>

-----------------------------------------------------------------------------
(* Rows and requests *)

Statuses == {"requested", "accepted", "rejected", "in_progress",
             "completed", "failed", "verified", "disputed"}

TransitionsReverify ==   \* mutated: a verified task can be verified again
  {<<"requested", "accepted">>, <<"requested", "rejected">>,
   <<"accepted", "in_progress">>, <<"accepted", "rejected">>, <<"accepted", "failed">>,
   <<"in_progress", "completed">>, <<"in_progress", "failed">>,
   <<"completed", "verified">>, <<"completed", "disputed">>, <<"verified", "verified">>,
   <<"failed", "disputed">>, <<"verified", "disputed">>}

TASK_TRANSITIONS ==
  {<<"requested", "accepted">>, <<"requested", "rejected">>,
   <<"accepted", "in_progress">>, <<"accepted", "rejected">>, <<"accepted", "failed">>,
   <<"in_progress", "completed">>, <<"in_progress", "failed">>,
   <<"completed", "verified">>, <<"completed", "disputed">>,
   <<"failed", "disputed">>, <<"verified", "disputed">>}

MESSAGE_TYPES == {"REQUEST", "ACCEPT", "REJECT", "PROGRESS", "RESULT", "VERIFY"}

Events == {"created", "accepted", "rejected", "progress", "result",
           "failed", "verified", "disputed"}

ContributionEvents == {"task_completed", "task_failed", "result_verified", "dispute"}

MaybeAgent == Agents \cup {None}

Task == [requester : MaybeAgent, assignee : MaybeAgent, status : Statuses \cup {"none"}]

NoTask == [requester |-> None, assignee |-> None, status |-> "none"]

TaskEvent == [event : Events, actor : Agents]

Message == [id : MessageIds, type : MESSAGE_TYPES, from : Agents, task : Tasks]

\* The writes a handler has queued in its session: the row as loaded and as
\* changed, the event and its actor, the messages and the contributions.
WriteSet ==
  [task : Tasks, old : Task, new : Task, event : Events \cup {"none"}, actor : Agents,
   sent : SUBSET Message, credit : SUBSET (Agents \X ContributionEvents)]

Idle == [stage |-> "idle"]

Job ==
  {Idle}
    \cup [stage : {"read"}, via : {"rest", "envelope"}, task : Tasks, row : Task,
           known : SUBSET Agents, able : SUBSET Agents, fresh : SUBSET MessageIds]
    \cup [stage : {"write"}, plan : WriteSet]

TypeOK ==
  /\ agents \subseteq Agents
  /\ capable \subseteq agents
  /\ tasks \in [Tasks -> Task]
  /\ log \in [Tasks -> Seq(TaskEvent)]
  /\ messages \subseteq Message
  /\ contribs \in [Agents \X ContributionEvents \X Tasks -> Nat]
  /\ jobs \in [Workers -> Job]
  /\ churn \in Nat

Init ==
  /\ agents = Agents
  /\ capable \in SUBSET Agents
  /\ tasks = [t \in Tasks |-> NoTask]
  /\ log = [t \in Tasks |-> <<>>]
  /\ messages = {}
  /\ contribs = [c \in Agents \X ContributionEvents \X Tasks |-> 0]
  /\ jobs = [w \in Workers |-> Idle]
  /\ churn = 0

tables == <<agents, capable, tasks, log, messages, contribs, churn>>

UsedIds == {m.id : m \in messages}

-----------------------------------------------------------------------------
(* A request arrives: the reads that come before any decision.  Who asks,  *)
(* for what and under which message_id is bound later, where it is used.   *)

\* _run_task_action: db.get(Task), 404 unless the task exists.
BeginAction(w) ==
  /\ "rest" \in Routes
  /\ jobs[w] = Idle
  /\ \E t \in {x \in Tasks : tasks[x].status # "none"} :
       jobs' = [jobs EXCEPT ![w] =
         [stage |-> "read", via |-> "rest", task |-> t, row |-> tasks[t],
          known |-> {}, able |-> {}, fresh |-> {}]]
  /\ UNCHANGED tables

\* post_message: store_message comes before the task is read.  It refuses a
\* stored message_id and unknown agents, and leaves the agents (with their
\* capabilities) loaded in the session for the handler that follows.
BeginEnvelope(w) ==
  /\ "envelope" \in Routes
  /\ jobs[w] = Idle
  /\ \E t \in Tasks :
       jobs' = [jobs EXCEPT ![w] =
         [stage |-> "read", via |-> "envelope", task |-> t, row |-> NoTask,
          known |-> agents, able |-> capable, fresh |-> MessageIds \ UsedIds]]
  /\ UNCHANGED tables

-----------------------------------------------------------------------------
(* The handlers *)

\* The row the handler works on: loaded first by a REST action, after the
\* message by an envelope.
Row(w) == IF jobs[w].via = "rest" THEN jobs[w].row ELSE tasks[jobs[w].task]

\* Agents that _get_agent finds with the capability: an envelope finds the
\* collections its session loaded before, if the agent is still there.
Able(w) == IF jobs[w].via = "rest" THEN capable ELSE jobs[w].able \cap agents

\* _action_message and store_message: replay check, sender and recipient.
\* An envelope went through them at its beginning (_skip_message).
MaySend(w, id, from, to) ==
  IF jobs[w].via = "rest"
    THEN id \notin UsedIds /\ {from, to} \subseteq agents
    ELSE id \in jobs[w].fresh /\ from \in jobs[w].known

AllowedAlways(w, to) == TRUE   \* mutated: transition() checks nothing

\* transition() from the loaded status.
Allowed(w, to) == <<Row(w).status, to>> \in TASK_TRANSITIONS

OnTask(w) == jobs[w].stage = "read" /\ Row(w).status # "none"

Msg(id, type, from, t) == [id |-> id, type |-> type, from |-> from, task |-> t]

\* The end of a handler: the session holds these writes.
Queue(w, plan) ==
  /\ jobs' = [jobs EXCEPT ![w] = [stage |-> "write", plan |-> plan]]
  /\ UNCHANGED tables

\* The writes of a handler that changed the row it loaded.
Change(w, a, new, event, sent, credit) ==
  [task |-> jobs[w].task, old |-> Row(w), new |-> new, event |-> event, actor |-> a,
   sent |-> sent, credit |-> credit]

\* The writes of create_task.
Creation(t, requester, assignee, sent) ==
  [task |-> t, old |-> NoTask,
   new |-> [requester |-> requester, assignee |-> assignee, status |-> "requested"],
   event |-> "created", actor |-> requester, sent |-> sent, credit |-> {}]

\* Its checks: the requester exists; the assignee, if any, advertises the
\* capability (is in able); the id is new.
MayCreate(t, requester, assignee, able) ==
  /\ requester \in agents
  /\ assignee \in able \cup {None}
  /\ tasks[t].status = "none"

\* Identifiers new_id may draw: none that exists or is on its way.
FreshIds ==
  MessageIds \ (UsedIds \cup
    UNION {{m.id : m \in jobs[w].plan.sent} : w \in {v \in Workers : jobs[v].stage = "write"}})

\* post_task, all of it: with an assignee it emits the REQUEST message itself.
CreateTask(w, t, a, b) ==
  /\ "rest" \in Routes
  /\ jobs[w] = Idle
  /\ MayCreate(t, a, b, capable)
  /\ \E sent \in IF b = None THEN {{}} ELSE {{Msg(i, "REQUEST", a, t)} : i \in FreshIds} :
       Queue(w, Creation(t, a, b, sent))

\* apply_message of a REQUEST: its recipient is the assignee.
ApplyRequest(w, a, b, id) ==
  LET t == jobs[w].task IN
  /\ jobs[w].stage = "read"
  /\ jobs[w].via = "envelope"
  /\ id \in jobs[w].fresh
  /\ {a, b} \subseteq jobs[w].known
  /\ MayCreate(t, a, b, Able(w))
  /\ Queue(w, Creation(t, a, b, {Msg(id, "REQUEST", a, t)}))

\* apply_message with nothing to apply: a REQUEST for a task that exists, or
\* another type for a task that does not.  The message is kept all the same.
KeepMessage(w, a, type, id) ==
  /\ jobs[w].stage = "read"
  /\ jobs[w].via = "envelope"
  /\ id \in jobs[w].fresh
  /\ a \in jobs[w].known
  /\ (type = "REQUEST") <=> (Row(w).status # "none")
  /\ Queue(w, Change(w, a, Row(w), "none", {Msg(id, type, a, jobs[w].task)}, {}))

EnsureNothing(w, a) == TRUE   \* mutated: anyone may take an assigned task

\* _ensure_assignee: an open task, or the agent's own.
EnsureAssignee(w, a) == Row(w).assignee \in {None, a}

\* accept_task, which gives an open task to the agent.
AcceptTask(w, a, id) ==
  /\ OnTask(w)
  /\ EnsureAssignee(w, a)
  /\ a \in Able(w)
  /\ MaySend(w, id, a, Row(w).requester)
  /\ Allowed(w, "accepted")
  /\ Queue(w, Change(w, a, [Row(w) EXCEPT !.status = "accepted", !.assignee = a],
                     "accepted", {Msg(id, "ACCEPT", a, jobs[w].task)}, {}))

\* reject_task by the requester, the assignee or, on an open task, anyone,
\* who then becomes its assignee.  A requester tells the assignee, if any.
RejectTask(w, a, id) ==
  LET row == Row(w)
      holder == IF a # row.requester /\ row.assignee = None THEN a ELSE row.assignee
      to == IF a = row.requester /\ row.assignee # None THEN row.assignee ELSE row.requester
  IN
  /\ OnTask(w)
  /\ a \in {row.requester, row.assignee} \/ row.assignee = None
  /\ MaySend(w, id, a, to)
  /\ Allowed(w, "rejected")
  /\ Queue(w, Change(w, a, [row EXCEPT !.status = "rejected", !.assignee = holder],
                     "rejected", {Msg(id, "REJECT", a, jobs[w].task)}, {}))

\* progress_task by the assignee: the first report starts the work.
ProgressTask(w, a, id) ==
  /\ OnTask(w)
  /\ Row(w).assignee = a
  /\ Row(w).status \in {"accepted", "in_progress"}
  /\ MaySend(w, id, a, Row(w).requester)
  /\ Queue(w, Change(w, a, [Row(w) EXCEPT !.status = "in_progress"],
                     "progress", {Msg(id, "PROGRESS", a, jobs[w].task)}, {}))

\* submit_result by the assignee, through in_progress when still accepted.
SubmitResult(w, a, id) ==
  /\ OnTask(w)
  /\ Row(w).assignee = a
  /\ Row(w).status \in {"accepted", "in_progress"}
  /\ MaySend(w, id, a, Row(w).requester)
  /\ Queue(w, Change(w, a, [Row(w) EXCEPT !.status = "completed"],
                     "result", {Msg(id, "RESULT", a, jobs[w].task)},
                     {<<a, "task_completed">>}))

BlamedAssignee(w, a) == Row(w).assignee   \* mutated: there may be none any more

\* Whom a failure or a dispute is recorded against.
Blamed(w, a) == IF Row(w).assignee = None THEN a ELSE Row(w).assignee

\* fail_task: REST only, no message, and nothing looks the agent up.
FailTask(w, a) ==
  /\ OnTask(w)
  /\ jobs[w].via = "rest"
  /\ a \in {Row(w).assignee, Row(w).requester}
  /\ Allowed(w, "failed")
  /\ Queue(w, Change(w, a, [Row(w) EXCEPT !.status = "failed"],
                     "failed", {}, {<<Blamed(w, a), "task_failed">>}))

NotRequester(w, a) == a # Row(w).requester   \* mutated: the other party is refused

\* "the assignee cannot vouch their own result"
Independent(w, a) == a # Row(w).assignee

\* verify_task by any registered agent but the assignee of the loaded row,
\* who gets the credit.
VerifyTask(w, a, id) ==
  /\ OnTask(w)
  /\ Independent(w, a)
  /\ a \in agents
  /\ MaySend(w, id, a, Row(w).requester)
  /\ Allowed(w, "verified")
  /\ Queue(w, Change(w, a, [Row(w) EXCEPT !.status = "verified"],
                     "verified", {Msg(id, "VERIFY", a, jobs[w].task)},
                     ({Row(w).assignee} \ {None}) \X {"result_verified"}))

\* dispute_task: REST only, by any registered agent, no message.
DisputeTask(w, a) ==
  /\ OnTask(w)
  /\ jobs[w].via = "rest"
  /\ a \in agents
  /\ Allowed(w, "disputed")
  /\ Queue(w, Change(w, a, [Row(w) EXCEPT !.status = "disputed"],
                     "disputed", {}, {<<Blamed(w, a), "dispute">>}))

-----------------------------------------------------------------------------
(* The end of a transaction *)

\* SQLAlchemy's UPDATE sets the columns the session changed, nothing else.
Dirty(db, old, new) == IF new # old THEN new ELSE db

Merged(db, old, new) ==
  [requester |-> Dirty(db.requester, old.requester, new.requester),
   assignee |-> Dirty(db.assignee, old.assignee, new.assignee),
   status |-> Dirty(db.status, old.status, new.status)]

NothingUnique(p) == TRUE   \* mutated: no unique constraint on message_id

\* uq_message_id
UniqueMessage(p) == \A m \in p.sent : m.id \notin UsedIds

\* INSERT of a new primary key; UPDATE of a row that is still there.
RowMatches(p) ==
  p.new # p.old => (tasks[p.task].status = "none" <=> p.old.status = "none")

OwnerUnchecked(p) ==   \* mutated: contributions do not refer to agents
  /\ p.event \notin {"none", "created"} => tasks[p.task].status # "none"
  /\ p.new.requester # p.old.requester => p.new.requester \in agents
  /\ p.new.assignee # p.old.assignee => p.new.assignee \in agents \cup {None}

\* The rows the written ones refer to exist.
ForeignKeys(p) ==
  /\ p.event \notin {"none", "created"} => tasks[p.task].status # "none"
  /\ \A c \in p.credit : c[1] \in agents
  /\ p.new.requester # p.old.requester => p.new.requester \in agents
  /\ p.new.assignee # p.old.assignee => p.new.assignee \in agents \cup {None}

FirstReportLost(p) ==   \* mutated: the report that starts the work is not recorded
  IF p.event = "none" \/ (p.event = "progress" /\ p.new # p.old) THEN log
  ELSE [log EXCEPT ![p.task] = Append(@, [event |-> p.event, actor |-> p.actor])]

\* add_event
Recorded(p) ==
  IF p.event = "none" THEN log
  ELSE [log EXCEPT ![p.task] = Append(@, [event |-> p.event, actor |-> p.actor])]

\* add_contribution
Credited(p) ==
  [c \in DOMAIN contribs |->
     IF c[3] = p.task /\ <<c[1], c[2]>> \in p.credit THEN contribs[c] + 1 ELSE contribs[c]]

Commit(w) ==
  LET p == jobs[w].plan IN
  /\ jobs[w].stage = "write"
  /\ UniqueMessage(p)
  /\ RowMatches(p)
  /\ EnforceFK => ForeignKeys(p)
  /\ tasks' = [tasks EXCEPT ![p.task] = Merged(@, p.old, p.new)]
  /\ log' = Recorded(p)
  /\ messages' = messages \cup p.sent
  /\ contribs' = Credited(p)
  /\ jobs' = [jobs EXCEPT ![w] = Idle]
  /\ UNCHANGED <<agents, capable, churn>>

DropKeepsCredit(w) ==   \* mutated: add_contribution commits on its own
  /\ jobs[w].stage = "write"
  /\ jobs' = [jobs EXCEPT ![w] = Idle]
  /\ contribs' = Credited(jobs[w].plan)
  /\ UNCHANGED <<agents, capable, tasks, log, messages, churn>>

\* A refusal, a violated constraint, a lost connection, a crash: the session
\* is closed and nothing it queued is kept.
Drop(w) ==
  /\ jobs[w] # Idle
  /\ jobs' = [jobs EXCEPT ![w] = Idle]
  /\ UNCHANGED tables

-----------------------------------------------------------------------------
(* The agent directory, as far as tasks depend on it *)

\* register_agent, with or without the capability.
RegisterAgent(a) ==
  /\ a \notin agents
  /\ agents' = agents \cup {a}
  /\ capable' \in {capable, capable \cup {a}}
  /\ UNCHANGED <<tasks, log, messages, contribs, jobs, churn>>

\* update_agent with a new list of capabilities.
UpdateAgent(a) ==
  /\ churn < MaxChurn
  /\ a \in agents
  /\ capable' = IF a \in capable THEN capable \ {a} ELSE capable \cup {a}
  /\ churn' = churn + 1
  /\ UNCHANGED <<agents, tasks, log, messages, contribs, jobs>>

RowKeeping(a, row) ==   \* mutated: no SET NULL on the assignee
  IF row.requester = a THEN NoTask ELSE row

\* Foreign keys of a task, where enforced, when an agent is deleted: the tasks
\* it requested go too (CASCADE), the ones it works on lose it (SET NULL).
RowWithout(a, row) ==
  IF row.requester = a THEN NoTask
  ELSE IF row.assignee = a THEN [row EXCEPT !.assignee = None]
  ELSE row

\* delete_agent: its contributions go with it.
DeleteAgent(a) ==
  /\ churn < MaxChurn
  /\ a \in agents
  /\ agents' = agents \ {a}
  /\ capable' = capable \ {a}
  /\ contribs' = [c \in DOMAIN contribs |-> IF c[1] = a THEN 0 ELSE contribs[c]]
  /\ IF EnforceFK
       THEN /\ tasks' = [t \in Tasks |-> RowWithout(a, tasks[t])]
            /\ log' = [t \in Tasks |-> IF tasks[t].requester = a THEN <<>> ELSE log[t]]
       ELSE UNCHANGED <<tasks, log>>
  /\ churn' = churn + 1
  /\ UNCHANGED <<messages, jobs>>

-----------------------------------------------------------------------------

Handler(w, a) ==
  \/ \E t \in Tasks, b \in MaybeAgent : CreateTask(w, t, a, b)
  \/ \E id \in MessageIds :
       \/ \E b \in Agents : ApplyRequest(w, a, b, id)
       \/ \E type \in MESSAGE_TYPES : KeepMessage(w, a, type, id)
       \/ AcceptTask(w, a, id)
       \/ RejectTask(w, a, id)
       \/ ProgressTask(w, a, id)
       \/ SubmitResult(w, a, id)
       \/ VerifyTask(w, a, id)
  \/ FailTask(w, a)
  \/ DisputeTask(w, a)

Next ==
  \/ \E w \in Workers :
       \/ BeginAction(w)
       \/ BeginEnvelope(w)
       \/ \E a \in Agents : Handler(w, a)
       \/ Commit(w)
       \/ Drop(w)
  \/ \E a \in Agents :
       \/ RegisterAgent(a)
       \/ UpdateAgent(a)
       \/ DeleteAgent(a)

Spec == Init /\ [][Next]_vars

-----------------------------------------------------------------------------
(* Properties *)

\* The events one of which must come before an event of the task's history.
Causes(event) ==
  CASE event = "created"  -> {}
    [] event \in {"accepted", "rejected"} -> {"created"}
    [] event \in {"progress", "result", "failed"} -> {"accepted"}
    [] event = "verified" -> {"result"}
    [] event = "disputed" -> {"result", "failed"}

\* The event the handler that sets a status records.
EventOf(status) ==
  CASE status = "requested"   -> "created"
    [] status = "in_progress" -> "progress"
    [] status = "completed"   -> "result"
    [] OTHER -> status

Occurred(t, events) == \E i \in DOMAIN log[t] : log[t][i].event \in events

\* A row as some committed handler left it: its status has its event.
Backed(t, row) == row.status # "none" => Occurred(t, {EventOf(row.status)})

(***************************************************************************)
(* However the handlers of a task interleave, and although a late commit   *)
(* may overwrite a newer status, no history has an effect before its       *)
(* cause: a result or a failure follows an acceptance, a verification      *)
(* follows a result, a dispute follows a result or a failure (transition() *)
(* with add_event in one transaction).                                     *)
(***************************************************************************)
CausalHistory ==
  \A t \in Tasks : \A i \in DOMAIN log[t] :
    Causes(log[t][i].event) # {} =>
      \E j \in 1 .. i - 1 : log[t][j].event \in Causes(log[t][i].event)

(***************************************************************************)
(* The status a task shows is one its history explains: the event that     *)
(* sets it is there (GET /tasks/{id} against GET /tasks/{id}/history).     *)
(***************************************************************************)
StatusExplained == \A t \in Tasks : Backed(t, tasks[t])

EventCount(t, a, event) ==
  Cardinality({i \in DOMAIN log[t] : log[t][i] = [event |-> event, actor |-> a]})

MessageOf(event) ==
  CASE event = "accepted" -> "ACCEPT"
    [] event = "rejected" -> "REJECT"
    [] event = "progress" -> "PROGRESS"
    [] event = "result"   -> "RESULT"
    [] event = "verified" -> "VERIFY"

(***************************************************************************)
(* One message moves a task at most once: an agent has no more events of a *)
(* kind in a task's history than stored messages of that kind for it, so   *)
(* neither a repeated POST nor two at the same time apply twice            *)
(* (check_replay and the unique message_id).                               *)
(***************************************************************************)
AppliedOnce ==
  \A t \in Tasks, a \in Agents, e \in {"accepted", "rejected", "progress", "result", "verified"} :
    EventCount(t, a, e) <=
      Cardinality({m \in messages : m.task = t /\ m.from = a /\ m.type = MessageOf(e)})

\* The event of a task that earns a contribution.
Earns(kind) ==
  CASE kind = "task_completed"  -> "result"
    [] kind = "task_failed"     -> "failed"
    [] kind = "result_verified" -> "verified"
    [] kind = "dispute"         -> "disputed"

(***************************************************************************)
(* Contributions are earned: an agent has no more contributions of a kind  *)
(* for a task than the task has events of that kind, and no more           *)
(* completions than results of its own (add_contribution beside add_event; *)
(* deletions of agents only take contributions away).                      *)
(***************************************************************************)
ContributionsEarned ==
  \A t \in Tasks, kind \in ContributionEvents :
    /\ \A a \in Agents :
         contribs[<<a, kind, t>>] <=
           Cardinality({i \in DOMAIN log[t] : log[t][i].event = Earns(kind)})
    /\ kind = "task_completed" =>
         \A a \in Agents : contribs[<<a, kind, t>>] <= EventCount(t, a, "result")

(***************************************************************************)
(* A task's result is vouched for at most once: no agent is credited twice *)
(* with a verified result of one task, so verification_rate in metrics_for *)
(* stays a rate.                                                           *)
(***************************************************************************)
VouchedOnce ==
  \A a \in Agents, t \in Tasks : contribs[<<a, "result_verified", t>>] <= 1

(***************************************************************************)
(* No one verifies a task whose result is theirs (verify_task: "Checker    *)
(* must not be the assignee").                                             *)
(***************************************************************************)
NoSelfVouch ==
  \A t \in Tasks, a \in Agents :
    EventCount(t, a, "verified") > 0 => EventCount(t, a, "result") = 0

(***************************************************************************)
(* A task's status only changes along TASK_TRANSITIONS (two of them when a *)
(* result is submitted on an accepted task): rejected and disputed are     *)
(* terminal.                                                               *)
(***************************************************************************)
StrictTransitions ==
  [][\A t \in Tasks :
       tasks'[t].status # tasks[t].status =>
         <<tasks[t].status, tasks'[t].status>> \in
           TASK_TRANSITIONS \cup {<<"none", "requested">>, <<"accepted", "completed">>}]_tasks

(***************************************************************************)
(* With foreign keys enforced no task, event or contribution refers to a   *)
(* missing row, whatever was deleted while a handler held its snapshot:    *)
(* tasks name registered agents, contributions belong to registered        *)
(* agents, and a task that is gone has no events.  (Messages have no       *)
(* foreign keys: they name tasks and agents that may be gone.)             *)
(***************************************************************************)
ReferencesHold ==
  /\ \A t \in Tasks :
       /\ tasks[t].status # "none" =>
            /\ tasks[t].requester \in agents
            /\ tasks[t].assignee \in agents \cup {None}
       /\ tasks[t].status = "none" => tasks[t] = NoTask /\ log[t] = <<>>
  /\ \A c \in DOMAIN contribs : contribs[c] > 0 => c[1] \in agents

(***************************************************************************)
(* A requester is never stuck with an open task: while it is registered,   *)
(* one of the REST actions open to it (reject, fail, dispute) passes its   *)
(* checks, whoever was deleted.  It needs the foreign keys: where they are *)
(* ignored a requested task may keep a deleted assignee, and the message   *)
(* of a rejection then has no recipient.                                   *)
(***************************************************************************)
RequesterCanClose ==
  \A t \in Tasks :
    LET row == tasks[t] IN
    row.requester \in agents /\ row.status \notin {"rejected", "disputed"} =>
      \/ <<row.status, "failed">> \in TASK_TRANSITIONS
      \/ <<row.status, "disputed">> \in TASK_TRANSITIONS
      \/ /\ <<row.status, "rejected">> \in TASK_TRANSITIONS
         /\ row.assignee \in agents \cup {None}

\* The last agent to have recorded an event of a task, or None.
LastActor(t, event) ==
  LET at == {i \in DOMAIN log[t] : log[t][i].event = event}
  IN IF at = {} THEN None ELSE log[t][CHOOSE i \in at : \A j \in at : j <= i].actor

Protocol == INSTANCE TaskProtocol WITH
  status <- [t \in Tasks |-> tasks[t].status],
  requester <- [t \in Tasks |-> tasks[t].requester],
  assignee <- [t \in Tasks |-> tasks[t].assignee],
  author <- [t \in Tasks |-> LastActor(t, "result")],
  voucher <- [t \in Tasks |-> LastActor(t, "verified")]

(***************************************************************************)
(* Handlers that do not overlap implement the protocol of a task.          *)
(***************************************************************************)
ImplementsProtocol == Protocol!Spec
=============================================================================
