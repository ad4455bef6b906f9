# TLA+ models of the agent registry

The registry (`src/src/tar`) is a FastAPI service over SQLAlchemy, on SQLite or
Postgres, in which agents register, advertise capabilities, delegate tasks to one
another, report and verify results, and earn a visible record of it. This
directory holds TLA+ modules for its core logic, TLC configurations that check
them on small instances, and proofs checked by TLAPS.

Paths below are relative to the repository's root, which is `src/` beside this
directory: `workflow.py` is `src/src/tar/workflow.py`.

## 1. The system

### Where the hard behaviour comes from

Route handlers are synchronous functions. The server runs them in a pool of
threads, or a serverless host in several processes, each with its own database
session (`db.py:get_db`; autoflush off, commit at the end of the route). Within a
handler nothing locks a row and no table has a version column, so

* everything a handler decided on (`task.status`, `task.assignee_id`, the agents
  it looked up) may have changed by the time it commits;
* its UPDATE names the primary key and sets the columns that the session changed,
  so of two handlers that loaded one row the later commit wins, column by column;
* what stops it is only the schema: `uq_message_id`, `uq_agent_cap`, primary
  keys, and foreign keys - on Postgres; SQLite connections never set
  `PRAGMA foreign_keys`, so there they are ignored;
* whatever fails before or at the commit takes everything back that the session
  queued.

A request in the models is therefore three steps: *Begin* (its first reads), the
*handler* (the other reads, all guards; it fixes the writes), *Commit* (writes and
constraints in one transaction) or *Drop* (refusal, violated constraint, lost
connection, crash). With one worker, requests do not overlap.

### Components

| component | state | operations | what makes it correct | module |
|---|---|---|---|---|
| Task workflow (`workflow.py`, task and message routes of `api.py`) | tasks, task_events, messages, contributions | create, accept, reject, progress, result, fail, verify, dispute; the same as A2A envelopes | strict transitions; who may act; a message applies once; history, status and credit agree | `TaskProtocol`, `TaskWorkflow` |
| Credence (`record_verification`, `_replace_capabilities`) | `verification_status`, agent_capabilities rows, verification_records | claim, evidence, independent check, vouch, dispute; PUT of claims | a vouch needs a check; nothing is verified by itself; disputes stay | `Credence` |
| Request limiter (`security.py`) | a deque of times per client, in memory | one decision per request | no more than the limit in any window; no one refused for less | `RateLimiter` |
| Agent directory (`register_agent`, `update_agent`, `delete_agent`, `manual_fix_agent_pubkey.py`, `identity.py`) | agents, DIDs, keys, demo flags | register, replace, repair, delete | one agent per DID; the key follows the DID; what refers to an agent goes with it | `AgentDirectory`; as far as they need it in the others |
| Signed messages (`crypto.py`, `require_signature`, `signature_status_for`, `tar_client`, `tar_cli`) | public keys, stored signatures | stamp, sign, send, require, re-check | sender and receiver build the same bytes; a verdict that can be trusted later | `SignedMessages` |
| TCLK rooms (`tclk.py`, `tclk_api.py`, `tclk_bridge.py`) | rooms, frames, contracts | make a room, post a frame and advance its contract in an external process | a transcript without gaps; no status without its frames; a contract moves as its machine says; a deal has its room | `TclkLedger`, `TclkRooms` |
| Swarms (`_assemble`, `propose_swarm`, `create_swarm`, `add_swarm_member`), ranking, the contribution log outside tasks | swarms, members, contributions | assemble, persist, create, join, log | a covering set in rank order; members exist | `Swarms` |
| Start-up (`db.init_db`, taxonomy) | tables, indexes, columns, catalogue rows | create, add columns, synchronise | who serves has its tables, columns and catalogue; what a start that is cut off leaves undone, later ones do; processes that start together all end up serving | `Startup` |
| Web pages | none of their own | `POST /ui/communicate` acts on tasks, `POST /ui/agents/new` registers; the rest renders | | first of these in `SignedMessages` |
| Secret screening, A2A descriptor, reputation log, demo data, assets | none of their own that a decision reads | | | not modelled |

Interactions: every component shares the `agents` table. The workflow reads it to
admit senders, recipients, assignees and verifiers, and writes contributions that
belong to an agent and disappear with it. Credence changes the same agent rows and
the claims that `create_task` and `accept_task` look at. The limiter stands in
front of all routes and shares nothing with them. Stored messages are judged with the
profile their sender has *now*, swarm members and contributions name agents by id, and
every process runs start-up before any of this.

`PROJECT.json` lists the hazards at their lines, with the properties that watch
them.

## 2. The modules

### TaskProtocol: what the registry promises about one task

The abstract specification: status, requester, assignee, author of the result,
voucher. One action per handler, atomic, with the permission checks and the table
`TASK_TRANSITIONS`; no requests, messages, threads or rows. `IndependentVoucher`
(no one vouches for their own result) is its safety property.

### TaskWorkflow: how it is done

| model | code |
|---|---|
| `BeginAction` | `_run_task_action` (`api.py:607`): the task is loaded, 404 without it |
| `BeginEnvelope` | `post_message`, `store_message`: replay check and agents come *before* the task is read |
| `CreateTask`, `ApplyRequest`, `KeepMessage` | `post_task` with `create_task`; `apply_message` of a REQUEST; `apply_message` that stores a message and applies nothing |
| `AcceptTask` ... `DisputeTask` | the functions of the same names in `workflow.py` |
| `Commit` | `db.commit()`: `Merged` (UPDATE of changed columns), `Recorded` (`add_event`), `Credited` (`add_contribution`), under `UniqueMessage`, `RowMatches` and, on Postgres, `ForeignKeys` |
| `Drop` | `get_db` closes the session without a commit |
| `RegisterAgent`, `UpdateAgent`, `DeleteAgent` | the directory as far as tasks depend on it; `RowWithout` is CASCADE and SET NULL |

What differs between the two routes is kept, since it matters: over REST the task
is loaded first and the sender, the recipient and the replay check are read in the
handler; an envelope reads them at its beginning and the task afterwards, and finds
agents with the capabilities its session loaded then. `fail` and `dispute` exist on
REST only and send no message. An envelope that comes too early is stored, its id
is spent, and it is never applied: that is `KeepMessage`.

Abstractions. One capability stands for the one a task requests. Descriptions,
payloads, results, protocols and times are left out, and so is the recipient of a
stored message, which nothing reads back. Refusals that depend on them (validation,
signature, token, replay window) are `Drop`: the handler stopped. Who acts and
under which message id is bound in the handler rather than at Begin; nothing is
read in between that depends on it. A registered agent comes with or without the
capability.

### Credence: checks, vouches and claims

Claims are rows with integer ids. `PUT /agents/{id}` deletes the rows the session
loaded and inserts new ones; a verification record marks the claim it loaded, by
id. Ids come from a sequence on Postgres; on SQLite the column is no AUTOINCREMENT
(`models.py:72`), so a freed id is used again. `BeginVerification` is the load of
the agent with its claims, `RecordVerification` is `record_verification`, `Commit`
checks row counts (`RowsMatch`: SQLAlchemy's StaleDataError), `uq_agent_cap` and
the foreign keys of Postgres.

Abstractions. `checker_id` is free text; only whether a vouch names the agent
itself is kept. The capability of a record is kept where it marks a claim. Dispute
contributions, `POST /contributions` and the texts are not kept: no decision reads
them. Deleting an agent is one step. `verified`, `community-verified` and `expired`
as a status of the agent are set by no handler and left out. The field `sent` of a
claim is history: the evidence its row was inserted with. A PUT stores whatever
`evidence_status` it is sent (`schemas.py:84`, `api.py:171`); the constant `Offered`
only bounds which of them clients send in an instance.

### RateLimiter

`dispatch` awaits nothing before it has decided, so a decision is one step on the
event loop. `hits` is `_hits`; `served` is a history variable in real time, which
the code does not have: it reads `time.time()`, and `SetBack` moves that clock.
`Restart` empties the deques, as a new process does. The limit is a promise of one
process: several of them each have their own deques. A clock that jumps forward
lets clients through early and is not modelled.

### TclkRooms

One offer and the contracts that acceptances of it make, in the offer room and the
contracts' deal rooms. A frame may be posted to any room that exists: nothing in
`post_frame` ties a frame to a room.

| model | code |
|---|---|
| `Begin` | `post_frame` up to the number it reads: `ensure_offer_room`, 404 without the room, `_next_seq` |
| `Flush` | `db.flush()`: the frame is inserted, under `uq_tclk_room_seq` (`UniqueSeq`); from here to the commit its number is held, and on SQLite the write lock too (`MayWrite`) |
| `KeepFrame` | `_advance_protocol` where it changes no contract: unknown contract or offer, a frame the machine refuses, `TclkBridgeError` |
| `PostOffer`, `PostAccept` | its first two branches; both start from the offer as opened |
| `Load`, `PostStep` | its last branch: the contract is read, then `apply_frame` runs in another process, for up to 30 seconds |
| `Commit`, `Drop` | `post_room_frame`: commit; rollback, or a request that ends without either |
| `MakeRoom` | `create_deal_room`, `list_rooms` |

`Machine` is the contract machine of `@flop-labs/tclk`, which is not part of the
repository; its steps are the ones the web page names (`tclk.html:8`: offer, accept,
lock, reveal or refund). Which parties and deadlines it refuses is left to
`KeepFrame`. Signatures are left out: a bad one is noted in the row and refuses
nothing. Amounts, parties and secrets are left out too; a session that sets the
status a row already has writes no status.

### TclkLedger: what the rooms promise

The abstract specification of the rooms: a frame is posted in one step, at the end of its
room and under the next number, and in the same step the contract it is about stays
(`Keep`), is opened, accepted or advanced. No sessions, no numbers read ahead, no
unique key, no failures. What cannot be abstracted away is in its actions: an acceptance
is applied however the contract stands, an offer may take effect on any row of it
(`tclk.py:144`), and without a single writer a frame may advance a contract from a status
it had before a frame in another room. The machine is a parameter.

### AgentDirectory: keys, DIDs and demo flags

| model | code |
|---|---|
| `RegisterAgent` | `register_agent` up to `db.add` (`POST /agents`; the page `/ui/agents/new` calls the same function): id and DID free, `AgentCreate` |
| `LoadAgent`, `UpdateAgent` | `update_agent`: the row is loaded, then the body (`AgentUpdate`) applied to it |
| `LoadAgent`, `ManualFix` | `scripts/manual_fix_agent_pubkey.py`, which looks for no clash |
| `Commit` | the INSERT, or the UPDATE of the changed columns (`Merge`), under the unique column `did` |
| `DeleteAgent` | `delete_agent` |

A did:key identifier is named by the key it embeds, so decoding it (multibase,
multicodec) is a lookup; malformed input is refused before anything is read. Names,
endpoints and protocols are left out.

### SignedMessages: who signs what, and who believes it

It extends `AgentDirectory`: the same profiles change while clients sign and the
registry checks.

| model | code |
|---|---|
| `Stamp`, `LibrarySends` | `TarClient._task_action`: one timestamp, then the task is read and the envelope signed for its requester |
| `CommandLineSends` | `tar_cli`: the same, but `_sign` takes a timestamp of its own |
| `EnvelopeSends` | `POST /messages` by any client, which names its recipient itself |
| `CheckerSends`, `Completed` | `POST /tasks/{id}/verify` by any client; `verify_task` adds a field to the payload first |
| `communicate_submit` | the web form: no signature, the server's id and time |
| `Check`, `Refuse` | `store_message` and `_action_message`: replay window, agents, entitlement, `require_signature` |
| `RequestTask` | `create_task` with an assignee: a REQUEST the registry writes itself, unsigned |
| `Store`, `Abandon` | commit, or a session that ends without one |
| `signature_status_for`, `verify_message` | the verifiers of the registry and of the library |

The canonical bytes determine the fields and a signature cannot be forged, so a
signature *is* the key it was made with and the fields it covers; only those that
parties can disagree on are kept: recipient, time, and of the payload whether it says
`independent_rerun` (id, type, sender and task are signed as they are sent). `ACCEPT`
stands for what only the assignee does, `REJECT` for what requester or assignee do,
`VERIFY` for what anyone else does. Each message keeps its sender's row as it
was when the signature was checked, a history variable.

### Swarms: ranking, covers, members and the contribution log

`score_agent` is the sum of `ranking.py` in hundredths, `rank_agents` its order,
`Executing` the loop of `_assemble` without its early break, which changes nothing.
Requests are a read step (`propose_swarm`, `create_swarm`, `add_swarm_member`,
`agent_proof`, `post_contribution`) and a `Commit` or `Drop`. `agent_proof` stands for
both routes that log a proof, `post_contribution` for the events the route lets
through. `DeleteAgent` removes memberships itself and contributions by the ORM's
cascade; what is committed for a deleted agent afterwards is refused on Postgres and
stays on SQLite. Agents change in one step: their races are in `AgentDirectory`.

### Startup: several processes bring one database up to date

`create_all`, `CreateIndex`, `_add_missing_columns` (`ListTables`, `InspectTable`, `AddColumns`) and
`sync_taxonomy` (`ReadCatalogue`, and the commit) by every process, each looking first
and writing later. On Postgres the statements of a part take effect together, on
SQLite, whose driver does not open a transaction for DDL, one at a time. A statement
that finds its object there fails and ends the start (`Fail`); a `Crash` leaves what
was committed; the host starts the process again.

SQLAlchemy makes the indexes of columns with `index=True` by `CREATE INDEX` statements
after that of their table. `agents.did` has its uniqueness from one of them
(`models.py:30`: `unique=True, index=True`), while `uq_message_id`, `uq_agent_cap` and the
others are part of `CREATE TABLE`. A start that finds a table leaves its indexes
alone, so what is cut off between the two statements stays so: `IndexesLostByCutOff` says
when that happens, and `ServingReady` speaks of indexes on Postgres only. `StoreClash` is
two requests that a serving process answers while the index is missing: rows that clash
then make the `CREATE UNIQUE INDEX` of a start that is still on its way fail.

Assumed: on Postgres every release left its tables with their indexes, and no release
adds an index to a table that an earlier one has made (none of `create_all` and
`_add_missing_columns` would make it).

### Composition

`TaskWorkflow` instantiates `TaskProtocol` (`Protocol`), mapping status, requester
and assignee to the row, and author and voucher to the last `result` and `verified`
event of the history. `TclkRooms` instantiates `TclkLedger` (`Ledger`), mapping the tables
to themselves and whether there is a single writer to the database in use; the sessions
have no image. `SignedMessages` extends `AgentDirectory` and interleaves its steps
with the clients'. The `MC*` modules extend the modules with the symmetry sets, and the
bounds, of the instances; `*_proof` modules hold the proofs.

## 3. The runs

| run | instance | shows |
|---|---|---|
| `serial` | 1 worker, 2 agents, 1 task, 4 message ids, both routes, one change of an agent, SQLite | the handlers implement `TaskProtocol`; nothing is vouched for twice or by its author |
| `race` | 2 workers, 2 agents, 3 ids, REST | causes before effects, every status explained, every contribution earned, although stale commits overwrite rows |
| `postgres` | 2 workers, 2 agents, 2 ids, both routes, foreign keys, one deletion or update | no task, event or contribution is committed that names a missing row (messages have no foreign keys); a requester can always close its task; a message is applied at most once however its duplicates race; the types hold |
| `race_terminal` | 2 workers | **violated** `StrictTransitions` |
| `postgres_self_vouch` | 1 worker, foreign keys | **violated** `NoSelfVouch` |
| `credence` | 2 workers, 2 capabilities, 4 records, 2 PUTs of claimed or community-verified claims, a deletion, Postgres | evidence other than what was sent is earned, and so is credit; a vouch has its check, a status its record, a dispute ends by a vouch or a stale session, claims stay unique |
| `credence_row_ids` | 2 workers, 2 capabilities, a PUT, SQLite | **violated** `NeverAutoVerified` |
| `limiter` | 2 clients, limit 2, window 2, time 6, clock set back by 2 | the limit in real time, and no refusal below it |
| `tclk` | 2 workers, 1 contract, 5 frames, SQLite and Postgres | transcripts are complete and in order, every status has its frames, and a contract moves by its machine but for two named exceptions; the sessions implement `TclkLedger` |
| `signed` | 1 client, 2 workers, 2 agents, 2 keys and a demo DID, 2 changes of profiles, 2 ticks | one agent per DID; keys follow DIDs but for merged columns; stored means signed; INVALID means a changed profile; the verifiers agree; three explained refusals |
| `swarms` | 2 workers, 3 agents, 2 capabilities, 3 profiles, 1 swarm, 1 change of an agent, both databases | the cover is the greedy one; on Postgres no dangling member or credit, on SQLite only by late commits |
| `startup` | 3 processes, 3 tables, 2 indexes (1 unique), 2 added columns, 1 capability, 1 crash, every partial schema, both databases | who serves has its tables, columns and catalogue, and on Postgres its indexes; indexes are lost only on SQLite, by a start that is cut off; only races fail a start; all end up serving |

Bounds. `MessageIds` bounds the messages stored, and with them the length of a
history: four ids take an open task through acceptance, result and two
verifications, or an assigned one from its request to a verification, and three
do the same but for one message; `fail` and `dispute` need none. Two workers are enough for a lost update,
since every conflict here is between one stale session and one commit. Two agents
are a requester and an assignee, and also a third party, since an agent may
delegate to itself. `MaxChurn` bounds updates and
deletions of agents; registration is bounded by them. In `Credence`, four records
are a registration, a check, a vouch and a dispute, in either order; agents do not
interact, so one is enough, except through row ids, which the first registration
and a PUT already reuse. `MaxTime` of three windows lets a deque fill, expire and
fill again. Five frames are an offer, an acceptance, a lock and both of its ends, or
a life of a contract and one frame posted again; sequence numbers start again in each
room, and a second contract would share nothing with the first but the offer row.

`OneStale` (`postgres`) holds from the first change of an agent on: at most one session
has read and not written, and at most one has written and not committed, which leaves
every commit next to one stale session. `OneContribution` (`swarms`) keeps one log row in flight or written: log rows do not
depend on one another. `ShortAgain` (`credence`) gives an agent that was registered
again fewer records: the first life explores their orders, the second what is left over
from the first; and after a second PUT it lets what is going on end, and one more begin,
since the second is there to race the first. `OverlapFirst` (`signed`) lets both threads be busy only until the client
begins: two overlapping changes of profiles, and a change that overlaps a client, are
both in the instance; all three at once would add only an order of steps on different
rows. Two changes (`MaxRequests`) are two racing writers, or a registration and an
update; two ticks against a window of one let a stamp become too old. One change of an
agent (`MaxWrites`) is what a stale read needs; the profiles are chosen so that ranks
tie, and so that the best agent adds nothing. Of the indexes of the schema two are kept, the
unique one of `agents.did` and one that is not unique, on different tables; the order of
several on one table is no question of its own. One crash per instance (`MaxCrashes`) and
every partial schema as initial state: a second crash starts from a schema that is
initial too.

`CHECK_DEADLOCK` is off in `startup`, `signed` and `swarms`, where the system stops when
all processes serve, the bounded requests are used up and the clients are done. It is on
elsewhere: some request can always begin, expire or be dropped.

Fairness. Only `Startup` states any: a process that has begun goes on until it serves or
fails (`WF(Work)`), and the host starts a process that is down (`WF(Start)`), as servers
with several workers and serverless hosts do. Crashes are not fair. Nothing is assumed
about who wins a race; `EventuallyServing` holds because a start fails only when another
one has written, and there is only so much to write. Elsewhere a handler runs to its end
or its session is dropped, no component retries, waits or schedules, and the properties
are safety.

## 4. What the violations say

* `race_terminal` - `transition()` checks the status its session loaded, the UPDATE
  does not. A rejected or disputed task can be accepted, reported on or failed by a
  request that overlapped. `docs/protocol.md:125` calls these statuses terminal.
* `postgres_self_vouch` - deleting the assignee empties `assignee_id` (SET NULL);
  registered again under its id, it passes the check "the assignee cannot vouch"
  for the result it submitted.
* `credence_row_ids` - on SQLite, a vouch that waits while claims are replaced marks
  whichever claim has taken over the row id.

Without a run of its own: a PUT stores the `evidence_status` it is sent, registration does
not, although `README.md:230` says that claims are "never auto-verified". With
`Offered = {"claimed", "community-verified"}`, as in `credence`, the configuration
`credence_row_ids` shows it in two steps; `EvidenceEarned`, which `credence` checks, says what
is left: evidence is what a client sent, or earned. And on SQLite a start that ends
between `CREATE TABLE agents` and `CREATE UNIQUE INDEX` on `did` (`db.py:120`, `models.py:30`)
leaves the column without uniqueness for good, while the next start succeeds and serves: two
registrations of one DID that overlap are then both stored. `DidsUnique` takes the index for
granted; `IndexesLostByCutOff` says how it goes missing.

Seen on the way: `crypto.py:8` says that the key of a did:key agent is derived from its
DID, which two overlapping PUTs can break, since each writes the columns it changed
(`KeyFollowsDid` names exactly this case); a requester that rejects an assigned task with
`tar_client` and a key file is refused with 401, since the library signs for the requester
and the registry addresses the assignee; `tar_cli` is refused when the second turns
between its two timestamps; and a vouch signed over the envelope as
`docs/protocol.md:80` says, with the payload it sends (`{}` by default,
`docs/protocol.md:62`), is refused, since `verify_task` adds `independent_rerun` to the
payload before the signature is checked (`RefusalsExplained` names all three). Also, without a document
that says otherwise: an envelope that arrives
before its task is stored and answered as a success, and a retry gets 409; on
SQLite the tasks of a deleted requester or assignee remain and every action that
has to send them a message is refused; two verifiers whose requests overlap may
both be recorded, which credits the assignee twice, so `metrics_for` can show a
`verification_rate` above one (`VouchedOnce` is therefore checked in `serial`); an
acceptance posted again takes a locked or finished contract back to `accepted`, an
offer posted again may take it back to `proposed` (the query by `offer_id`,
`tclk.py:144`, finds contracts too); and on Postgres frames of one contract in two
rooms overwrite each other's step. `MovesByMachine` names these three and shows that
there is no other.

## 5. What is proved

| theorem | says | from |
|---|---|---|
| `TaskWorkflow_proof!TypeCorrect` | `Spec => []TypeOK` | the assumptions on `None` and the modes |
| `TaskWorkflow_proof!HistoriesCausal` | `Spec /\ [][QuietDelete]_vars => []CausalHistory` | the same |
| `TaskWorkflow_proof!StatusesExplained` | `Spec /\ [][QuietDelete]_vars => []StatusExplained` | the same |
| `TaskWorkflow_proof!MessagesApplyOnce` | `Spec => []AppliedOnce` | the same |
| `TaskWorkflow_proof!CreditsEarned` | `Spec /\ [][RequestersStay]_vars => []ContributionsEarned` | the same |
| `TaskWorkflow_proof!RowsReferToRows` | `Spec => []ReferencesHold` | `EnforceFK` |
| `TaskWorkflow_proof!RequesterNeverStuck` | `Spec => []RequesterCanClose` | `EnforceFK` |
| `TaskWorkflow_proof!HandlersImplementProtocol` | `Spec /\ []TasksApart /\ [][PartiesStay]_vars => ImplementsProtocol` (the refinement) | the same as `TypeCorrect` |
| `TaskWorkflow_proof!VouchesAreSingle` | the same `=> []VouchedOnce` | the same |
| `TaskWorkflow_proof!VouchesAreOthers` | the same `=> []NoSelfVouch` | the same |
| `TaskWorkflow_proof!StatusesMoveStrictly` | the same `=> StrictTransitions` (an action property) | the same |
| `TaskProtocol_proof!VouchersIndependent` | `Spec => []IndependentVoucher` | `None \notin Agents` |
| `RateLimiter_proof!LimitHolds` | `Spec => []WindowLimit` | `LimiterAssumption` |
| `RateLimiter_proof!TypeCorrect` | `Spec => []TypeOK` | the same |
| `RateLimiter_proof!RefusalEarned` | `Spec => []RefusedWhenFull` | the same |
| `Credence_proof!TypeCorrect` | `Spec => []TypeOK` | `CredenceAssumption` |
| `Credence_proof!VouchesAreEarned` | `Spec => []VouchEarned` | the same |
| `Credence_proof!StatusesOnRecord` | `Spec => []StatusRecorded` | the same |
| `Credence_proof!LivesOnRecord` | `Spec /\ [][QuietDelete]_vars => []EveryLifeOnRecord` | the same |
| `Credence_proof!DisputesStay` | `Spec => DisputeStays` (an action property) | the same |
| `Credence_proof!CreditsForVouches` | `Spec => []CreditsRecorded` | the same |
| `Credence_proof!EvidenceIsEarned` | `Spec => []EvidenceEarned` | and `Postgres` |
| `Credence_proof!UnvouchedWasSent` | `Spec => [](VerifiedOrSent /\ (NoneSentVerified => NeverAutoVerified))` | and `Postgres` |
| `TclkRooms_proof!TypeCorrect` | `Spec => []TypeOK` | `OfferAssumption`, `UseAssumption` |
| `TclkRooms_proof!TranscriptsInOrder` | `Spec => []TranscriptInOrder` | the same |
| `TclkRooms_proof!StatusesBacked` | `Spec => []StatusBacked` | the same |
| `TclkRooms_proof!MovesAreByMachine` | `Spec => MovesByMachine` (an action property) | the same |
| `TclkRooms_proof!DealRoomsOpen` | `Spec => []DealRoomOpen` | the same |
| `TclkRooms_proof!RoomsImplementLedger` | `Spec => ImplementsLedger` (a refinement) | the same |
| `SignedMessages_proof!TypesCorrect` | `Spec => []TypeOK` | `IdentityAssumption`, `MessageAssumption` |
| `SignedMessages_proof!DidsStayUnique` | `Spec => []DidsUnique` | the same |
| `SignedMessages_proof!KeysFollowDids` | `Spec => KeyFollowsDid` (an action property) | the same |
| `SignedMessages_proof!StoredIsAuthentic` | `Spec => []Authentic` | the same |
| `SignedMessages_proof!InvalidIsExplained` | `Spec => []InvalidExplained` | the same |
| `SignedMessages_proof!VerifiersDoAgree` | `Spec => []VerifiersAgree` | the same |
| `SignedMessages_proof!RefusalsAreExplained` | `Spec => []RefusalsExplained` | the same |
| `Swarms_proof!TypesCorrect` | `Spec => []TypeOK` | `SwarmAssumption`, `ProfileAssumption` |
| `Swarms_proof!AssemblyTakesTheFirst` | `Spec => []ExecutesWithTheFirst` | the same |
| `Swarms_proof!AssemblyCoversAll` | `Spec => []CoversAll` | the same |
| `Swarms_proof!MembersAreRegistered` | `Spec => []MembersRegistered` | the same |
| `Swarms_proof!OthersLeaveNothing` | `Spec => OnlyLateWritesDangle` (an action property) | the same |
| `Startup_proof!ListsRight` | `Spec => []IInv`, with `TypeOK` | `SchemaAssumption` |
| `Startup_proof!ServingIsReady` | `Spec => []ServingReady` | the same |
| `Startup_proof!FailureIsRace` | `Spec => FailsOnlyWhenRaced` (an action property) | the same |
| `Startup_proof!OnlyCutOffsLoseIndexes` | `Spec => IndexesLostByCutOff` (an action property) | the same |

for any numbers of agents, tasks, message ids, threads, clients, contracts, keys, swarms,
processes, and any limit, window, schema and bounds.

*Histories.* `CausalHistory` is not inductive: a handler decides on a row it loaded
earlier, and nothing in the tables says that row ever existed. `HistoryInv` adds
that every status in the tables, *and in every session's copy of a row*, is backed
by an event of the history. A history only grows, so a copy stays backed however
stale it is; that is the whole reason why histories stay causal under lost updates.
Each handler fixes a plan whose event has its cause (`Prepared`, `Grounded`), and `Commit`
appends it. What can take a history away is, on Postgres, the deletion of the requester,
and even that does no harm unless a session holds a row of the task: `QuietDelete` says
that this does not happen. Without it the property is false:
whoever sends a REQUEST may name the id of its task (`workflow.py:259`), so a task can be
created again under the id, with a new history that knows nothing of the old row. On SQLite tasks outlive their parties and the condition always holds.

*References.* What a handler decided may name agents that are gone when it commits
(`PlanInv` says what each event's decision looks like, not that its agents are still there). The
foreign keys are judged against the agents of the commit, and a deletion takes along
whatever refers to the agent, so `ReferencesHold` is inductive beside the plan. That
the requester can close its task follows: the one refusal that could stop it is an
assignee who is gone.

*Messages and credits.* Both count. A commit that adds an event of a message type adds a
message under an id that is not in use (`UniqueMessage`), so neither count can fall behind
the other, on whatever row the handler decided; a commit that adds a contribution adds
the event that earns it, and histories only grow unless a requester is deleted, which
`RequestersStay` excludes (on Postgres only): the assignee's credits would outlive the task.

*Refinement of the task protocol.* The two conditions are on behaviours, not on constants:
`TasksApart` (at every moment no two sessions are on one task; `TaskOf` is the task a
session has loaded or is to write) and `PartiesStay` (where foreign keys are enforced no
requester or assignee of a task is deleted). They allow any number of threads on different
tasks. Then a session that is open was opened after the last commit to its task, and `SerialInv`
holds: the row it loaded is the row in the table (`Current`), results in a history are the
assignee's, verifications are others', and a credit for one exists once (`Vouched`). So what
it writes is a step of `TaskProtocol` on the present row (`Commit`), every other step is
a stutter, and the strict transitions, the single voucher and the independence of
vouchers hold of the handlers themselves. The code does not guarantee `TasksApart`: a lock on the
row of the task would, and so does a single thread (`serial`). Without it, `race_terminal` is the
counterexample; without `PartiesStay`, `postgres_self_vouch`.

*Vouchers.* `VouchInv`: a result is written by the assignee of that moment, after
which the assignee never changes (no transition leads back to `requested` or
`rejected`), and `Verify` refuses the assignee.

*Limit.* `LimitInv` ties the deque to the history: the deque is the tail of
`served`, shifted by how far the clock has been set back since, and whatever was
popped is more than a window old in real time. Setting the clock back only makes
an entry look younger, so it is popped later, never earlier.

*Refusals.* What the process has read of the clock is never later than real time, and
histories are ordered. When it refuses, its deque holds `per_minute` times within a
window of the clock it reads, each of them a request that was served, at most
`behind` later in real time; distinct entries are distinct requests, so as many are
counted.

*Credence.* Rows of claims have numbers up to `serial`, and a plan is a replacement of
claims or one record with what it marks (`Decided`). Records only grow while nobody is deleted, so the
check that a session read for a vouch (`Checked`) stays on record however
stale the session is, and a status is set in the transaction of its record. A deletion does not
change that unless a session holds the agent's row (`QuietDelete`): then a vouch that was
decided for the one life of an agent is committed in the next, where nobody has checked anything.
That is why the properties of the runs stop at the first deletion, and `EveryLifeOnRecord`, which does
not, needs the condition. Credits
are counted commit by commit. For evidence a session must name the row it read
(`Addressed`): the ids in its plan are of rows of that agent and capability, or of rows that are
gone. Ids that are never used again keep that true through every replacement; reused
ids do not, which is `credence_row_ids`. What clients send is not restricted: a row that
is inserted shows what was sent (`sent`), and whatever an UPDATE makes of it afterwards is
decided by a record of its capability. So verified evidence without a vouch was sent
(`UnvouchedWasSent`).

*Transcripts.* `OrderInv`: a number that a request has read has all smaller ones in
its room; one that is inserted is also above all of them, and no two requests hold
the same. So two holders in one room would hold the same number, and a commit can
only append the next one. A request that fails gives its number back.

*Statuses.* `BackedInv`: what a session has read of a contract, and what it is going
to write, has its frames on record but for the one it commits with. Frames are never
taken away, so that stays true however stale the session is: a status can go back,
but it cannot be ahead of the record.

*Moves.* Two requests that hold numbers are in different rooms (`RoomsApart`), since in one
room they would hold the same number. On SQLite only one holds the write lock
(`OneWriter`). So what a request has read of a contract is the contract's status still, or,
on Postgres only, the contract moved by a frame in another room (`Current`), and what it
writes is a step of the machine from there (`Moves`).

*Refinement of the ledger.* `PlanInv` says of every request that its room exists or is the
offer room, that the rooms it is going to make are the offer room and, with an acceptance that
takes effect, the deal room, and what its frame will do to which row (`Plan`): so a contract never has a status
without a room (`DealRoomOpen`), and nothing that a plan rests on is taken back by
the commits of others. With `OrderInv` (the number is still the next one) and `FreshInv` (the status is
still the contract's, or it moved elsewhere) a commit is one step of `TclkLedger`; making a
room is another, and the rest are stutters.

*Signatures.* `IInv` of `SignedMessages_proof` is `DirInv` (DIDs are unique, and the row
a session is about to write has the key of its DID if the row it loaded had) with
`MsgInv`: every message queued or stored passed the check against the sender's row that
is recorded with it, and whatever differs from that row now was changed since. The
unique column alone keeps DIDs apart; the look-up before it may be as stale as it likes.

*Swarms.* The constraints are judged at the commit, so no session has to be right about
the members it read. On Postgres the foreign keys are among them,
and a deletion takes the rows along; on SQLite a commit is the only step that can leave a
row of an agent that is gone, and only if that agent went while the session was open.

*Assembly.* `Recommended` sorts the candidates; that a sorted sequence exists and that its
positions are ranks is proved from the finiteness of the agents. The loop of `_assemble` is a
recursive function over that sequence. Its closed form (after n agents, the capabilities taken are all
those that the first n offer) is not proved by the library's induction rules, which take an operator,
but by the least index at which it fails. From it follow who executes, exactly, and that the
executing agents cover whatever any candidate offers.

*Start-up.* What a process has still on its list and what the database has add up to all
tables, columns and capabilities (`Listed`): the database only grows, so a list that is stale is too long,
never too short. And nothing on the list exists already unless another process wrote
since (`Fresh`), which is why only a race can make `CREATE` or `ADD COLUMN` fail. On Postgres a
table comes with its indexes, so they are complete when the tables are (`Housed`). An index that
is missing is on the list of the one process that has just made its table, or on none;
a step takes it off that list by making it, or by ending the start
(`OnlyCutOffsLoseIndexes`). That is all SQLite can promise, and less than "complete".

Only model-checked: liveness (`EventuallyServing`), which is out of the prover's reach, as is
`ENABLED`: that no run deadlocks is TLC's result alone. Every safety invariant and action property of the
passing runs is stated by a theorem; what the theorems of `TaskWorkflow` with a condition on behaviours
leave open are behaviours of Postgres in which a requester, or a task's
party, is deleted at the wrong time, and sessions that overlap on one task; `postgres` and
`race` check what holds there. `EvidenceEarned` is proved for Postgres, and `credence_row_ids`
shows why it needs ids that are not reused.

## 6. Plan

The modules planned (the task workflow and its protocol, credence, the limiter, TCLK
rooms, signed messages with the directory of keys, swarms with ranking, start-up) are
all there, and what the runs check of them is proved as far as the prover reaches. What a
change of the code should bring along, in this order:

1. A version column or a row lock on `tasks` would make `StrictTransitions` hold with any
   number of threads: the lock is `TasksApart`, and the refinement then needs `PartiesStay` alone.
2. `AUTOINCREMENT` on SQLite would make `EvidenceIsEarned` hold on both databases.
   A `UniqueConstraint` on `agents.did`, or `CREATE INDEX IF NOT EXISTS` at every start, would
   make `ServingReady` say of SQLite what it says of Postgres.
3. A purge of the limiter's deques, which never happens now, belongs in `RateLimiter`.

To keep the project small enough to rerun on every change, a run is added only with a new
module, and every bound is chosen so that no run takes more than about three minutes alone.

## 7. Not modelled

* Payloads, but for `independent_rerun`. `submit_result` overwrites `result` in the
  payload with the field of that name before it checks the signature, as `verify_task`
  adds its field; `tar_client` fills both alike.
* A client's clock that is ahead: `SignedMessages` has one clock, which moves between the
  steps of a client, and a clock that is behind is a request that waited.
* Changed or removed entries of the capability catalogue (the code only adds), and the
  ranking's floating point: points are hundredths here, as the code rounds them.
* Web pages render stored rows; `POST /communicate` and `POST /agents/new` call
  the functions modelled here.
* The A2A descriptor, a document computed from one row, and the legacy reputation log,
  written and never read for a decision.
* Secret screening and field validation: they refuse a request before anything is
  read, on its text alone; refusals are `Drop` in the models.
* The commands of `tar_cli` other than the task actions it signs, the transport of `tar_client`, and seed
  and demo scripts, which call the API one request after the other.
* How SQLAlchemy and the databases do their work: what the code
  relies on of them (transactions, constraints, columns written) is modelled.

## 8. Running

```
tlc -workers 2 -config race.cfg MCTaskWorkflow
tlapm TaskWorkflow_proof.tla      # the longest proof: a few minutes
```
