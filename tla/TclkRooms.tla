------------------------------ MODULE TclkRooms ------------------------------
(***************************************************************************)
(* Coordination rooms of tclk/1 (tclk.py behind POST                       *)
(* /tclk/rooms/{id}/frames): frames are appended to the transcript of a    *)
(* room, and the state of the contract they belong to is advanced by a     *)
(* machine that runs in another process (tclk_bridge.py, node) and cached  *)
(* in a row.  The tables are tclk_rooms, tclk_transcript, tclk_contracts.  *)
(*                                                                         *)
(* One offer is modelled, with the contracts that acceptances of it make.  *)
(* A request reads its sequence number (Begin), inserts its frame and so   *)
(* holds the unique key of it (Flush), reads the contract (Load), asks the *)
(* machine, which may fail, refuse or take its time, and commits.          *)
(* Abstracted: parties, signatures (they are noted, not required), secrets *)
(* (redacted), amounts and deadlines; what they make the machine refuse is *)
(* covered by KeepFrame.                                                   *)
(***************************************************************************)
EXTENDS Naturals, Sequences, FiniteSets

CONSTANTS
  Contracts,  \* contract identifiers; each also names its deal room
  Offer,      \* the offer; also names the offer room and the row offer:<id>
  Workers,    \* threads that run handlers
  Databases,  \* "sqlite" (one writer at a time), "postgres" or both
  MaxFrames   \* bound on the frames posted

ASSUME OfferAssumption == Offer \notin Contracts
ASSUME UseAssumption == Databases \subseteq {"sqlite", "postgres"} /\ MaxFrames \in Nat

VARIABLES
  database,  \* the database behind the registry; it never changes
  rooms,     \* the rooms that exist
  log,       \* the frames of all transcripts, in the order of their commits
  cached,    \* row of tclk_contracts -> its protocol status
  jobs       \* thread -> the request it is handling

vars == <<database, rooms, log, cached, jobs>>

-----------------------------------------------------------------------------
(* Rows and requests *)

Rooms == Contracts \cup {Offer}

Rows == Contracts \cup {Offer}

FrameTypes == {"offer", "accept", "lock", "reveal", "refund"}

Statuses == {"proposed", "accepted", "locked", "revealed", "refunded"}

Entry == [room : Rooms, seq : Nat \ {0}, type : FrameTypes, about : Rows]

Idle == [stage |-> "idle"]

\* begun: the number is read; flushed: the frame is inserted; loaded: so is
\* the contract's state; write: the machine has answered.
Job ==
  {Idle}
    \cup [stage : {"begun", "flushed"}, room : Rooms, seq : Nat \ {0}, opens : SUBSET Rooms]
    \cup [stage : {"loaded"}, room : Rooms, seq : Nat \ {0}, opens : SUBSET Rooms,
           contract : Contracts, state : Statuses]
    \cup [stage : {"write"}, opens : SUBSET Rooms, entry : Entry,
           row : Rows, old : Statuses \cup {"none"}, new : Statuses \cup {"none"}]

TypeOK ==
  /\ database \in Databases
  /\ rooms \subseteq Rooms
  /\ log \in Seq(Entry)
  /\ cached \in [Rows -> Statuses \cup {"none"}]
  /\ jobs \in [Workers -> Job]

Init ==
  /\ database \in Databases
  /\ rooms = {}
  /\ log = <<>>
  /\ cached = [row \in Rows |-> "none"]
  /\ jobs = [w \in Workers |-> Idle]

\* The room and number of the frame a thread has inserted, if any.
Held(w) ==
  CASE jobs[w].stage \in {"flushed", "loaded"} -> {<<jobs[w].room, jobs[w].seq>>}
    [] jobs[w].stage = "write" -> {<<jobs[w].entry.room, jobs[w].entry.seq>>}
    [] OTHER -> {}

Stored(room) == {i \in DOMAIN log : log[i].room = room}

Posted(type, row) == \E i \in DOMAIN log : log[i].type = type /\ log[i].about = row

-----------------------------------------------------------------------------
(* A frame is posted *)

FollowingMax(room, n) ==   \* mutated: the maximum itself, not the one after it
  /\ n = 0 \/ \E i \in Stored(room) : log[i].seq = n
  /\ \A i \in Stored(room) : log[i].seq <= n

\* _next_seq: n is one more than the largest number in the room, or than 0.
NextSeq(room, n) ==
  /\ n = 1 \/ \E i \in Stored(room) : log[i].seq = n - 1
  /\ \A i \in Stored(room) : log[i].seq < n

\* post_frame up to its INSERT: the offer room is made if it is missing, the
\* room must exist, and the frame gets its number.
Begin(w, room) ==
  /\ jobs[w] = Idle
  /\ Len(log) + Cardinality({v \in Workers : jobs[v] # Idle}) < MaxFrames
  /\ room \in rooms \cup {Offer}
  /\ \E n \in 0 .. Len(log) + 1 :
       /\ NextSeq(room, n)
       /\ jobs' = [jobs EXCEPT ![w] =
            [stage |-> "begun", room |-> room, seq |-> n, opens |-> {Offer} \ rooms]]
  /\ UNCHANGED <<database, rooms, log, cached>>

NothingUnique(w) == TRUE   \* mutated: no unique constraint on room and number

\* uq_tclk_room_seq: a number that is taken fails the request, one that
\* another thread has inserted is waited for.
UniqueSeq(w) ==
  /\ \A i \in Stored(jobs[w].room) : log[i].seq # jobs[w].seq
  /\ \A v \in Workers : <<jobs[w].room, jobs[w].seq>> \notin Held(v)

\* SQLite has one writer: it waits for the commit of whoever inserted before.
MayWrite == database = "sqlite" => \A v \in Workers : Held(v) = {}

Flush(w) ==
  /\ jobs[w].stage = "begun"
  /\ jobs[w].opens \cap rooms = {}
  /\ UniqueSeq(w)
  /\ MayWrite
  /\ jobs' = [jobs EXCEPT ![w].stage = "flushed"]
  /\ UNCHANGED <<database, rooms, log, cached>>

-----------------------------------------------------------------------------
(* _advance_protocol *)

\* What the frame will have done: a row as found and as set, rooms to make.
Decide(w, type, about, row, old, new, opens) ==
  /\ jobs' = [jobs EXCEPT ![w] =
       [stage |-> "write", opens |-> jobs[w].opens \cup opens,
        entry |-> [room |-> jobs[w].room, seq |-> jobs[w].seq, type |-> type, about |-> about],
        row |-> row, old |-> old, new |-> new]]
  /\ UNCHANGED <<database, rooms, log, cached>>

\* The frame is kept and nothing else happens: no such contract or offer, the
\* machine refuses the frame, or the bridge fails ("fail-closed").
KeepFrame(w, type, about) ==
  /\ jobs[w].stage = "flushed"
  /\ type = "offer" <=> about = Offer
  /\ Decide(w, type, about, about, "none", "none", {})

\* The rows a query by offer_id may return first.
OfferRows == {row \in Rows : cached[row] # "none"}

\* An offer opens a contract that has no id yet.  A row that already carries
\* the offer's id, of a contract too, takes the state just opened.
PostOffer(w) ==
  /\ jobs[w].stage = "flushed"
  /\ \E row \in IF OfferRows = {} THEN {Offer} ELSE OfferRows :
       Decide(w, "offer", Offer, row, cached[row], "proposed", {})

PostAcceptUnasked(w, c) ==   \* mutated: the offer is taken from the acceptance
  /\ jobs[w].stage = "flushed"
  /\ Decide(w, "accept", c, c, cached[c], "accepted", {c} \ rooms)

PostAcceptUnhoused(w, c) ==   \* mutated: no deal room is made
  /\ jobs[w].stage = "flushed"
  /\ Posted("offer", Offer)
  /\ Decide(w, "accept", c, c, cached[c], "accepted", {})

\* An acceptance is applied to the offer as it was opened, whatever has
\* become of the contract; then there is a deal room.
PostAccept(w, c) ==
  /\ jobs[w].stage = "flushed"
  /\ Posted("offer", Offer)
  /\ Decide(w, "accept", c, c, cached[c], "accepted", {c} \ rooms)

\* Any other frame: the contract's state is read ...
Load(w, c) ==
  /\ jobs[w].stage = "flushed"
  /\ cached[c] # "none"
  /\ jobs' = [jobs EXCEPT ![w] =
       [stage |-> "loaded", room |-> jobs[w].room, seq |-> jobs[w].seq, opens |-> jobs[w].opens,
        contract |-> c, state |-> cached[c]]]
  /\ UNCHANGED <<database, rooms, log, cached>>

\* The machine: offer, accept, lock, then reveal or refund.
Machine ==
  {<<"none", "offer", "proposed">>, <<"proposed", "accept", "accepted">>,
   <<"accepted", "lock", "locked">>,
   <<"locked", "reveal", "revealed">>, <<"locked", "refund", "refunded">>}

\* ... and the machine advances what was read.
PostStep(w, type, new) ==
  /\ jobs[w].stage = "loaded"
  /\ <<jobs[w].state, type, new>> \in Machine
  /\ type \notin {"offer", "accept"}
  /\ Decide(w, type, jobs[w].contract, jobs[w].contract, jobs[w].state, new, {})

-----------------------------------------------------------------------------

\* INSERT needs a new primary key; UPDATE sets what the session changed.
Commit(w) ==
  LET job == jobs[w] IN
  /\ job.stage = "write"
  /\ job.opens \cap rooms = {}
  /\ job.old = "none" /\ job.new # "none" => cached[job.row] = "none"
  /\ rooms' = rooms \cup job.opens
  /\ log' = Append(log, job.entry)
  /\ cached' = IF job.new # job.old THEN [cached EXCEPT ![job.row] = job.new] ELSE cached
  /\ jobs' = [jobs EXCEPT ![w] = Idle]
  /\ UNCHANGED database

\* The number was taken, a key existed, the bridge could not name the deal
\* room, SQLite stayed locked, a crash: nothing is kept.
Drop(w) ==
  /\ jobs[w] # Idle
  /\ jobs' = [jobs EXCEPT ![w] = Idle]
  /\ UNCHANGED <<database, rooms, log, cached>>

\* create_deal_room and list_rooms make a room that is missing.
MakeRoom(room) ==
  /\ MayWrite
  /\ rooms' = rooms \cup {room}
  /\ UNCHANGED <<database, log, cached, jobs>>

Next ==
  \/ \E w \in Workers :
       \/ \E room \in Rooms : Begin(w, room)
       \/ Flush(w)
       \/ \E type \in FrameTypes, about \in Rows : KeepFrame(w, type, about)
       \/ PostOffer(w)
       \/ \E c \in Contracts : PostAccept(w, c) \/ Load(w, c)
       \/ \E type \in FrameTypes, new \in Statuses : PostStep(w, type, new)
       \/ Commit(w)
       \/ Drop(w)
  \/ \E room \in Rooms : MakeRoom(room)

Spec == Init /\ [][Next]_vars

-----------------------------------------------------------------------------
(* Properties *)

(***************************************************************************)
(* A room's transcript is complete and in order: the frames were committed *)
(* in the order of their numbers, and before each number came all smaller  *)
(* ones (max + 1 under uq_tclk_room_seq, whoever posts at the same time).  *)
(***************************************************************************)
TranscriptInOrder ==
  \A i \in DOMAIN log :
    /\ \A j \in DOMAIN log : j < i /\ log[j].room = log[i].room => log[j].seq < log[i].seq
    /\ \A n \in 1 .. log[i].seq - 1 :
         \E j \in DOMAIN log : j < i /\ log[j].room = log[i].room /\ log[j].seq = n

\* The frames for c up to n that carry it to a status.
AcceptedBy(c, n) ==
  \E j \in 1 .. n : /\ log[j].type = "accept" /\ log[j].about = c
                    /\ \E i \in 1 .. j - 1 : log[i].type = "offer"

LockedBy(c, n) ==
  \E k \in 1 .. n : log[k].type = "lock" /\ log[k].about = c /\ AcceptedBy(c, k - 1)

EndedBy(c, type, n) ==
  \E k \in 1 .. n : log[k].type = type /\ log[k].about = c /\ LockedBy(c, k - 1)

Backed(c, status) ==
  /\ status \in {"proposed", "accepted"} => AcceptedBy(c, Len(log))
  /\ status = "locked" => LockedBy(c, Len(log))
  /\ status = "revealed" => EndedBy(c, "reveal", Len(log))
  /\ status = "refunded" => EndedBy(c, "refund", Len(log))

(***************************************************************************)
(* What the registry says of a contract is on record: the frames that lead *)
(* to its status, in their order, are in the transcripts, although         *)
(* sessions overwrite each other's states and frames are posted anywhere   *)
(* ("Cached protocol state derived from signed frames", models.py:241;     *)
(* that frames are signed the code does not demand).                       *)
(***************************************************************************)
StatusBacked == \A c \in Contracts : Backed(c, cached[c])

\* The last frame of the offer or of c is in another room than room.
MovedElsewhere(c, room) ==
  \E i \in DOMAIN log :
    /\ log[i].about \in {Offer, c} /\ log[i].room # room
    /\ \A j \in DOMAIN log : j > i => log[j].about \notin {Offer, c}

(***************************************************************************)
(* A contract moves as the machine says: from the status it has, not from  *)
(* one that a session read before.  Posting in one room serialises, since  *)
(* the number of a frame is taken before the state is read.  Two ways      *)
(* remain in which a contract goes back: an offer or acceptance that is    *)
(* posted again, and on Postgres a frame of the contract in another room.  *)
(***************************************************************************)
MovesByMachine ==
  [][\A c \in Contracts :
       cached'[c] # cached[c] =>
         \/ \E type \in FrameTypes \ {"offer"} : <<cached[c], type, cached'[c]>> \in Machine
         \/ cached'[c] = "accepted" /\ (cached[c] # "none" => Posted("accept", c))
         \/ cached'[c] = "proposed" /\ log'[Len(log')].type = "offer"
         \/ database = "postgres" /\ MovedElsewhere(c, log'[Len(log')].room)]_cached

Ledger == INSTANCE TclkLedger WITH serial <- database = "sqlite", standing <- cached

(***************************************************************************)
(* Posting is atomic to whoever reads rooms and contracts: whatever the    *)
(* sessions do between reading a number and committing (post_frame,        *)
(* _advance_protocol), each commit is one step of TclkLedger, and nothing  *)
(* else shows but a room that is made.                                     *)
(***************************************************************************)
ImplementsLedger == Ledger!Spec
=============================================================================
