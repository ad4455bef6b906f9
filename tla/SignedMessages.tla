--------------------------- MODULE SignedMessages ---------------------------
(***************************************************************************)
(* Signed messages: how the client library (tar_client), the command line  *)
(* (tar_cli) and other clients sign, what the registry demands before it   *)
(* stores a message (store_message, require_signature and _action_message  *)
(* of workflow.py), and what the two verifiers say of a stored one         *)
(* (signature_status_for there, verify_message in the library), while the  *)
(* senders' profiles change (AgentDirectory).                              *)
(*                                                                         *)
(* canonical_message_bytes is injective and the signature scheme sound, so *)
(* a signature is the key it was made with and the fields it is over.  The *)
(* type, the sender, the id and the task are signed as they are sent; the  *)
(* recipient, the time and the payload may differ and are kept.  There is  *)
(* one task; its status belongs to TaskWorkflow, and a refusal over it is  *)
(* covered by Abandon.  ACCEPT stands for the actions of the assignee, and *)
(* for a VERIFY that is sent as an envelope.                               *)
(***************************************************************************)
EXTENDS AgentDirectory

CONSTANTS
  Clients,    \* clients, each of which makes one request
  Ids,        \* message ids
  Requester,  \* the agent that requested the task
  MaxAge,     \* the replay window, in ticks
  MaxTime     \* bound on the clock

ASSUME MessageAssumption ==
  Requester \in Agents /\ MaxAge \in Nat /\ MaxTime \in Nat /\ None \notin Agents

VARIABLES
  clock,     \* the time, in the seconds that timestamps count
  assignee,  \* the assignee of the task, or None
  messages,  \* the stored messages, each with its sender's row when checked
  sessions   \* client -> its request

vars == <<directory, clock, assignee, messages, sessions>>

exchange == <<clock, assignee, messages, sessions>>

\* What sends a request: tar_client, tar_cli, any client with an envelope, one
\* that checks a result and vouches for it (POST /tasks/{id}/verify), and the web
\* form, which sends no signature.
Clientele == {"library", "cli", "envelope", "checker"}
Kinds == Clientele \cup {"form"}
Types == {"REQUEST", "ACCEPT", "REJECT", "VERIFY"}

\* What is told apart of a payload: whether it says "independent_rerun".
Payloads == {"plain", "rerun"}

Signature == [by : Keys, to : Agents, time : Nat, payload : Payloads]

\* "sender" is history: the row the signature was checked against.
Message == [id : Ids, type : Types, from : Agents, to : Agents, time : Nat, payload : Payloads,
            signature : Signature \cup {None}, sender : Row]

NoRequest == [stage |-> "idle"]

Done == [stage |-> "done"]

Stamped == [stage : {"stamped"}, kind : Clientele, type : Types,
            id : Ids, from : Agents, time : Nat, payload : Payloads]

Sent == [stage : {"sent"}, kind : Kinds, type : Types, id : Ids, from : Agents,
         to : Agents, time : Nat, payload : Payloads, signature : Signature \cup {None}]

Checked == [stage : {"checked"}, message : Message, takes : BOOLEAN]

Refused == [stage : {"refused"}, request : Sent, to : Agents, key : Keys]

Session == {NoRequest, Done} \cup Stamped \cup Sent \cup Checked \cup Refused

TypeOK ==
  /\ DirectoryTypeOK
  /\ clock \in Nat
  /\ assignee \in Agents \cup {None}
  /\ messages \subseteq Message
  /\ sessions \in [Clients -> Session]

Init ==
  /\ DirectoryInit
  /\ clock = 0
  /\ assignee \in {None} \cup (Agents \ {Requester})
  /\ messages = {}
  /\ sessions = [c \in Clients |-> NoRequest]

-----------------------------------------------------------------------------
(* Keys, signatures and the two verifiers *)

\* The key on file, else the one in the DID (no adapter is installed).
resolve_verify_key(row) ==
  IF row.public_key # None THEN row.public_key ELSE try_public_key_from_did(row.did)

verify(key, signature, to, time, payload) ==
  signature # None /\ signature = [by |-> key, to |-> to, time |-> time, payload |-> payload]

VerifiedBy(m, key) == key # None /\ verify(key, m.signature, m.to, m.time, m.payload)

\* The registry's verdict on a stored message, with the sender's present row.
signature_status_for(m) ==
  IF m.signature = None THEN "UNSIGNED"
  ELSE IF agents[m.from] # NoRow /\ VerifiedBy(m, resolve_verify_key(agents[m.from]))
       THEN "VALID" ELSE "INVALID"

PresenceIsProof(m) ==   \* mutated: a signature that is there counts
  IF m.signature = None THEN "UNSIGNED" ELSE "VALID"

\* The library's: it asks for the sender's profile and uses its public_key.
verify_message(m) ==
  IF m.signature = None THEN "UNSIGNED"
  ELSE IF VerifiedBy(m, agents[m.from].public_key) THEN "VALID" ELSE "INVALID"

-----------------------------------------------------------------------------
(* Clients *)

Becomes(c, session) == sessions' = [sessions EXCEPT ![c] = session]

FreshIds == Ids \ {m.id : m \in messages}

\* The actions of each kind of client, with their payloads: a checker may or may
\* not say that it ran the task again.
Actions(kind) ==
  CASE kind = "cli" -> {<<"ACCEPT", "plain">>}
    [] kind \in {"library", "envelope"} -> {<<"ACCEPT", "plain">>, <<"REJECT", "plain">>}
    [] kind = "checker" -> {<<"VERIFY", payload>> : payload \in Payloads}

\* A client decides on an action and puts the time on it.
Stamp(c) ==
  /\ sessions[c] = NoRequest
  /\ \E kind \in Clientele, id \in FreshIds, from \in Agents : \E action \in Actions(kind) :
       Becomes(c, [stage |-> "stamped", kind |-> kind, type |-> action[1], id |-> id,
                   from |-> from, time |-> clock, payload |-> action[2]])
  /\ UNCHANGED <<directory, clock, assignee, messages>>

\* sign over canonical_message_bytes, by a client that has a key file.
Signed(key, to, time, payload) ==
  IF key = None THEN None ELSE [by |-> key, to |-> to, time |-> time, payload |-> payload]

Sends(c, kind, to, signature) ==
  /\ sessions[c].stage = "stamped"
  /\ sessions[c].kind = kind
  /\ Becomes(c, [stage |-> "sent", kind |-> kind, type |-> sessions[c].type,
                 id |-> sessions[c].id, from |-> sessions[c].from, to |-> to,
                 time |-> sessions[c].time, payload |-> sessions[c].payload,
                 signature |-> signature])
  /\ UNCHANGED <<directory, clock, assignee, messages>>

LibrarySendsLate(c) ==   \* mutated: it signs the present time, not its stamp
  \E key \in Keys \cup {None} :
    Sends(c, "library", Requester, Signed(key, Requester, clock, sessions[c].payload))

\* The library reads the task, and signs for its requester.  The key is the one
\* in the file: profiles change.
LibrarySends(c) ==
  \E key \in Keys \cup {None} :
    Sends(c, "library", Requester, Signed(key, Requester, sessions[c].time, sessions[c].payload))

\* So does the command line, but it signs the time it has by then, and sends the
\* earlier stamp.
CommandLineSends(c) ==
  \E key \in Keys \cup {None} :
    Sends(c, "cli", Requester, Signed(key, Requester, clock, sessions[c].payload))

EnvelopeSends(c) ==
  \E key \in Keys \cup {None}, to \in Agents :
    Sends(c, "envelope", to, Signed(key, to, sessions[c].time, sessions[c].payload))

\* A checker signs what it sends, as docs/protocol.md says.
CheckerSends(c) ==
  \E key \in Keys \cup {None} :
    Sends(c, "checker", Requester, Signed(key, Requester, sessions[c].time, sessions[c].payload))

-----------------------------------------------------------------------------
(* The registry *)

\* verify_task: "the assignee cannot vouch their own result".
Independent(from) == from # assignee

\* accept_task, reject_task and verify_task: who may act on the task.
Entitled(type, from) ==
  \/ type # "VERIFY" /\ assignee \in {None, from}
  \/ type = "REJECT" /\ from = Requester
  \/ type = "VERIFY" /\ Independent(from)

\* The recipient of an action: the requester, unless it is the one who rejects.
Recipient(type, from) ==
  IF type = "REJECT" /\ from = Requester /\ assignee # None THEN assignee ELSE Requester

Addressee(s) == IF s.kind = "envelope" THEN s.to ELSE Recipient(s.type, s.from)

\* verify_task puts independent_rerun into the payload, unless it is there: before
\* the signature is checked, and before the message is stored.
Completed(s) == IF s.kind = "checker" THEN "rerun" ELSE s.payload

\* check_replay (the id is new, the stamp young enough), the agents exist, and
\* for an action the sender is entitled to it.
Admissible(s) ==
  /\ s.id \in FreshIds
  /\ clock - s.time <= MaxAge
  /\ {s.from, Addressee(s)} \subseteq Registered
  /\ Entitled(s.type, s.from)

ChecksIfSigned(s) ==   \* mutated: an action without a signature is not checked
  s.kind = "envelope" \/ s.signature # None

\* Envelopes are always checked; an action if it is signed or its sender has a
\* public_key on file.
Checks(s) ==
  s.kind = "envelope" \/ s.signature # None \/ agents[s.from].public_key # None

SatisfiedAsSent(s) ==   \* mutated: the recipient the client signed is not compared
  LET key == resolve_verify_key(agents[s.from])
  IN  Checks(s) /\ key # None =>
        s.signature # None /\ verify(key, s.signature, s.signature.to, s.time, Completed(s))

\* require_signature: nothing is required of a sender without a key.
Satisfied(s) ==
  LET key == resolve_verify_key(agents[s.from])
  IN  Checks(s) /\ key # None => verify(key, s.signature, Addressee(s), s.time, Completed(s))

\* The message row that is queued for an accepted request; an action makes its
\* agent the assignee if there is none yet.
Queued(s) ==
  [stage |-> "checked",
   message |-> [id |-> s.id, type |-> s.type, from |-> s.from, to |-> Addressee(s),
                time |-> s.time, payload |-> Completed(s), signature |-> s.signature,
                sender |-> agents[s.from]],
   takes |-> assignee = None /\ s.type # "VERIFY" /\ ~(s.type = "REJECT" /\ s.from = Requester)]

\* The handler accepts the request.
Check(c) ==
  /\ sessions[c].stage = "sent"
  /\ Admissible(sessions[c])
  /\ Satisfied(sessions[c])
  /\ Becomes(c, Queued(sessions[c]))
  /\ UNCHANGED <<directory, clock, assignee, messages>>

\* The web form acts for any agent, the assignee if none is named.  Id and time
\* are the server's own.
communicate_submit(c) ==
  /\ sessions[c] = NoRequest
  /\ \E type \in {"ACCEPT", "REJECT"}, id \in FreshIds, from \in Agents :
       LET s == [stage |-> "sent", kind |-> "form", type |-> type, id |-> id,
                 from |-> from, to |-> from, time |-> clock, payload |-> "plain",
                 signature |-> None]
       IN  /\ Admissible(s)
           /\ Satisfied(s)
           /\ Becomes(c, Queued(s))
  /\ UNCHANGED <<directory, clock, assignee, messages>>

\* 401.
Refuse(c) ==
  /\ sessions[c].stage = "sent"
  /\ LET s == sessions[c]
     IN  /\ Admissible(s)
         /\ ~Satisfied(s)
         /\ Becomes(c, [stage |-> "refused", request |-> s, to |-> Addressee(s),
                        key |-> resolve_verify_key(agents[s.from])])
  /\ UNCHANGED <<directory, clock, assignee, messages>>

\* create_task with an assignee tells it so, unsigned, in the requester's name.
RequestTask(c) ==
  /\ sessions[c] = NoRequest
  /\ {Requester, assignee} \subseteq Registered
  /\ \E id \in FreshIds :
       Becomes(c, [stage |-> "checked",
         message |-> [id |-> id, type |-> "REQUEST", from |-> Requester, to |-> assignee,
                      time |-> clock, payload |-> "plain", signature |-> None,
                      sender |-> agents[Requester]],
         takes |-> FALSE])
  /\ UNCHANGED <<directory, clock, assignee, messages>>

\* The transaction is committed; message_id is a unique column.
Store(c) ==
  /\ sessions[c].stage = "checked"
  /\ LET m == sessions[c].message
     IN  /\ m.id \in FreshIds
         /\ messages' = messages \cup {m}
         /\ assignee' = IF sessions[c].takes THEN m.from ELSE assignee
  /\ Becomes(c, Done)
  /\ UNCHANGED <<directory, clock>>

\* Any other refusal: nothing is written.
Abandon(c) ==
  /\ sessions[c].stage \in {"sent", "checked"}
  /\ Becomes(c, Done)
  /\ UNCHANGED <<directory, clock, assignee, messages>>

Tick ==
  /\ clock < MaxTime
  /\ clock' = clock + 1
  /\ UNCHANGED <<directory, assignee, messages, sessions>>

ClientNext ==
  \E c \in Clients :
    \/ Stamp(c) \/ LibrarySends(c) \/ CommandLineSends(c) \/ EnvelopeSends(c) \/ CheckerSends(c)
    \/ Check(c) \/ Refuse(c) \/ communicate_submit(c) \/ RequestTask(c) \/ Store(c) \/ Abandon(c)

Next ==
  \/ DirectoryNext /\ UNCHANGED exchange
  \/ ClientNext
  \/ Tick

Spec == Init /\ [][Next]_vars

-----------------------------------------------------------------------------

\* What is stored in the name of an agent that had a key on file was signed by
\* it, over the very fields that are stored; only the REQUEST that the registry
\* writes itself is not.
Authentic ==
  \A m \in messages :
    m.type # "REQUEST" /\ m.sender.public_key # None => VerifiedBy(m, m.sender.public_key)

\* A stored signature reads INVALID only if the sender's profile is no longer
\* the one it was checked against: the registry never stores a signature that
\* it would not itself confirm, except from a sender it had no key for.
InvalidExplained ==
  \A m \in messages :
    signature_status_for(m) = "INVALID" =>
      agents[m.from] # m.sender \/ resolve_verify_key(m.sender) = None

\* Library and registry agree on every stored message, as long as the sender's
\* row has the key its DID embeds.
VerifiersAgree ==
  \A m \in messages :
    Consistent(agents[m.from]) => verify_message(m) = signature_status_for(m)

\* A client that signs with the right key is refused in three cases only: the
\* command line's clock moved on between stamp and signature; a requester rejects
\* an assigned task, for which the library signs the wrong recipient; and a vouch
\* is signed without the field that verify_task adds to it.
RefusalsExplained ==
  \A c \in Clients :
    LET refusal == sessions[c]
        s == refusal.request
    IN  refusal.stage = "refused" /\ s.signature # None /\ s.signature.by = refusal.key =>
          \/ s.kind = "cli" /\ s.signature.time > s.time
          \/ s.kind = "library" /\ s.type = "REJECT" /\ s.from = Requester
             /\ refusal.to # Requester
          \/ s.type = "VERIFY" /\ s.payload = "plain"
=============================================================================
