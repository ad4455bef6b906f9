--------------------------- MODULE AgentDirectory ---------------------------
(***************************************************************************)
(* Identities in the agent directory: the DID, the public key and the demo *)
(* flag of a registered agent, as registration, PUT /agents/{id}, deletion *)
(* (api.py) and scripts/manual_fix_agent_pubkey.py change them.            *)
(*                                                                         *)
(* A did:key identifier is named by the key it embeds (crypto.py extracts  *)
(* it), a did:example identifier by itself.  A request reads in one step   *)
(* and writes in another; an update writes the columns it changed, on top  *)
(* of whatever the row holds by then.  Malformed DIDs and keys never get   *)
(* this far (schemas.py).                                                  *)
(***************************************************************************)
EXTENDS Naturals, FiniteSets

CONSTANTS
  Agents,      \* agent identifiers
  Keys,        \* Ed25519 public keys; each is also the did:key embedding it
  Examples,    \* did:example identifiers
  Workers,     \* threads that run handlers
  None,        \* SQL NULL
  MaxRequests  \* bound on the requests that change the directory

ASSUME IdentityAssumption ==
  /\ Keys \cap Examples = {}
  /\ None \notin Keys \cup Examples
  /\ MaxRequests \in Nat

VARIABLES
  agents,   \* agent -> its row, or NoRow
  jobs,     \* thread -> the request it is handling
  requests  \* how many requests there have been

directory == <<agents, jobs, requests>>

DIDs == Keys \cup Examples

Row == [did : DIDs, public_key : Keys \cup {None}, fictional : BOOLEAN]

NoRow == [did |-> None, public_key |-> None, fictional |-> FALSE]

Idle == [stage |-> "idle"]

Job ==
  {Idle}
    \cup [stage : {"read"}, agent : Agents, old : Row]
    \cup [stage : {"write"}, agent : Agents, old : Row \cup {NoRow}, new : Row]

DirectoryTypeOK ==
  /\ agents \in [Agents -> Row \cup {NoRow}]
  /\ jobs \in [Workers -> Job]
  /\ requests \in Nat

Registered == {a \in Agents : agents[a] # NoRow}

-----------------------------------------------------------------------------
(* Keys and DIDs *)

is_demo_did(did) == did \in Examples

\* The key a DID embeds.
try_public_key_from_did(did) == IF did \in Keys THEN did ELSE None

\* resolve_registration_public_key: a key that differs from the embedded one is
\* refused; without an embedded key, the supplied one stands.
Resolvable(did, supplied) == did \in Keys => supplied \in {None, did}

SuppliedOnly(did, supplied) == supplied   \* mutated: no key is derived from the DID

resolve_registration_public_key(did, supplied) ==
  IF did \in Keys THEN try_public_key_from_did(did) ELSE supplied

\* AgentCreate, the validated body of a registration: the key resolved, demo
\* identifiers flagged.
AgentCreate(did, key, demo) ==
  [did |-> did,
   public_key |-> resolve_registration_public_key(did, key),
   fictional |-> demo \/ is_demo_did(did)]

\* AgentUpdate, the body of PUT: a DID (the row's own stands for none), and the
\* other fields if they are in "given".
AgentUpdate ==
  [did : DIDs, given : SUBSET {"public_key", "fictional"},
   public_key : Keys \cup {None}, fictional : BOOLEAN]

\* What a row must say: the embedded key, and demo identifiers are fictional.
Consistent(row) ==
  /\ row.did \in Keys => row.public_key = row.did
  /\ is_demo_did(row.did) => row.fictional

\* Some other agent holds this DID.
Taken(did, a) == \E b \in Agents \ {a} : agents[b].did = did

-----------------------------------------------------------------------------

\* Agents that registered one after the other, or did not.
DirectoryInit ==
  /\ agents \in {f \in [Agents -> Row \cup {NoRow}] :
       /\ \A a \in Agents : Consistent(f[a]) /\ (f[a].fictional <=> is_demo_did(f[a].did))
       /\ \A a, b \in Agents : a # b /\ f[a] # NoRow => f[a].did # f[b].did}
  /\ jobs = [w \in Workers |-> Idle]
  /\ requests = 0

Goto(w, job) == jobs' = [jobs EXCEPT ![w] = job]

Arrives(w) ==
  /\ jobs[w] = Idle
  /\ requests < MaxRequests
  /\ requests' = requests + 1

\* POST /agents: the id and the DID are free, the key fits the DID.
RegisterAgent(w) ==
  /\ Arrives(w)
  /\ \E a \in Agents \ Registered, did \in DIDs, key \in Keys \cup {None}, demo \in BOOLEAN :
       /\ ~Taken(did, a)
       /\ Resolvable(did, key)
       /\ Goto(w, [stage |-> "write", agent |-> a, old |-> NoRow,
                   new |-> AgentCreate(did, key, demo)])
  /\ UNCHANGED agents

\* PUT /agents/{id}, and the script: the row is loaded.
LoadAgent(w) ==
  /\ Arrives(w)
  /\ \E a \in Registered : Goto(w, [stage |-> "read", agent |-> a, old |-> agents[a]])
  /\ UNCHANGED agents

Write(w, did, key, demo) ==
  /\ Goto(w, [stage |-> "write", agent |-> jobs[w].agent, old |-> jobs[w].old,
              new |-> [did |-> did, public_key |-> key, fictional |-> demo]])
  /\ UNCHANGED <<agents, requests>>

\* PUT goes on.  A new DID, or a key, has the key resolved anew: moving to an
\* identifier without a key of its own drops the old one.
UpdateAgent(w) ==
  /\ jobs[w].stage = "read"
  /\ \E body \in AgentUpdate :
       LET row == jobs[w].old
           did == body.did
           moved == did # row.did
           rekeyed == moved \/ "public_key" \in body.given
           supplied == IF "public_key" \in body.given THEN body.public_key ELSE None
       IN  /\ moved => ~Taken(did, jobs[w].agent)
           /\ rekeyed => Resolvable(did, supplied)
           /\ "fictional" \in body.given /\ is_demo_did(did) => body.fictional
           /\ Write(w, did,
                IF rekeyed THEN resolve_registration_public_key(did, supplied)
                  ELSE row.public_key,
                IF "fictional" \in body.given THEN body.fictional
                  ELSE row.fictional \/ (moved /\ is_demo_did(did)))

\* The script asks nobody whether the DID is taken, and keeps the old key when
\* the new DID embeds none.
ManualFix(w) ==
  /\ jobs[w].stage = "read"
  /\ \E did \in DIDs, given \in SUBSET {"fictional"}, demo \in BOOLEAN :
       LET row == jobs[w].old
           pub == resolve_registration_public_key(did, None)
       IN  /\ "fictional" \in given /\ is_demo_did(did) => demo
           /\ Write(w, did,
                IF pub = None THEN row.public_key ELSE pub,
                IF given # {} THEN demo ELSE row.fictional \/ is_demo_did(did))

NoConstraint(a, did) == TRUE   \* mutated: the column did is not unique

\* The unique column, where its index was made: on SQLite a start that is cut off
\* may leave the table without it (Startup).
UniqueDid(a, did) == ~Taken(did, a)

\* UPDATE writes the columns that changed in the session.
Merge(row, old, new) ==
  [f \in DOMAIN row |-> IF new[f] # old[f] THEN new[f] ELSE row[f]]

\* The transaction is committed: an INSERT needs the id to be free still, an
\* UPDATE needs the row, and no DID may be there twice.
Commit(w) ==
  /\ jobs[w].stage = "write"
  /\ LET a == jobs[w].agent
         row == IF jobs[w].old = NoRow THEN jobs[w].new
                  ELSE Merge(agents[a], jobs[w].old, jobs[w].new)
     IN  /\ jobs[w].old = NoRow <=> agents[a] = NoRow
         /\ UniqueDid(a, row.did)
         /\ agents' = [agents EXCEPT ![a] = row]
  /\ Goto(w, Idle)
  /\ UNCHANGED requests

\* An error response: nothing is written.
Drop(w) ==
  /\ jobs[w] # Idle
  /\ Goto(w, Idle)
  /\ UNCHANGED <<agents, requests>>

\* DELETE /agents/{id}.
DeleteAgent(w) ==
  /\ Arrives(w)
  /\ \E a \in Registered : agents' = [agents EXCEPT ![a] = NoRow]
  /\ UNCHANGED jobs

DirectoryNext ==
  \E w \in Workers :
    \/ RegisterAgent(w) \/ LoadAgent(w) \/ UpdateAgent(w) \/ ManualFix(w)
    \/ Commit(w) \/ Drop(w) \/ DeleteAgent(w)

DirectorySpec == DirectoryInit /\ [][DirectoryNext]_directory

-----------------------------------------------------------------------------

\* GET /lookup has one answer: no two agents hold one DID, although every
\* request looks for a clash in one step and writes in another, and the script
\* does not look at all.  The index on did decides at the commit.
DidsUnique ==
  \A a, b \in Registered : a # b => agents[a].did # agents[b].did

\* This thread is about to write on top of a row that is not the one it read.
Stale(w) == jobs[w].stage = "write" /\ jobs[w].old # agents[jobs[w].agent]

\* crypto.py derives the key of a did:key agent from the DID, and a did:example
\* agent is always fictional.  The only step that can break this is the commit
\* of a session whose row was changed since: its columns are merged with the
\* other one's.
KeyFollowsDid ==
  [][\A a \in Agents :
       Consistent(agents[a]) /\ ~Consistent(agents'[a]) =>
         \E w \in Workers : Stale(w) /\ jobs[w].agent = a /\ Commit(w)]_directory
=============================================================================
