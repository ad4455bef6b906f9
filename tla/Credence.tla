------------------------------ MODULE Credence ------------------------------
(***************************************************************************)
(* Credence of agents and of their capability claims: claim, check, vouch, *)
(* dispute (record_verification in workflow.py behind POST                 *)
(* /agents/{id}/verification), beside the requests that replace the        *)
(* claims themselves (PUT /agents/{id}) and that register and delete       *)
(* agents.  The tables are agents, agent_capabilities,                     *)
(* verification_records and contributions.                                 *)
(*                                                                         *)
(* As in TaskWorkflow a request reads first and writes in one transaction  *)
(* at its end, without locks or row versions.  What matters here is that   *)
(* claims are rows of their own, addressed by an integer id, and that PUT  *)
(* deletes and inserts them: Postgres draws the ids from a sequence, while *)
(* SQLite (no AUTOINCREMENT) takes one more than the largest in use.       *)
(***************************************************************************)
EXTENDS Naturals, Sequences, SequencesExt, FiniteSetsExt

CONSTANTS
  Agents,      \* agent identifiers
  Caps,        \* capabilities of the taxonomy
  Workers,     \* threads that run handlers
  None,        \* no capability_id, or no row
  Postgres,    \* TRUE: sequences and foreign keys; FALSE: SQLite
  Offered,     \* the evidence_status values clients write in a PUT (schemas.py takes all)
  MaxRecords,  \* bound on the verification records of an agent
  MaxPuts,     \* bound on replacements of claims
  MaxDeletes   \* bound on deletions of agents

Evidence == {"claimed", "verified", "community-verified", "expired", "disputed"}

ASSUME CredenceAssumption ==
  /\ None \notin Caps
  /\ IsFiniteSet(Caps)   \* a catalogue in a table
  /\ Postgres \in BOOLEAN
  /\ Offered \subseteq Evidence
  /\ {MaxRecords, MaxPuts, MaxDeletes} \subseteq Nat

VARIABLES
  status,   \* agent -> its verification_status, "absent" if not registered
  claims,   \* the agent_capabilities rows
  serial,   \* the last id drawn for one (the sequence of Postgres)
  records,  \* agent -> its verification_records, in order
  credits,  \* agent -> its capability_verified contributions
  jobs,     \* thread -> the request it is handling
  puts, deletes   \* how many there were

vars == <<status, claims, serial, records, credits, jobs, puts, deletes>>

-----------------------------------------------------------------------------

Kinds == {"claim", "evidence", "independently-checked", "vouch", "dispute"}

Statuses == {"claimed", "independently-checked", "vouched", "disputed"}

MaybeCap == Caps \cup {None}

\* "sent" is history: the evidence the row was inserted with.
Claim == [id : Nat, agent : Agents, cap : Caps, evidence : Evidence, sent : Evidence]

\* checker_id is any text: what counts is whether that of a vouch names the
\* agent itself.  The capability is kept where the record marks a claim.
VerificationRecord == [kind : Kinds, cap : MaybeCap, self : BOOLEAN]

Idle == [stage |-> "idle"]

\* The writes a session holds: the agent's status as loaded and as set and
\* whether its row is updated; claims changed, deleted and inserted, by id;
\* the verification records.
WriteSet ==
  [agent : Agents, old : Statuses, new : Statuses, update : BOOLEAN,
   changed : SUBSET [id : Nat, evidence : Evidence],
   deleted : SUBSET Nat,
   inserted : Seq([cap : Caps, evidence : Evidence]),
   recorded : SUBSET VerificationRecord]

\* A verification holds the agent and the claims it loaded.
Job ==
  {Idle}
  \cup [stage : {"read"}, agent : Agents, status : Statuses, claims : SUBSET Claim]
  \cup [stage : {"write"}, plan : WriteSet]

TypeOK ==
  /\ status \in [Agents -> Statuses \cup {"absent"}]
  /\ claims \subseteq Claim
  /\ \A c, d \in claims : c.id = d.id \/ <<c.agent, c.cap>> = <<d.agent, d.cap>> => c = d
  /\ serial \in Nat
  /\ records \in [Agents -> Seq(VerificationRecord)]
  /\ credits \in [Agents -> Nat]
  /\ jobs \in [Workers -> Job]

ClaimsOf(a) == {c \in claims : c.agent = a}

Record(kind, cap, self) == [kind |-> kind, cap |-> cap, self |-> self]

Row(id, a, sent) ==
  [id |-> id, agent |-> a, cap |-> sent.cap, evidence |-> sent.evidence, sent |-> sent.evidence]

InsertedReusing(a, list, remaining) ==   \* mutated: Postgres reuses ids, too
  LET last == Max({c.id : c \in remaining} \cup {0})
  IN {Row(last + i, a, list[i]) : i \in DOMAIN list}

\* The rows for a list of claims, in its order, after the rows that remain.
Inserted(a, list, remaining) ==
  LET last == IF Postgres THEN serial ELSE Max({c.id : c \in remaining} \cup {0})
  IN {Row(last + i, a, list[i]) : i \in DOMAIN list}

\* The lists of claims for a set of capabilities, each with evidence in values.
ClaimLists(values) ==
  UNION {{[i \in DOMAIN order |-> [cap |-> order[i], evidence |-> e[order[i]]]] :
            order \in SetToSeqs(caps), e \in [caps -> values]} : caps \in SUBSET Caps}

Init ==
  /\ status = [a \in Agents |-> "absent"]
  /\ claims = {}
  /\ serial = 0
  /\ records = [a \in Agents |-> <<>>]
  /\ credits = [a \in Agents |-> 0]
  /\ jobs = [w \in Workers |-> Idle]
  /\ puts = 0
  /\ deletes = 0

tables == <<status, claims, serial, records, credits, puts, deletes>>

-----------------------------------------------------------------------------
(* The directory *)

\* register_agent: AgentCreate makes every claim "claimed".
RegisterAgent(a) ==
  /\ status[a] = "absent"
  /\ \E list \in ClaimLists({"claimed"}) :
       /\ claims' = claims \cup Inserted(a, list, claims)
       /\ serial' = serial + Len(list)
  /\ status' = [status EXCEPT ![a] = "claimed"]
  /\ records' = [records EXCEPT ![a] = Append(@, Record("claim", None, FALSE))]
  /\ UNCHANGED <<credits, jobs, puts, deletes>>

\* delete_agent, with everything of the agent (the ORM's cascade).
DeleteAgent(a) ==
  /\ deletes < MaxDeletes
  /\ status[a] # "absent"
  /\ status' = [status EXCEPT ![a] = "absent"]
  /\ claims' = claims \ ClaimsOf(a)
  /\ records' = [records EXCEPT ![a] = <<>>]
  /\ credits' = [credits EXCEPT ![a] = 0]
  /\ deletes' = deletes + 1
  /\ UNCHANGED <<serial, jobs, puts>>

-----------------------------------------------------------------------------
(* The handlers *)

Queue(w, plan) ==
  /\ jobs' = [jobs EXCEPT ![w] = [stage |-> "write", plan |-> plan]]
  /\ UNCHANGED <<status, claims, serial, records, credits, deletes>>

\* update_agent with a list of claims: the agent's row is updated, the rows
\* of its claims as loaded here are deleted and new ones inserted, with the
\* evidence_status the client sends.
PutClaims(w, a) ==
  /\ puts < MaxPuts
  /\ jobs[w] = Idle
  /\ status[a] # "absent"
  /\ \E list \in ClaimLists(Offered) :
       Queue(w, [agent |-> a, old |-> status[a], new |-> status[a], update |-> TRUE,
                 changed |-> {}, deleted |-> {c.id : c \in ClaimsOf(a)}, inserted |-> list,
                 recorded |-> {}])
  /\ puts' = puts + 1

\* post_verification: the agent is loaded with its claims.
BeginVerification(w, a) ==
  /\ jobs[w] = Idle
  /\ status[a] # "absent"
  /\ jobs' = [jobs EXCEPT ![w] =
       [stage |-> "read", agent |-> a, status |-> status[a], claims |-> ClaimsOf(a)]]
  /\ UNCHANGED tables

VouchUnchecked(w, self) == TRUE   \* mutated: anyone may vouch at once

\* A vouch needs an independent check on record and another agent's word.
MayVouch(w, self) ==
  LET log == records[jobs[w].agent] IN
  /\ \E i \in DOMAIN log : log[i].kind = "independently-checked"
  /\ ~self

StandingForgiving(loaded, kind) ==   \* mutated: a check or a claim clears a dispute
  CASE kind = "dispute" -> "disputed"
    [] kind = "vouch" -> "vouched"
    [] kind = "independently-checked" -> "independently-checked"
    [] kind \in {"claim", "evidence"} ->
         IF loaded \in {"vouched", "independently-checked"} THEN loaded ELSE "claimed"

StandingPromoted(loaded, kind) ==   \* mutated: an independent check is enough
  CASE kind = "dispute" -> "disputed"
    [] kind \in {"vouch", "independently-checked"} -> "vouched"
    [] kind \in {"claim", "evidence"} ->
         IF loaded \in {"disputed", "vouched", "independently-checked"} THEN loaded ELSE "claimed"

\* The agent's status after a record of a kind, given the status loaded.
Standing(loaded, kind) ==
  CASE kind = "dispute" -> "disputed"
    [] kind = "vouch" -> "vouched"
    [] kind = "independently-checked" ->
         IF loaded = "disputed" THEN loaded ELSE "independently-checked"
    [] kind \in {"claim", "evidence"} ->
         IF loaded \in {"disputed", "vouched", "independently-checked"} THEN loaded ELSE "claimed"

\* The evidence of the claim a record names.
EvidenceAfter(loaded, kind) ==
  CASE kind = "dispute" -> "disputed"
    [] kind = "vouch" -> "community-verified"
    [] kind = "evidence" -> "claimed"
    [] kind \in {"independently-checked", "claim"} -> loaded

\* record_verification.  A record may name a claim, among those loaded.
RecordVerification(w, kind, cap, self) ==
  LET a == jobs[w].agent
      named == {c \in jobs[w].claims : c.cap = cap}
  IN
  /\ jobs[w].stage = "read"
  /\ Len(records[a]) < MaxRecords
  /\ IF kind = "vouch" THEN MayVouch(w, self) ELSE ~self
  /\ cap # None => named # {} /\ kind \in {"evidence", "vouch", "dispute"}
  /\ Queue(w, [agent |-> a,
               old |-> jobs[w].status, new |-> Standing(jobs[w].status, kind), update |-> FALSE,
               changed |-> {[id |-> c.id, evidence |-> EvidenceAfter(c.evidence, kind)] :
                              c \in {x \in named : EvidenceAfter(x.evidence, kind) # x.evidence}},
               deleted |-> {}, inserted |-> <<>>,
               recorded |-> {Record(kind, cap, self)}])
  /\ UNCHANGED puts

-----------------------------------------------------------------------------
(* The end of a transaction *)

\* UPDATEs must find their rows, or the session fails (StaleDataError).
RowsMatch(p) ==
  /\ (p.update \/ p.new # p.old) => status[p.agent] # "absent"
  /\ \A u \in p.changed : \E c \in claims : c.id = u.id

\* The claims after the transaction.
Written(p) ==
  LET remaining == {c \in claims : c.id \notin p.deleted}
      fresh(c) == {u \in p.changed : u.id = c.id}
      changed == {[c EXCEPT !.evidence = IF fresh(c) = {} THEN @ ELSE (CHOOSE u \in fresh(c) : TRUE).evidence] :
                    c \in remaining}
  IN changed \cup Inserted(p.agent, p.inserted, remaining)

NoUniqueClaims(rows) == TRUE   \* mutated: no unique constraint on agent and capability

\* uq_agent_cap
UniqueClaims(rows) == \A c, d \in rows : c.agent = d.agent /\ c.cap = d.cap => c = d

Commit(w) ==
  LET p == jobs[w].plan
      a == p.agent
      written == Written(p)
  IN
  /\ jobs[w].stage = "write"
  /\ RowsMatch(p)
  /\ UniqueClaims(written)
  /\ Postgres => status[a] # "absent"
  /\ status' = IF p.new # p.old THEN [status EXCEPT ![a] = p.new] ELSE status
  /\ claims' = written
  /\ serial' = serial + Len(p.inserted)
  /\ records' = [records EXCEPT ![a] = @ \o SetToSeq(p.recorded)]
  /\ credits' = [credits EXCEPT ![a] = @ + Cardinality({r \in p.recorded : r.kind = "vouch"})]
  /\ jobs' = [jobs EXCEPT ![w] = Idle]
  /\ UNCHANGED <<puts, deletes>>

DropKeepsCredit(w) ==   \* mutated: add_contribution commits on its own
  /\ jobs[w].stage = "write"
  /\ jobs' = [jobs EXCEPT ![w] = Idle]
  /\ credits' = [credits EXCEPT ![jobs[w].plan.agent] =
       @ + Cardinality({r \in jobs[w].plan.recorded : r.kind = "vouch"})]
  /\ UNCHANGED <<status, claims, serial, records, puts, deletes>>

\* A refusal, a violated constraint, a stale row, a crash: nothing is written.
Drop(w) ==
  /\ jobs[w] # Idle
  /\ jobs' = [jobs EXCEPT ![w] = Idle]
  /\ UNCHANGED tables

Next ==
  \/ \E w \in Workers :
       \/ \E a \in Agents : PutClaims(w, a) \/ BeginVerification(w, a)
       \/ \E kind \in Kinds, cap \in MaybeCap, self \in BOOLEAN :
            RecordVerification(w, kind, cap, self)
       \/ Commit(w)
       \/ Drop(w)
  \/ \E a \in Agents : RegisterAgent(a) \/ DeleteAgent(a)

Spec == Init /\ [][Next]_vars

-----------------------------------------------------------------------------
(* Properties *)

(***************************************************************************)
(* "Vouch requires a prior independently-checked record", from another     *)
(* agent: so it is in the records of every agent that was not deleted,     *)
(* however requests interleave.                                            *)
(***************************************************************************)
VouchEarned ==
  \A a \in Agents : \A i \in DOMAIN records[a] :
    deletes = 0 /\ records[a][i].kind = "vouch" =>
      /\ ~records[a][i].self
      /\ \E j \in 1 .. i - 1 : records[a][j].kind = "independently-checked"

\* The kinds of record that set a status.
Sets(standing) ==
  CASE standing = "claimed" -> {"claim", "evidence"}
    [] standing = "independently-checked" -> {"independently-checked"}
    [] standing = "vouched" -> {"vouch"}
    [] standing = "disputed" -> {"dispute"}

(***************************************************************************)
(* The status an agent shows is on record, although commits of stale       *)
(* sessions overwrite newer statuses: "vouched" has its vouch, "disputed"  *)
(* its dispute (GET /agents/{id}/verification shows both).                 *)
(***************************************************************************)
StatusRecorded ==
  \A a \in Agents :
    deletes = 0 /\ status[a] # "absent" =>
      \E i \in DOMAIN records[a] : records[a][i].kind \in Sets(status[a])

(***************************************************************************)
(* A dispute stays until a vouch settles it: a claim, evidence or a check  *)
(* clears it only from a session that loaded the agent before the dispute  *)
(* (the guards of record_verification on the loaded status).               *)
(***************************************************************************)
DisputeStays ==
  [][\A a \in Agents :
       status[a] = "disputed" /\ status'[a] \notin {"disputed", "absent"} =>
         \/ status'[a] = "vouched"
         \/ \E w \in Workers :
              /\ jobs[w].stage = "write" /\ jobs'[w] = Idle
              /\ jobs[w].plan.agent = a /\ jobs[w].plan.old # "disputed"]_status

(***************************************************************************)
(* A claim's evidence is what the registration or the PUT that inserted it *)
(* said, or is earned: "community-verified" by a vouch for that capability *)
(* of that agent, "disputed" by a dispute, "claimed" by evidence, whatever *)
(* clients send and whatever replaced the rows of claims in between.       *)
(* Where ids are never reused.                                             *)
(***************************************************************************)
EvidenceEarned ==
  \A c \in claims :
    c.evidence # c.sent =>
      \E i \in DOMAIN records[c.agent] :
        /\ records[c.agent][i].cap = c.cap
        /\ EvidenceAfter(c.sent, records[c.agent][i].kind) = c.evidence

(***************************************************************************)
(* "Capability claims are never auto-verified.  verified / vouched require *)
(* an explicit independent check then vouch": a claim with verified        *)
(* evidence has a vouch on record, for that capability.                    *)
(***************************************************************************)
NeverAutoVerified ==
  \A c \in claims :
    c.evidence \in {"verified", "community-verified"} =>
      \E i \in DOMAIN records[c.agent] :
        records[c.agent][i].kind = "vouch" /\ records[c.agent][i].cap = c.cap

(***************************************************************************)
(* A credit for a verified capability stands for a vouch on record: one    *)
(* for one, whatever failed in between (add_contribution is in the         *)
(* transaction of its record).                                             *)
(***************************************************************************)
CreditsRecorded ==
  \A a \in Agents :
    credits[a] = Cardinality({i \in DOMAIN records[a] : records[a][i].kind = "vouch"})
=============================================================================
