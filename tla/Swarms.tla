------------------------------- MODULE Swarms -------------------------------
(***************************************************************************)
(* Ranking and swarms: how agents are ranked for a set of capabilities     *)
(* (ranking.py), how a swarm that covers them is assembled from the ranked *)
(* list, and how swarms, their members and the contribution log follow the *)
(* agents they name while these change and leave (api.py).                 *)
(*                                                                         *)
(* A request reads in one step and commits in another.  On Postgres the    *)
(* foreign keys are enforced; SQLite ignores them here, and the deletion   *)
(* of an agent removes its rows itself.  Agent ids are numbers: only their *)
(* order matters.  Registration and updates race in AgentDirectory, not    *)
(* here.                                                                   *)
(***************************************************************************)
EXTENDS Naturals, Sequences, FiniteSets, SequencesExt

CONSTANTS
  Agents,    \* agent identifiers, in their order
  Caps,      \* capabilities
  Profiles,  \* the profiles agents may have
  SwarmIds,  \* swarm identifiers
  Workers,   \* threads that run handlers
  Dialects,  \* the kinds of database: "sqlite", "postgres" or both
  MaxWrites  \* bound on the changes to agents

ASSUME SwarmAssumption ==
  /\ Agents \subseteq Nat /\ IsFiniteSet(Agents)
  /\ IsFiniteSet(Caps)
  /\ Dialects \subseteq {"sqlite", "postgres"}
  /\ MaxWrites \in Nat
  /\ \A p \in Profiles : p.caps \subseteq Caps

VARIABLES
  dialect,  \* the kind of database in use
  profile,  \* registered agent -> its profile
  swarms,   \* the swarms
  members,  \* the rows of swarm_members
  credits,  \* the agents that have rows in contributions
  jobs,     \* thread -> the request it is handling
  writes    \* how many changes to agents there have been

vars == <<dialect, profile, swarms, members, credits, jobs, writes>>

Roles == {"recommended", "executing"}

Member == [swarm : SwarmIds, agent : Agents, role : Roles]

agents == DOMAIN profile

Idle == [stage |-> "idle"]

\* The rows a handler has queued: a new swarm or none, members and credits.
Job == {Idle} \cup [stage : {"write"}, new : SUBSET SwarmIds,
                    members : SUBSET Member, credits : SUBSET Agents]

TypeOK ==
  /\ dialect \in Dialects
  /\ agents \subseteq Agents
  /\ profile \in [agents -> Profiles]
  /\ swarms \subseteq SwarmIds
  /\ members \subseteq Member
  /\ credits \subseteq Agents
  /\ jobs \in [Workers -> Job]
  /\ writes \in Nat

Init ==
  /\ dialect \in Dialects
  /\ \E S \in SUBSET Agents : profile \in [S -> Profiles]
  /\ swarms = {}
  /\ members = {}
  /\ credits = {}
  /\ jobs = [w \in Workers |-> Idle]
  /\ writes = 0

-----------------------------------------------------------------------------
(* Ranking: points in hundredths *)

VERIFICATION_POINTS ==
  [vouched |-> 2000, checked |-> 1600, community |-> 1400, verified |-> 1200,
   claimed |-> 600, expired |-> 200, disputed |-> 0]

AVAILABILITY_POINTS == [online |-> 2000, unknown |-> 1200, busy |-> 600, offline |-> 0]

\* Profiles have passed validation: status and verification are of the enums.
ASSUME ProfileAssumption ==
  \A p \in Profiles :
    p.status \in DOMAIN AVAILABILITY_POINTS /\ p.verification \in DOMAIN VERIFICATION_POINTS

Matched(a, wanted) == profile[a].caps \cap wanted

\* 40 * matched / requested, to the nearest hundredth.
CapabilityPoints(a, wanted) ==
  (8000 * Cardinality(Matched(a, wanted)) + Cardinality(wanted))
    \div (2 * Cardinality(wanted))

\* score_agent: "compatible" if no protocol is asked for, or the agent lists it.
score_agent(a, wanted, protocol) ==
  CapabilityPoints(a, wanted)
    + VERIFICATION_POINTS[profile[a].verification]
    + AVAILABILITY_POINTS[profile[a].status]
    + (IF protocol \subseteq profile[a].protocols THEN 1000 ELSE 0)
    + (IF profile[a].evidence THEN 1000 ELSE 0)

\* Higher rank first, then the smaller id.
Before(a, b, wanted, protocol) ==
  LET r == score_agent(a, wanted, protocol)
      s == score_agent(b, wanted, protocol)
  IN  r > s \/ (r = s /\ a < b)

rank_agents(S, wanted, protocol) ==
  CHOOSE order \in SetToSeqs(S) :
    \A i, j \in DOMAIN order : i < j => Before(order[i], order[j], wanted, protocol)

Matching(S, wanted) == {a \in S : Matched(a, wanted) # {}}

\* Of the agents that match, assembly ranks those that say they are online, or say
\* nothing.  (GET /discover ranks them all.)
Candidates(wanted) ==
  Matching({a \in agents : profile[a].status \in {"online", "unknown"}}, wanted)

Recommended(wanted, protocol) == rank_agents(Candidates(wanted), wanted, protocol)

CoversNothing(ranked, wanted) ==   \* mutated: "covered" is never updated
  {ranked[i] : i \in 1 .. Len(ranked)}

\* _assemble: down the ranked list, everybody who adds something is executing.
\* (The early break changes nothing: once all is covered nobody adds anything.)
Executing(ranked, wanted) ==
  LET covered[i \in 0 .. Len(ranked)] ==
        IF i = 0 THEN {} ELSE covered[i - 1] \cup Matched(ranked[i], wanted)
  IN  {ranked[i] : i \in {j \in 1 .. Len(ranked) :
                            ~(Matched(ranked[j], wanted) \subseteq covered[j - 1])}}

-----------------------------------------------------------------------------
(* Requests *)

\* The handler's reads, guards and what it adds to its session.
Queue(w, new, rows, log) ==
  /\ jobs[w] = Idle
  /\ jobs' = [jobs EXCEPT ![w] =
       [stage |-> "write", new |-> new, members |-> rows, credits |-> log]]
  /\ UNCHANGED <<dialect, profile, swarms, members, credits, writes>>

Row(s, a, role) == [swarm |-> s, agent |-> a, role |-> role]

\* POST /swarms/propose with persist: the recommended become members.
propose_swarm(w) ==
  \E s \in SwarmIds \ swarms, wanted \in (SUBSET Caps) \ {{}}, protocol \in {{}, {"http"}} :
    LET exec == Executing(Recommended(wanted, protocol), wanted)
    IN  Queue(w, {s},
          {Row(s, a, IF a \in exec THEN "executing" ELSE "recommended") : a \in Candidates(wanted)},
          {})

\* POST /swarms: any registered agents, all of them executing.
create_swarm(w) ==
  \E s \in SwarmIds \ swarms, S \in SUBSET agents :
    Queue(w, {s}, {Row(s, a, "executing") : a \in S}, {})

\* POST /swarms/{id}/members.
add_swarm_member(w) ==
  \E s \in swarms, a \in agents, role \in Roles :
    /\ \A m \in members : ~(m.swarm = s /\ m.agent = a)
    /\ Queue(w, {}, {Row(s, a, role)}, {})

\* GET /proof and GET /agents/{id}/proof log that the snapshot was made.
agent_proof(w) ==
  \E a \in agents : Queue(w, {}, {}, {a})

\* POST /contributions takes community_endorsement and dispute, in any agent's name.
post_contribution(w) ==
  \E a \in agents : Queue(w, {}, {}, {a})

\* uq_swarm_member, a constraint of the table itself: an agent is in a swarm once.
UniqueMembers(rows) ==
  \A m, n \in rows : m.swarm = n.swarm /\ m.agent = n.agent => m = n

NoForeignKeys(rows, log) == TRUE   \* mutated: foreign keys without effect on Postgres

ForeignKeys(rows, log) ==
  dialect = "postgres" =>
    (\A m \in rows : m.agent \in agents) /\ log \subseteq agents

\* The transaction is committed, if the constraints of the schema allow it.
Commit(w) ==
  /\ jobs[w].stage = "write"
  /\ jobs[w].new \cap swarms = {}
  /\ jobs[w].members \cap members = {}
  /\ UniqueMembers(members \cup jobs[w].members)
  /\ ForeignKeys(jobs[w].members, jobs[w].credits)
  /\ swarms' = swarms \cup jobs[w].new
  /\ members' = members \cup jobs[w].members
  /\ credits' = credits \cup jobs[w].credits
  /\ jobs' = [jobs EXCEPT ![w] = Idle]
  /\ UNCHANGED <<dialect, profile, writes>>

\* An error response: nothing is written.
Drop(w) ==
  /\ jobs[w] # Idle
  /\ jobs' = [jobs EXCEPT ![w] = Idle]
  /\ UNCHANGED <<dialect, profile, swarms, members, credits, writes>>

-----------------------------------------------------------------------------
(* Changes to agents *)

Changes == writes < MaxWrites /\ writes' = writes + 1

RegisterAgent ==
  /\ Changes
  /\ \E a \in Agents \ agents, p \in Profiles :
       profile' = [b \in agents \cup {a} |-> IF b = a THEN p ELSE profile[b]]
  /\ UNCHANGED <<dialect, swarms, members, credits, jobs>>

\* PUT /agents/{id}, and verification records.
UpdateAgent ==
  /\ Changes
  /\ \E a \in agents, p \in Profiles : profile' = [profile EXCEPT ![a] = p]
  /\ UNCHANGED <<dialect, swarms, members, credits, jobs>>

DeleteKeepsMembers ==   \* mutated: the rows of swarm_members are left to the database
  /\ Changes
  /\ \E a \in agents :
       /\ profile' = Restrict(profile, agents \ {a})
       /\ members' = IF dialect = "postgres" THEN {m \in members : m.agent # a} ELSE members
       /\ credits' = credits \ {a}
  /\ UNCHANGED <<dialect, swarms, jobs>>

\* DELETE /agents/{id}: its memberships, and by the ORM's cascade its credits.
DeleteAgent ==
  /\ Changes
  /\ \E a \in agents :
       /\ profile' = Restrict(profile, agents \ {a})
       /\ members' = {m \in members : m.agent # a}
       /\ credits' = credits \ {a}
  /\ UNCHANGED <<dialect, swarms, jobs>>

Next ==
  \/ \E w \in Workers :
       \/ propose_swarm(w) \/ create_swarm(w) \/ add_swarm_member(w)
       \/ agent_proof(w) \/ post_contribution(w) \/ Commit(w) \/ Drop(w)
  \/ RegisterAgent \/ UpdateAgent \/ DeleteAgent

Spec == Init /\ [][Next]_vars

-----------------------------------------------------------------------------

\* Whatever agents there are: an assembled swarm executes with exactly those
\* that offer, of all candidates, some wanted capability first; so whatever any
\* candidate offers is covered, and nobody is taken who adds nothing.
ExecutesWithTheFirst ==
  \A wanted \in (SUBSET Caps) \ {{}}, protocol \in {{}, {"http"}} :
    Executing(Recommended(wanted, protocol), wanted) =
          {a \in Candidates(wanted) : \E c \in Matched(a, wanted) :
             \A b \in Candidates(wanted) \ {a} :
               c \in Matched(b, wanted) => Before(a, b, wanted, protocol)}

\* On Postgres every member and every contribution is a registered agent's.
MembersRegistered ==
  dialect = "postgres" =>
    (\A m \in members : m.agent \in agents) /\ credits \subseteq agents

Dangling == ({m.agent : m \in members} \cup credits) \ agents

\* A deleted agent leaves nothing behind that a later agent of the same id would
\* inherit, unless a request that found it registered commits after it left.
OnlyLateWritesDangle ==
  [][\A a \in Dangling' \ Dangling :
       \E w \in Workers :
         /\ Commit(w)
         /\ a \in {m.agent : m \in jobs[w].members} \cup jobs[w].credits
         /\ a \notin agents]_vars
=============================================================================
