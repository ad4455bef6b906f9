---------------------------- MODULE Swarms_proof ----------------------------
(***************************************************************************)
(* Proofs about Swarms, for any agents, profiles, swarms and threads, and  *)
(* either database: foreign keys keep members and contributions            *)
(* registered, only a late commit leaves a row of an agent that is gone,   *)
(* and assembly picks a cover greedily from the ranked list.               *)
(***************************************************************************)
EXTENDS Swarms, FiniteSetTheorems, NaturalsInduction, TLAPS

LEMMA RoleKinds == "executing" \in Roles /\ "recommended" \in Roles
  BY DEF Roles

LEMMA RowType ==
  ASSUME NEW s \in SwarmIds, NEW a \in Agents, NEW role \in Roles
  PROVE  Row(s, a, role) \in Member
  BY DEF Row, Member

\* The fields of a job that waits to commit.
LEMMA JobFields ==
  ASSUME NEW job \in Job, job.stage = "write"
  PROVE  job.new \subseteq SwarmIds /\ job.members \subseteq Member /\ job.credits \subseteq Agents
<1>1. Idle.stage = "idle"
  BY DEF Idle
<1>2. job # Idle
  BY <1>1
<1> QED BY <1>2 DEF Job

LEMMA QueueKeeps ==
  ASSUME TypeOK, NEW w \in Workers, NEW new \in SUBSET SwarmIds,
         NEW rows \in SUBSET Member, NEW log \in SUBSET Agents,
         Queue(w, new, rows, log)
  PROVE  TypeOK' /\ UNCHANGED <<dialect, profile, swarms, members, credits>>
<1> DEFINE job == [stage |-> "write", new |-> new, members |-> rows, credits |-> log]
<1>1. job \in Job
  BY DEF Job
<1>2. jobs' = [jobs EXCEPT ![w] = job]
  BY DEF Queue
<1> HIDE DEF job
<1>3. jobs' \in [Workers -> Job]
  BY <1>1, <1>2 DEF TypeOK
<1> QED BY <1>3 DEF Queue, TypeOK, agents

\* A handler only queues rows.
LEMMA HandlerKeeps ==
  ASSUME TypeOK, NEW w \in Workers,
         \/ propose_swarm(w) \/ create_swarm(w) \/ add_swarm_member(w)
         \/ agent_proof(w) \/ post_contribution(w)
  PROVE  TypeOK' /\ UNCHANGED <<dialect, profile, swarms, members, credits>>
<1>0. agents \subseteq Agents /\ swarms \subseteq SwarmIds
  BY DEF TypeOK
<1>1. CASE propose_swarm(w)
  <2>1. PICK s \in SwarmIds, wanted \in (SUBSET Caps) \ {{}}, protocol \in {{}, {"http"}} :
          Queue(w, {s}, {Row(s, a, IF a \in Executing(Recommended(wanted, protocol), wanted)
                                     THEN "executing" ELSE "recommended") :
                           a \in Candidates(wanted)}, {})
    BY <1>1 DEF propose_swarm
  <2> DEFINE E == Executing(Recommended(wanted, protocol), wanted)
  <2> DEFINE rows == {Row(s, a, IF a \in E THEN "executing" ELSE "recommended") :
                        a \in Candidates(wanted)}
  <2>2. Candidates(wanted) \subseteq Agents
    BY <1>0 DEF Candidates, Matching
  <2>3. rows \subseteq Member
    <3> SUFFICES ASSUME NEW a \in Candidates(wanted)
                 PROVE  Row(s, a, IF a \in E THEN "executing" ELSE "recommended") \in Member
      OBVIOUS
    <3> HIDE DEF E
    <3>1. (IF a \in E THEN "executing" ELSE "recommended") \in Roles
      BY RoleKinds
    <3> QED BY <3>1, <2>2, RowType
  <2>4. Queue(w, {s}, rows, {})
    BY <2>1
  <2> HIDE DEF rows
  <2> QED BY <2>3, <2>4, QueueKeeps
<1>2. CASE create_swarm(w)
  <2>1. PICK s \in SwarmIds, S \in SUBSET agents :
          Queue(w, {s}, {Row(s, a, "executing") : a \in S}, {})
    BY <1>2 DEF create_swarm
  <2>2. {Row(s, a, "executing") : a \in S} \subseteq Member
    BY <1>0, RoleKinds, RowType
  <2> QED BY <2>1, <2>2, QueueKeeps
<1>3. CASE add_swarm_member(w)
  <2>1. PICK s \in swarms, a \in agents, role \in Roles :
          Queue(w, {}, {Row(s, a, role)}, {})
    BY <1>3 DEF add_swarm_member
  <2>2. {Row(s, a, role)} \subseteq Member
    BY <1>0, RowType
  <2> QED BY <2>1, <2>2, QueueKeeps
<1>4. CASE agent_proof(w) \/ post_contribution(w)
  <2>1. PICK a \in agents : Queue(w, {}, {}, {a})
    BY <1>4 DEF agent_proof, post_contribution
  <2> QED BY <2>1, <1>0, QueueKeeps
<1> QED BY <1>1, <1>2, <1>3, <1>4

LEMMA DropKeeps ==
  ASSUME TypeOK, NEW w \in Workers, Drop(w)
  PROVE  TypeOK' /\ UNCHANGED <<dialect, profile, swarms, members, credits>>
<1>1. Idle \in Job
  BY DEF Job
<1> QED BY <1>1 DEF Drop, TypeOK, agents

\* What a committed transaction writes, and under which constraints.
LEMMA CommitWrites ==
  ASSUME TypeOK, NEW w \in Workers, Commit(w)
  PROVE  /\ TypeOK'
         /\ ForeignKeys(jobs[w].members, jobs[w].credits)
         /\ members' = members \cup jobs[w].members
         /\ credits' = credits \cup jobs[w].credits
         /\ UNCHANGED <<dialect, profile>>
<1>1. jobs[w] \in Job /\ jobs[w].stage = "write"
  BY DEF TypeOK, Commit
<1>2. /\ jobs[w].new \subseteq SwarmIds
      /\ jobs[w].members \subseteq Member
      /\ jobs[w].credits \subseteq Agents
  BY <1>1, JobFields
<1>3. Idle \in Job
  BY DEF Job
<1>4. /\ ForeignKeys(jobs[w].members, jobs[w].credits)
      /\ members' = members \cup jobs[w].members
      /\ credits' = credits \cup jobs[w].credits
      /\ swarms' = swarms \cup jobs[w].new
      /\ jobs' = [jobs EXCEPT ![w] = Idle]
      /\ UNCHANGED <<dialect, profile, writes>>
  BY DEF Commit
<1>5. TypeOK'
  BY <1>2, <1>3, <1>4 DEF TypeOK, agents
<1> QED BY <1>4, <1>5

LEMMA RegisterKeeps ==
  ASSUME TypeOK, RegisterAgent
  PROVE  TypeOK' /\ agents \subseteq agents' /\ UNCHANGED <<dialect, members, credits>>
<1>1. PICK a \in Agents \ agents, p \in Profiles : profile' = [b \in agents \cup {a} |-> IF b = a THEN p ELSE profile[b]]
  BY DEF RegisterAgent
<1>2. DOMAIN profile' = agents \cup {a} /\ profile' \in [agents \cup {a} -> Profiles]
  BY <1>1 DEF TypeOK, agents
<1>3. writes' \in Nat /\ UNCHANGED <<dialect, swarms, members, credits, jobs>>
  BY DEF RegisterAgent, Changes, TypeOK
<1>4. agents' = agents \cup {a}
  BY <1>2 DEF agents
<1> QED BY <1>2, <1>3, <1>4 DEF TypeOK

LEMMA UpdateKeeps ==
  ASSUME TypeOK, UpdateAgent
  PROVE  TypeOK' /\ agents' = agents /\ UNCHANGED <<dialect, members, credits>>
<1>1. PICK a \in agents, p \in Profiles : profile' = [profile EXCEPT ![a] = p]
  BY DEF UpdateAgent
<1>2. agents' = agents /\ profile' \in [agents -> Profiles]
  BY <1>1 DEF TypeOK, agents
<1>3. writes' \in Nat /\ UNCHANGED <<dialect, swarms, members, credits, jobs>>
  BY DEF UpdateAgent, Changes, TypeOK
<1> QED BY <1>2, <1>3 DEF TypeOK

\* An agent leaves with every row that names it.
LEMMA DeleteKeeps ==
  ASSUME TypeOK, DeleteAgent
  PROVE  /\ TypeOK' /\ dialect' = dialect
         /\ \E a \in agents :
              /\ agents' = agents \ {a}
              /\ members' = {m \in members : m.agent # a}
              /\ credits' = credits \ {a}
<1>1. PICK a \in agents :
        /\ profile' = Restrict(profile, agents \ {a})
        /\ members' = {m \in members : m.agent # a}
        /\ credits' = credits \ {a}
  BY DEF DeleteAgent
<1>2. agents' = agents \ {a} /\ profile' \in [agents \ {a} -> Profiles]
  BY <1>1 DEF TypeOK, agents, Restrict
<1>3. writes' \in Nat /\ UNCHANGED <<dialect, swarms, jobs>>
  BY DEF DeleteAgent, Changes, TypeOK
<1>4. TypeOK'
  BY <1>1, <1>2, <1>3 DEF TypeOK
<1> QED BY <1>1, <1>2, <1>3, <1>4

-----------------------------------------------------------------------------
(* The invariants *)

IInv == TypeOK /\ MembersRegistered

LEMMA InitIInv == Init => IInv
<1> SUFFICES ASSUME Init PROVE IInv
  OBVIOUS
<1>1. \A w \in Workers : jobs[w] = Idle
  BY DEF Init
<1>2. PICK S \in SUBSET Agents : profile \in [S -> Profiles]
  BY DEF Init
<1>3. TypeOK
  BY <1>2 DEF Init, TypeOK, agents, Job
<1> QED BY <1>3 DEF Init, IInv, MembersRegistered

LEMMA NextIInv == IInv /\ [Next]_vars => IInv'
<1> SUFFICES ASSUME IInv, [Next]_vars PROVE IInv'
  OBVIOUS
<1>0. TypeOK /\ MembersRegistered
  BY DEF IInv
<1>1. ASSUME TypeOK', UNCHANGED <<dialect, profile, swarms, members, credits>>
      PROVE  IInv'
  BY <1>0, <1>1 DEF IInv, MembersRegistered, agents
<1>2. ASSUME NEW w \in Workers,
             \/ propose_swarm(w) \/ create_swarm(w) \/ add_swarm_member(w)
             \/ agent_proof(w) \/ post_contribution(w)
      PROVE  IInv'
  BY <1>0, <1>1, <1>2, HandlerKeeps
<1>3. ASSUME NEW w \in Workers, Commit(w) PROVE IInv'
  <2>1. /\ TypeOK'
        /\ ForeignKeys(jobs[w].members, jobs[w].credits)
        /\ members' = members \cup jobs[w].members
        /\ credits' = credits \cup jobs[w].credits
        /\ UNCHANGED <<dialect, profile>>
    BY <1>0, <1>3, CommitWrites
  <2>2. MembersRegistered'
    BY <2>1, <1>0 DEF MembersRegistered, ForeignKeys, agents
  <2> QED BY <2>1, <2>2 DEF IInv
<1>4. ASSUME NEW w \in Workers, Drop(w) PROVE IInv'
  BY <1>0, <1>1, <1>4, DropKeeps
<1>5. CASE RegisterAgent
  BY <1>0, <1>5, RegisterKeeps DEF IInv, MembersRegistered
<1>6. CASE UpdateAgent
  BY <1>0, <1>6, UpdateKeeps DEF IInv, MembersRegistered
<1>7. CASE DeleteAgent
  <2>1. PICK a \in agents :
          /\ agents' = agents \ {a}
          /\ members' = {m \in members : m.agent # a}
          /\ credits' = credits \ {a}
    BY <1>0, <1>7, DeleteKeeps
  <2>2. TypeOK' /\ dialect' = dialect
    BY <1>0, <1>7, DeleteKeeps
  <2> QED BY <2>1, <2>2, <1>0 DEF IInv, MembersRegistered
<1>8. CASE UNCHANGED vars
  BY <1>0, <1>8 DEF vars, IInv, TypeOK, MembersRegistered, agents
<1> QED BY <1>2, <1>3, <1>4, <1>5, <1>6, <1>7, <1>8 DEF Next

LEMMA Invariant == Spec => []IInv
  BY InitIInv, NextIInv, PTL DEF Spec

-----------------------------------------------------------------------------

\* Agents, swarms, members, contributions and jobs keep their shape.
THEOREM TypesCorrect == Spec => []TypeOK
<1>1. IInv => TypeOK
  BY DEF IInv
<1> QED BY <1>1, Invariant, PTL

\* On Postgres no member and no contribution outlives its agent, whenever the
\* request that adds it commits.
THEOREM MembersAreRegistered == Spec => []MembersRegistered
<1>1. IInv => MembersRegistered
  BY DEF IInv
<1> QED BY <1>1, Invariant, PTL

\* Only the commit of a request that found the agent before it was deleted
\* leaves a row of an agent that is not registered.
THEOREM OthersLeaveNothing == Spec => OnlyLateWritesDangle
<1> DEFINE Late(a) == \E w \in Workers :
                        /\ Commit(w)
                        /\ a \in {m.agent : m \in jobs[w].members} \cup jobs[w].credits
                        /\ a \notin agents
           Kept == \A a \in Dangling' \ Dangling : Late(a)
<1>1. ASSUME TypeOK, [Next]_vars PROVE [Kept]_vars
  <2>1. ASSUME agents \subseteq agents', UNCHANGED <<members, credits>> PROVE Kept
    BY <2>1 DEF Dangling
  <2>2. ASSUME NEW w \in Workers,
               \/ propose_swarm(w) \/ create_swarm(w) \/ add_swarm_member(w)
               \/ agent_proof(w) \/ post_contribution(w) \/ Drop(w)
        PROVE  Kept
    <3>1. UNCHANGED <<profile, members, credits>>
      BY <1>1, <2>2, HandlerKeeps, DropKeeps
    <3> QED BY <3>1, <2>1 DEF agents
  <2>3. ASSUME NEW w \in Workers, Commit(w) PROVE Kept
    <3>1. /\ members' = members \cup jobs[w].members
          /\ credits' = credits \cup jobs[w].credits
          /\ agents' = agents
      BY <1>1, <2>3, CommitWrites DEF agents
    <3> SUFFICES ASSUME NEW a \in Dangling' \ Dangling PROVE Late(a)
      OBVIOUS
    <3>2. a \notin agents
      BY <3>1 DEF Dangling
    <3>3. a \in {m.agent : m \in jobs[w].members} \cup jobs[w].credits
      BY <3>1, <3>2 DEF Dangling
    <3> QED BY <2>3, <3>2, <3>3
  <2>4. CASE RegisterAgent
    BY <1>1, <2>1, <2>4, RegisterKeeps
  <2>5. CASE UpdateAgent
    BY <1>1, <2>1, <2>5, UpdateKeeps
  <2>6. CASE DeleteAgent
    <3>1. PICK a \in agents :
            /\ agents' = agents \ {a}
            /\ members' = {m \in members : m.agent # a}
            /\ credits' = credits \ {a}
      BY <1>1, <2>6, DeleteKeeps
    <3>2. Dangling' \subseteq Dangling
      BY <3>1 DEF Dangling
    <3> QED BY <3>2
  <2> QED BY <1>1, <2>2, <2>3, <2>4, <2>5, <2>6 DEF Next
<1>2. Spec => [][Kept]_vars
  BY <1>1, TypesCorrect, PTL DEF Spec
<1> QED BY <1>2 DEF OnlyLateWritesDangle

-----------------------------------------------------------------------------
(* Ranking *)

\* A set of numbers that is not empty has a smallest one.
LEMMA Smallest ==
  ASSUME NEW S \in SUBSET Nat, S # {}
  PROVE  \E m \in S : \A y \in S : m <= y
<1>. DEFINE R == OpToRel(<, Nat)
<1>1. IsWellFoundedOn(R, Nat)
  BY NatLessThanWellFounded
<1>. HIDE DEF R
<1>2. PICK m \in S : \A y \in S : ~ (<<y, m>> \in R)
  BY <1>1, WFMin
<1>3. \A y \in S : ~ (y < m)
  BY <1>2 DEF R, OpToRel
<1>. QED
  BY <1>3

\* R orders S strictly, and any two of it.
Orders(R, S) ==
  /\ \A a \in S : <<a, a>> \notin R
  /\ \A a, b, c \in S : <<a, b>> \in R /\ <<b, c>> \in R => <<a, c>> \in R
  /\ \A a, b \in S : a # b => <<a, b>> \in R \/ <<b, a>> \in R

InOrder(order, R) == \A i, j \in DOMAIN order : i < j => <<order[i], order[j]>> \in R

\* A finite set with such an order can be listed in it.
LEMMA Sorting ==
  ASSUME NEW S, IsFiniteSet(S), NEW R, Orders(R, S)
  PROVE  \E order \in SetToSeqs(S) : InOrder(order, R)
<1>0. /\ \A a \in S : <<a, a>> \notin R
      /\ \A a, b, c \in S : <<a, b>> \in R /\ <<b, c>> \in R => <<a, c>> \in R
      /\ \A a, b \in S : a # b => <<a, b>> \in R \/ <<b, a>> \in R
  BY DEF Orders
<1>. DEFINE n == Cardinality(S)
            Less(a) == {b \in S : <<b, a>> \in R}
            rank == [a \in S |-> Cardinality(Less(a)) + 1]
<1>1. n \in Nat /\ IsFiniteSet(1 .. n) /\ Cardinality(1 .. n) = n
  BY FS_CardinalityType, FS_Interval
<1>2. \A a \in S : IsFiniteSet(Less(a)) /\ Cardinality(Less(a)) \in Nat /\ Cardinality(Less(a)) < n
  <2>. SUFFICES ASSUME NEW a \in S
                PROVE  IsFiniteSet(Less(a)) /\ Cardinality(Less(a)) \in Nat /\ Cardinality(Less(a)) < n
    OBVIOUS
  <2>. HIDE DEF n
  <2>1. Less(a) \in SUBSET S /\ a \notin Less(a)
    BY <1>0
  <2>. DEFINE L == Less(a)
  <2>2. L \in SUBSET S /\ L # S
    BY <2>1
  <2>. HIDE DEF L
  <2>3. IsFiniteSet(L) /\ Cardinality(L) <= n /\ Cardinality(L) # n
    BY <2>2, FS_Subset DEF n
  <2>4. Cardinality(L) \in Nat
    BY <2>3, FS_CardinalityType
  <2>5. IsFiniteSet(L) /\ Cardinality(L) \in Nat /\ Cardinality(L) < n
    BY <2>3, <2>4, <1>1
  <2>. QED
    BY <2>5 DEF L
<1>3. \A a, b \in S : <<a, b>> \in R => rank[a] < rank[b]
  <2>. SUFFICES ASSUME NEW a \in S, NEW b \in S, <<a, b>> \in R PROVE rank[a] < rank[b]
    OBVIOUS
  <2>. DEFINE L == Less(a)
              M == Less(b)
  <2>1. L \subseteq M /\ a \in M /\ a \notin L
    BY <1>0
  <2>2. IsFiniteSet(M) /\ Cardinality(L) \in Nat /\ Cardinality(M) \in Nat
    BY <1>2
  <2>3. rank[a] = Cardinality(L) + 1 /\ rank[b] = Cardinality(M) + 1
    OBVIOUS
  <2>. HIDE DEF L, M, rank
  <2>4. Cardinality(L) <= Cardinality(M) /\ Cardinality(M) # Cardinality(L)
    BY <2>1, <2>2, FS_Subset
  <2>. QED
    BY <2>2, <2>3, <2>4
<1>4. \A a \in S : rank[a] \in 1 .. n
  <2>. SUFFICES ASSUME NEW a \in S PROVE rank[a] \in 1 .. n
    OBVIOUS
  <2>. DEFINE size == Cardinality(Less(a))
  <2>1. size \in Nat /\ size < n /\ rank[a] = size + 1
    BY <1>2
  <2>. HIDE DEF size, rank, n
  <2>. QED
    BY <1>1, <2>1
<1>4a. rank \in [S -> 1 .. n]
  BY <1>4
<1>. HIDE DEF n, rank
<1>5. \A a, b \in S : rank[a] = rank[b] => a = b
  <2>. SUFFICES ASSUME NEW a \in S, NEW b \in S, rank[a] = rank[b], a # b PROVE FALSE
    OBVIOUS
  <2>1. rank[a] < rank[b] \/ rank[b] < rank[a]
    BY <1>0, <1>3
  <2>2. rank[a] \in Int /\ rank[b] \in Int
    BY <1>1, <1>4
  <2>. QED
    BY <2>1, <2>2
<1>6. rank \in Injection(S, 1 .. n)
  BY <1>4a, <1>5 DEF Injection, IsInjective
<1>7. rank \in Surjection(S, 1 .. n)
  BY <1>1, <1>6, FS_Injection DEF n
<1>8. \A i \in 1 .. n : \E a \in S : rank[a] = i
  BY <1>7 DEF Surjection
<1>. DEFINE order == [i \in 1 .. n |-> CHOOSE a \in S : rank[a] = i]
<1>9. \A i \in 1 .. n : order[i] \in S /\ rank[order[i]] = i
  BY <1>8
<1>10. order \in [1 .. n -> S] /\ DOMAIN order = 1 .. n
  BY <1>9
<1>. HIDE DEF order
<1>11. \A i, j \in 1 .. n : i # j => order[i] # order[j]
  BY <1>9
<1>12. order \in SetToSeqs(S)
  BY <1>10, <1>11 DEF SetToSeqs, n
<1>13. \A i, j \in 1 .. n : i < j => <<order[i], order[j]>> \in R
  <2>. SUFFICES ASSUME NEW i \in 1 .. n, NEW j \in 1 .. n, i < j
                PROVE  <<order[i], order[j]>> \in R
    OBVIOUS
  <2>1. i \in Int /\ j \in Int /\ order[i] # order[j] /\ ~ (rank[order[j]] < rank[order[i]])
    BY <1>1, <1>9, <1>11
  <2>. QED
    BY <1>0, <2>1, <1>3, <1>9
<1>. QED
  BY <1>10, <1>12, <1>13 DEF InOrder

\* A listing names everybody, and nobody twice.
LEMMA ListingNames ==
  ASSUME NEW S, IsFiniteSet(S), NEW order \in SetToSeqs(S)
  PROVE  /\ Len(order) = Cardinality(S) /\ Len(order) \in Nat
         /\ DOMAIN order = 1 .. Len(order)
         /\ \A i \in 1 .. Len(order) : order[i] \in S
         /\ \A i, j \in 1 .. Len(order) : i # j => order[i] # order[j]
         /\ \A a \in S : \E i \in 1 .. Len(order) : order[i] = a
<1>. DEFINE n == Cardinality(S)
<1>1. n \in Nat /\ IsFiniteSet(1 .. n) /\ Cardinality(1 .. n) = n
  BY FS_CardinalityType, FS_Interval
<1>2. order \in [1 .. n -> S] /\ \A i, j \in 1 .. n : i # j => order[i] # order[j]
  BY DEF SetToSeqs
<1>. HIDE DEF n
<1>3. Len(order) = n /\ DOMAIN order = 1 .. n
  BY <1>1, <1>2
<1>4. order \in Injection(1 .. n, S)
  BY <1>2 DEF Injection, IsInjective
<1>5. Cardinality(1 .. n) = Cardinality(S)
  BY <1>1 DEF n
<1>6. order \in Surjection(1 .. n, S)
  BY <1>4, <1>5, FS_Injection
<1>7. \A a \in S : \E i \in 1 .. n : order[i] = a
  BY <1>6 DEF Surjection
<1>. QED
  BY <1>1, <1>2, <1>3, <1>7 DEF n

\* Points are numbers.
LEMMA PointsAreNumbers ==
  ASSUME TypeOK, NEW wanted \in (SUBSET Caps) \ {{}}, NEW protocol, NEW a \in agents
  PROVE  score_agent(a, wanted, protocol) \in Nat
<1>1. /\ IsFiniteSet(wanted) /\ Cardinality(wanted) \in Nat /\ Cardinality(wanted) # 0
      /\ Cardinality(Matched(a, wanted)) \in Nat
  <2>1. IsFiniteSet(wanted) /\ wanted # {}
    BY SwarmAssumption, FS_Subset
  <2>2. IsFiniteSet(Matched(a, wanted))
    BY <2>1, FS_Intersection DEF Matched
  <2>. QED
    BY <2>1, <2>2, FS_CardinalityType, FS_EmptySet
<1>. DEFINE m == Cardinality(Matched(a, wanted))
            k == Cardinality(wanted)
<1>2. CapabilityPoints(a, wanted) \in Nat
  <2>1. CapabilityPoints(a, wanted) = (8000 * m + k) \div (2 * k)
    BY DEF CapabilityPoints
  <2>2. m \in Nat /\ k \in Nat /\ k > 0
    BY <1>1
  <2>. HIDE DEF m, k
  <2>3. 8000 * m + k \in Nat /\ 2 * k \in Nat /\ 2 * k > 0
    BY <2>2
  <2>4. \A x \in Nat, y \in Nat : y > 0 => x \div y \in Nat
    OBVIOUS
  <2>. QED
    BY <2>1, <2>3, <2>4
<1>3. profile[a].status \in DOMAIN AVAILABILITY_POINTS
      /\ profile[a].verification \in DOMAIN VERIFICATION_POINTS
  BY ProfileAssumption DEF TypeOK
<1>4. AVAILABILITY_POINTS[profile[a].status] \in Nat
  BY <1>3 DEF AVAILABILITY_POINTS
<1>5. VERIFICATION_POINTS[profile[a].verification] \in Nat
  BY <1>3 DEF VERIFICATION_POINTS
<1>. QED
  BY <1>2, <1>4, <1>5 DEF score_agent

\* The list assembly walks down: all of S, each once, in the order of the ranks.
LEMMA Ranking ==
  ASSUME TypeOK, NEW wanted \in (SUBSET Caps) \ {{}}, NEW protocol, NEW S \in SUBSET agents
  PROVE  LET order == rank_agents(S, wanted, protocol) IN
         /\ order \in SetToSeqs(S)
         /\ \A i, j \in DOMAIN order : i < j => Before(order[i], order[j], wanted, protocol)
<1>. DEFINE P(a) == score_agent(a, wanted, protocol)
            R == {r \in S \X S : Before(r[1], r[2], wanted, protocol)}
<1>1. S \subseteq Nat /\ IsFiniteSet(S)
  BY SwarmAssumption, FS_Subset DEF TypeOK
<1>2. \A a \in S : P(a) \in Nat
  BY PointsAreNumbers
<1>3. \A a, b \in S : <<a, b>> \in R <=> P(a) > P(b) \/ (P(a) = P(b) /\ a < b)
  BY DEF Before
<1>. HIDE DEF P, R
<1>4. Orders(R, S)
  BY <1>1, <1>2, <1>3 DEF Orders
<1>5. IsFiniteSet(S)
  BY <1>1
<1>7. \E order \in SetToSeqs(S) : InOrder(order, R)
  BY <1>4, <1>5, Sorting
<1>8. \A a, b : <<a, b>> \in R => Before(a, b, wanted, protocol)
  BY DEF R
<1>9. \E order \in SetToSeqs(S) :
        \A i, j \in DOMAIN order : i < j => Before(order[i], order[j], wanted, protocol)
  BY <1>7, <1>8 DEF InOrder
<1>. QED
  BY <1>9 DEF rank_agents

\* Nobody ranks before somebody who ranks before them.
LEMMA RanksDiffer ==
  ASSUME TypeOK, NEW wanted \in (SUBSET Caps) \ {{}}, NEW protocol,
         NEW a \in agents, NEW b \in agents, Before(a, b, wanted, protocol)
  PROVE  ~Before(b, a, wanted, protocol)
<1>. DEFINE p == score_agent(a, wanted, protocol)
            q == score_agent(b, wanted, protocol)
<1>1. p \in Nat /\ q \in Nat /\ a \in Nat /\ b \in Nat
  BY PointsAreNumbers, SwarmAssumption DEF TypeOK
<1>2. p > q \/ (p = q /\ a < b)
  BY DEF Before
<1>. HIDE DEF p, q
<1>3. ~ (q > p \/ (q = p /\ b < a))
  BY <1>1, <1>2
<1>. QED
  BY <1>3 DEF Before, p, q

-----------------------------------------------------------------------------
(* Assembly *)

\* What the first i of the list match together.
CoveredBy(ranked, wanted, i) == UNION {Matched(ranked[k], wanted) : k \in 1 .. i}

\* Those are executing who add to what the ones before them match.
LEMMA Adding ==
  ASSUME NEW ranked, Len(ranked) \in Nat, NEW wanted
  PROVE  Executing(ranked, wanted) =
           {ranked[j] : j \in {k \in 1 .. Len(ranked) :
              ~(Matched(ranked[k], wanted) \subseteq CoveredBy(ranked, wanted, k - 1))}}
<1>. DEFINE n == Len(ranked)
            C(i) == CoveredBy(ranked, wanted, i)
            M(i) == Matched(ranked[i], wanted)
            Step(f) == [i \in 0 .. n |-> IF i = 0 THEN {} ELSE f[i - 1] \cup M(i)]
            covered == CHOOSE f : f = Step(f)
            sums == [i \in 0 .. n |-> C(i)]
<1>1. C(0) = {} /\ \A i \in 1 .. n : C(i) = C(i - 1) \cup M(i)
  <2>1. 1 .. 0 = {}
    OBVIOUS
  <2>2. \A i \in 1 .. n : 1 .. i = 1 .. i - 1 \cup {i}
    OBVIOUS
  <2>. HIDE DEF n
  <2>. QED
    BY <2>1, <2>2 DEF CoveredBy
<1>2. sums = Step(sums)
  <2>. HIDE DEF C, M
  <2>1. \A i \in 0 .. n : C(i) = IF i = 0 THEN {} ELSE sums[i - 1] \cup M(i)
    BY <1>1
  <2>. QED
    BY <2>1
<1>3. covered = Step(covered)
  BY <1>2
<1>4. Executing(ranked, wanted) =
        {ranked[j] : j \in {k \in 1 .. n : ~(M(k) \subseteq covered[k - 1])}}
  BY DEF Executing
<1>. HIDE DEF C, M, covered
<1>5. covered[0] = {} /\ \A i \in 1 .. n : covered[i] = covered[i - 1] \cup M(i)
  BY <1>3
<1>6. \A i \in 0 .. n : covered[i] = C(i)
  <2>. DEFINE Bad == {i \in 0 .. n : covered[i] # C(i)}
  <2>. SUFFICES ASSUME Bad # {} PROVE FALSE
    OBVIOUS
  <2>0. Bad \in SUBSET Nat
    OBVIOUS
  <2>1. PICK m \in Bad : \A y \in Bad : m <= y
    <3>. HIDE DEF Bad
    <3>. QED
      BY <2>0, Smallest
  <2>2. m # 0 /\ m \in 1 .. n
    <3>1. m \in 0 .. n /\ covered[m] # C(m)
      OBVIOUS
    <3>2. m # 0
      BY <3>1, <1>1, <1>5
    <3>. HIDE DEF Bad, n
    <3>. QED
      BY <3>1, <3>2
  <2>3. m - 1 \in 0 .. n /\ m - 1 \notin Bad
    BY <2>1, <2>2
  <2>. QED
    BY <1>1, <1>5, <2>1, <2>2, <2>3
<1>7. \A k \in 1 .. n : covered[k - 1] = C(k - 1)
  BY <1>6
<1>8. {k \in 1 .. n : ~(M(k) \subseteq covered[k - 1])} = {k \in 1 .. n : ~(M(k) \subseteq C(k - 1))}
  BY <1>7
<1>. QED
  BY <1>4, <1>8 DEF C, M

LEMMA ExecutesFirst ==
  ASSUME TypeOK, NEW wanted \in (SUBSET Caps) \ {{}}, NEW protocol
  PROVE  Executing(Recommended(wanted, protocol), wanted) =
           {a \in Candidates(wanted) : \E c \in Matched(a, wanted) :
              \A b \in Candidates(wanted) \ {a} :
                c \in Matched(b, wanted) => Before(a, b, wanted, protocol)}
<1>. DEFINE S == Candidates(wanted)
            ranked == Recommended(wanted, protocol)
            n == Len(ranked)
            First(a) == \E c \in Matched(a, wanted) : \A b \in S \ {a} :
                          c \in Matched(b, wanted) => Before(a, b, wanted, protocol)
            Adds(k) == ~(Matched(ranked[k], wanted) \subseteq CoveredBy(ranked, wanted, k - 1))
<1>1. S \in SUBSET agents /\ IsFiniteSet(S)
  BY SwarmAssumption, FS_Subset DEF TypeOK, Candidates, Matching
<1>2. /\ ranked \in SetToSeqs(S)
      /\ \A i, j \in DOMAIN ranked : i < j => Before(ranked[i], ranked[j], wanted, protocol)
  <2>1. ranked = rank_agents(S, wanted, protocol)
    BY DEF Recommended
  <2>. HIDE DEF S, ranked
  <2>. QED
    BY <1>1, <2>1, Ranking
<1>3. /\ n \in Nat /\ DOMAIN ranked = 1 .. n
      /\ \A i \in 1 .. n : ranked[i] \in S
      /\ \A i, j \in 1 .. n : i # j => ranked[i] # ranked[j]
      /\ \A a \in S : \E i \in 1 .. n : ranked[i] = a
  <2>. HIDE DEF S, ranked
  <2>. QED
    BY <1>1, <1>2, ListingNames
<1>4. Executing(ranked, wanted) = {ranked[j] : j \in {k \in 1 .. n : Adds(k)}}
  <2>. HIDE DEF ranked
  <2>. QED
    BY <1>3, Adding
<1>5. ASSUME NEW k \in 1 .. n
      PROVE  Adds(k) <=> First(ranked[k])
  <2>. DEFINE a == ranked[k]
  <2>0. k - 1 \in Nat /\ k - 1 <= n
    BY <1>3
  <2>. HIDE DEF S, ranked, n
  <2>1. ASSUME Adds(k) PROVE First(a)
    <3>1. PICK c \in Matched(a, wanted) : c \notin CoveredBy(ranked, wanted, k - 1)
      BY <2>1
    <3>2. \A i \in 1 .. k - 1 : c \notin Matched(ranked[i], wanted)
      BY <3>1 DEF CoveredBy
    <3>3. ASSUME NEW b \in S \ {a}, c \in Matched(b, wanted)
          PROVE  Before(a, b, wanted, protocol)
      <4>1. PICK i \in 1 .. n : ranked[i] = b
        BY <1>3
      <4>2. i # k /\ i \notin 1 .. k - 1
        BY <3>2, <3>3, <4>1
      <4>3. k < i
        BY <4>2, <1>3
      <4>. QED
        BY <1>2, <1>3, <4>1, <4>3
    <3>. QED
      BY <3>3
  <2>2. ASSUME First(a) PROVE Adds(k)
    <3>1. PICK c \in Matched(a, wanted) : \A b \in S \ {a} :
            c \in Matched(b, wanted) => Before(a, b, wanted, protocol)
      BY <2>2
    <3>2. ASSUME c \in CoveredBy(ranked, wanted, k - 1) PROVE FALSE
      <4>1. PICK i \in 1 .. k - 1 : c \in Matched(ranked[i], wanted)
        BY <3>2 DEF CoveredBy
      <4>2. i \in 1 .. n /\ i < k /\ i # k
        BY <1>3
      <4>3. ranked[i] \in S \ {a} /\ Before(ranked[i], a, wanted, protocol)
        BY <1>2, <1>3, <4>2
      <4>4. Before(a, ranked[i], wanted, protocol)
        BY <3>1, <4>1, <4>3
      <4>5. a \in agents /\ ranked[i] \in agents
        BY <1>1, <1>3, <4>2
      <4>. QED
        BY <4>3, <4>4, <4>5, RanksDiffer
    <3>. QED
      BY <3>1, <3>2
  <2>. QED
    BY <2>1, <2>2
<1>. HIDE DEF S, ranked, Adds, First, n
<1>6. {ranked[j] : j \in {k \in 1 .. n : Adds(k)}} = {a \in S : First(a)}
  BY <1>3, <1>5
<1>. QED
  BY <1>4, <1>6 DEF S, ranked, First

\* Whoever is executing an assembled swarm offers a wanted capability before every other
\* candidate that offers it, and whoever does is executing, for any agents,
\* profiles, wanted capabilities and protocols.
THEOREM AssemblyTakesTheFirst == Spec => []ExecutesWithTheFirst
<1>1. TypeOK => ExecutesWithTheFirst
  BY ExecutesFirst DEF ExecutesWithTheFirst
<1> QED BY <1>1, TypesCorrect, PTL

\* The executing agents match together what all candidates match.
CoversAll ==
  \A wanted \in (SUBSET Caps) \ {{}}, protocol \in {{}, {"http"}} :
    \A b \in Candidates(wanted) : \A c \in Matched(b, wanted) :
      \E a \in Executing(Recommended(wanted, protocol), wanted) : c \in Matched(a, wanted)

LEMMA CoverComplete ==
  ASSUME TypeOK, NEW wanted \in (SUBSET Caps) \ {{}}, NEW protocol,
         NEW b \in Candidates(wanted), NEW c \in Matched(b, wanted)
  PROVE  \E a \in Executing(Recommended(wanted, protocol), wanted) : c \in Matched(a, wanted)
<1>. DEFINE S == Candidates(wanted)
            ranked == Recommended(wanted, protocol)
            n == Len(ranked)
            At == {i \in 1 .. n : c \in Matched(ranked[i], wanted)}
<1>1. S \in SUBSET agents /\ IsFiniteSet(S)
  BY SwarmAssumption, FS_Subset DEF TypeOK, Candidates, Matching
<1>2. ranked \in SetToSeqs(S)
  <2>1. ranked = rank_agents(S, wanted, protocol)
    BY DEF Recommended
  <2>. HIDE DEF S, ranked
  <2>. QED
    BY <1>1, <2>1, Ranking
<1>3. n \in Nat /\ \A a \in S : \E i \in 1 .. n : ranked[i] = a
  <2>. HIDE DEF S, ranked
  <2>. QED
    BY <1>1, <1>2, ListingNames
<1>4. Executing(ranked, wanted) =
        {ranked[j] : j \in {k \in 1 .. n :
           ~(Matched(ranked[k], wanted) \subseteq CoveredBy(ranked, wanted, k - 1))}}
  <2>. HIDE DEF ranked
  <2>. QED
    BY <1>3, Adding
<1>. HIDE DEF S, ranked, n
<1>5. At \in SUBSET Nat /\ At # {}
  BY <1>3 DEF S
<1>6. PICK m \in At : \A y \in At : m <= y
  <2>. HIDE DEF At
  <2>. QED
    BY <1>5, Smallest
<1>7. m \in 1 .. n /\ c \in Matched(ranked[m], wanted)
  OBVIOUS
<1>8. c \notin CoveredBy(ranked, wanted, m - 1)
  <2>. SUFFICES ASSUME NEW i \in 1 .. m - 1, c \in Matched(ranked[i], wanted) PROVE FALSE
    BY DEF CoveredBy
  <2>1. i \in At /\ i < m
    BY <1>3, <1>7
  <2>2. i \in Nat /\ m \in Nat
    BY <1>3, <1>7
  <2>. QED
    BY <1>6, <2>1, <2>2
<1>9. ranked[m] \in Executing(ranked, wanted)
  BY <1>4, <1>7, <1>8
<1>. QED
  BY <1>7, <1>9 DEF ranked

\* However greedily it is picked, what is executing is "one covering set"
\* (assemble_swarm): it offers every wanted capability that any candidate offers.
THEOREM AssemblyCoversAll == Spec => []CoversAll
<1>1. TypeOK => CoversAll
  BY CoverComplete DEF CoversAll
<1> QED BY <1>1, TypesCorrect, PTL
=============================================================================
