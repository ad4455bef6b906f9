--------------------------- MODULE Credence_proof ---------------------------
(***************************************************************************)
(* Proofs about Credence, for any number of agents, capabilities, threads, *)
(* records, replacements and deletions.                                    *)
(***************************************************************************)
EXTENDS Credence, SequenceTheorems, FiniteSetTheorems, NaturalsInduction, TLAPS

-----------------------------------------------------------------------------
(* Sets and sequences *)

\* A bounded set of numbers has a largest one.
LEMMA MaxIs ==
  ASSUME NEW S \in SUBSET Nat, S # {}, NEW b \in Nat, \A s \in S : s <= b
  PROVE  Max(S) \in S /\ \A s \in S : s <= Max(S)
<1>. DEFINE T == {n \in Nat : \A s \in S : s <= n}
<1>1. PICK m \in T : \A y \in T : ~ (y < m)
  <2>1. b \in T /\ T \subseteq Nat
    OBVIOUS
  <2>2. \E m \in T : \A y \in T : <<y, m>> \notin OpToRel(<, Nat)
    <3>. DEFINE R == OpToRel(<, Nat)
    <3>1. IsWellFoundedOn(R, Nat)
      BY NatLessThanWellFounded
    <3>. HIDE DEF T, R
    <3>2. \E m \in T : \A y \in T : ~ (<<y, m>> \in R)
      BY <2>1, <3>1, WFMin
    <3>. QED
      BY <3>2 DEF R
  <2>. QED
    BY <2>1, <2>2 DEF OpToRel
<1>2. m \in S
  <2>1. SUFFICES ASSUME m \notin S PROVE FALSE
    OBVIOUS
  <2>2. \A s \in S : s <= m /\ s # m /\ s \in Nat
    BY <2>1
  <2>. PICK x \in S : TRUE
    OBVIOUS
  <2>3. m \in Nat /\ x \in Nat /\ x <= m /\ x # m
    BY <2>2
  <2>4. m > 0 /\ m - 1 \in Nat
    BY <2>3
  <2>5. m - 1 \in T
    <3>1. \A s \in S : s <= m - 1
      BY <2>2, <2>3
    <3>. QED
      BY <2>4, <3>1
  <2>. QED
    BY <1>1, <2>3, <2>4, <2>5
<1>3. \E x \in S : \A y \in S : x >= y
  BY <1>2
<1>. QED
  BY <1>3 DEF Max

LEMMA NoneToSeq == SetToSeq({}) = <<>>
<1>1. Cardinality({}) = 0
  BY FS_EmptySet
<1>2. <<>> \in [1..0 -> {}] /\ IsInjective(<<>>)
  BY DEF IsInjective
<1>3. SetToSeq({}) \in [1..0 -> {}]
  BY <1>1, <1>2 DEF SetToSeq
<1>. QED
  BY <1>3

LEMMA OneToSeq == \A r : SetToSeq({r}) = <<r>>
<1>. SUFFICES ASSUME NEW r PROVE SetToSeq({r}) = <<r>>
  OBVIOUS
<1>1. Cardinality({r}) = 1
  BY FS_Singleton
<1>2. <<r>> \in [1..1 -> {r}] /\ IsInjective(<<r>>)
  BY DEF IsInjective
<1>3. SetToSeq({r}) \in [1..1 -> {r}]
  BY <1>1, <1>2 DEF SetToSeq
<1>. QED
  BY <1>3

\* A client's list of claims names a capability once.
LEMMA ListShape ==
  ASSUME NEW values \in SUBSET Evidence, NEW list \in ClaimLists(values)
  PROVE  /\ list \in Seq([cap : Caps, evidence : Evidence])
         /\ \A i, j \in DOMAIN list : list[i].cap = list[j].cap => i = j
<1>1. PICK caps \in SUBSET Caps :
        \E order \in SetToSeqs(caps), e \in [caps -> values] :
          list = [i \in DOMAIN order |-> [cap |-> order[i], evidence |-> e[order[i]]]]
  BY DEF ClaimLists
<1>2. PICK order \in SetToSeqs(caps), e \in [caps -> values] :
        list = [i \in DOMAIN order |-> [cap |-> order[i], evidence |-> e[order[i]]]]
  BY <1>1
<1>3. Cardinality(caps) \in Nat
  BY CredenceAssumption, FS_Subset, FS_CardinalityType
<1>. DEFINE n == Cardinality(caps)
<1>4. /\ order \in [1 .. n -> caps]
      /\ \A i, j \in 1 .. n : i # j => order[i] # order[j]
  BY DEF SetToSeqs
<1>. HIDE DEF n
<1>5. DOMAIN list = 1 .. n
  BY <1>2, <1>4
<1>6. \A i \in 1 .. n : list[i] = [cap |-> order[i], evidence |-> e[order[i]]]
  BY <1>2, <1>4
<1>7. \A i \in 1 .. n : list[i] \in [cap : Caps, evidence : Evidence] /\ list[i].cap = order[i]
  <2>. SUFFICES ASSUME NEW i \in 1 .. n
                PROVE  list[i] \in [cap : Caps, evidence : Evidence] /\ list[i].cap = order[i]
    OBVIOUS
  <2>1. order[i] \in Caps /\ e[order[i]] \in values /\ e[order[i]] \in Evidence
    BY <1>4
  <2>. DEFINE x == order[i]
              y == e[x]
  <2>2. list[i] = [cap |-> x, evidence |-> y] /\ x \in Caps /\ y \in values /\ y \in Evidence
    BY <1>6, <2>1
  <2>. HIDE DEF x, y
  <2>3. list[i].cap = x /\ list[i] \in [cap : Caps, evidence : Evidence]
    BY <2>2
  <2>. QED
    BY <2>2, <2>3 DEF x
<1>8. list \in [1 .. n -> [cap : Caps, evidence : Evidence]]
  <2>1. list = [i \in 1 .. n |-> list[i]]
    BY <1>2, <1>5
  <2>. QED
    BY <1>7, <2>1
<1>9. n \in Nat
  BY <1>3 DEF n
<1>10. list \in Seq([cap : Caps, evidence : Evidence])
  <2>. DEFINE C == [cap : Caps, evidence : Evidence]
  <2>1. list \in [1 .. n -> C]
    BY <1>8
  <2>. HIDE DEF C
  <2>2. list \in Seq(C)
    BY <1>9, <2>1
  <2>. QED
    BY <2>2 DEF C
<1>11. \A i, j \in DOMAIN list : list[i].cap = list[j].cap => i = j
  BY <1>4, <1>5, <1>7
<1>. QED
  BY <1>10, <1>11

-----------------------------------------------------------------------------
(* The rows of claims *)

\* No row has a number above those drawn.
Numbered == \A c \in claims : c.id <= serial

\* What is deleted has no claims.
Owned == \A c \in claims : status[c.agent] # "absent"

ClaimValue == [cap : Caps, evidence : Evidence]

\* New rows are numbered from one number on, above those that remain.
LEMMA InsertedFrom ==
  ASSUME TypeOK, Numbered, NEW a \in Agents, NEW list, NEW rows \in SUBSET claims
  PROVE  \E last \in 0 .. serial :
           /\ Postgres => last = serial
           /\ \A c \in rows : c.id <= last
           /\ Inserted(a, list, rows) =
                {Row(last + i, a, list[i]) : i \in DOMAIN list}
<1>. DEFINE S == {c.id : c \in rows} \cup {0}
            last == IF Postgres THEN serial ELSE Max(S)
<1>1. serial \in Nat /\ \A c \in rows : c.id \in Nat /\ c.id <= serial
  BY DEF TypeOK, Claim, Numbered
<1>2. S \in SUBSET Nat /\ S # {} /\ \A x \in S : x <= serial
  BY <1>1
<1>3. Max(S) \in S /\ \A x \in S : x <= Max(S)
  <2>. HIDE DEF S
  <2>. QED
    BY <1>1, <1>2, MaxIs
<1>4. last \in 0 .. serial /\ (Postgres => last = serial) /\ \A c \in rows : c.id <= last
  <2>1. \A c \in rows : c.id \in S
    OBVIOUS
  <2>. DEFINE m == Max(S)
  <2>2. m \in Nat /\ m <= serial /\ \A c \in rows : c.id <= m
    <3>. HIDE DEF S
    <3>. QED
      BY <1>2, <1>3, <2>1
  <2>. HIDE DEF m, S
  <2>3. CASE Postgres
    BY <1>1, <2>3
  <2>4. CASE ~Postgres
    <3>1. last = m
      BY <2>4 DEF m
    <3>. QED
      BY <1>1, <2>2, <2>4, <3>1
  <2>. QED
    BY <2>3, <2>4
<1>5. Inserted(a, list, rows) =
        {Row(last + i, a, list[i]) : i \in DOMAIN list}
  BY DEF Inserted
<1>. HIDE DEF last
<1>. QED
  BY <1>4, <1>5

LEMMA InsertedRows ==
  ASSUME TypeOK, Numbered, NEW a \in Agents, NEW list \in Seq(ClaimValue),
         NEW rows \in SUBSET claims
  PROVE  LET new == Inserted(a, list, rows) IN
         /\ new \subseteq Claim
         /\ \A d \in new :
              /\ d.agent = a /\ d.id <= serial + Len(list)
              /\ Postgres => d.id > serial
              /\ \A c \in rows : c.id # d.id
              /\ \E i \in DOMAIN list : d.cap = list[i].cap /\ d.evidence = list[i].evidence
              /\ d.sent = d.evidence
         /\ \A d, e \in new : d.id = e.id => d = e
         /\ (\A i, j \in DOMAIN list : list[i].cap = list[j].cap => i = j) =>
              \A d, e \in new : d.cap = e.cap => d = e
<1>. DEFINE new == Inserted(a, list, rows)
<1>1. PICK last \in 0 .. serial :
        /\ Postgres => last = serial
        /\ \A c \in rows : c.id <= last
        /\ new = {Row(last + i, a, list[i]) : i \in DOMAIN list}
  BY InsertedFrom
<1>2. /\ serial \in Nat /\ last \in Nat /\ last <= serial /\ DOMAIN list = 1 .. Len(list)
      /\ Len(list) \in Nat /\ \A c \in rows : c.id \in Nat
  BY DEF TypeOK, Claim
<1>3. \A i \in DOMAIN list :
        list[i] \in ClaimValue /\ list[i].cap \in Caps /\ list[i].evidence \in Evidence
  <2>1. \A i \in DOMAIN list : list[i] \in ClaimValue
    OBVIOUS
  <2>. QED
    BY <2>1 DEF ClaimValue
<1>. DEFINE At(d, i) == /\ d.id = last + i /\ d.agent = a
                        /\ d.cap = list[i].cap /\ d.evidence = list[i].evidence
                        /\ d.sent = list[i].evidence /\ d \in Claim
<1>. HIDE DEF new
<1>4. \A d \in new : \E i \in DOMAIN list : At(d, i)
  <2>. SUFFICES ASSUME NEW d \in new PROVE \E i \in DOMAIN list : At(d, i)
    OBVIOUS
  <2>1. PICK i \in DOMAIN list :
          d = Row(last + i, a, list[i])
    BY <1>1
  <2>2. last + i \in Nat /\ list[i].cap \in Caps /\ list[i].evidence \in Evidence
    BY <1>2, <1>3
  <2>3. At(d, i)
    BY <2>1, <2>2 DEF Row, Claim
  <2>. QED
    BY <2>3
<1>5. \A d, e \in new, i, j \in DOMAIN list : At(d, i) /\ At(e, j) /\ i = j => d = e
  BY DEF Claim
<1>6. \A d \in new, i \in DOMAIN list :
        At(d, i) => /\ d.id > last /\ d.id <= serial + Len(list)
                    /\ \A c \in rows : c.id # d.id
  <2>. SUFFICES ASSUME NEW d \in new, NEW i \in DOMAIN list, At(d, i)
                PROVE  /\ d.id > last /\ d.id <= serial + Len(list)
                       /\ \A c \in rows : c.id # d.id
    OBVIOUS
  <2>1. i \in 1 .. Len(list) /\ d.id = last + i
    BY <1>2
  <2>. QED
    BY <1>1, <1>2, <2>1
<1>7. \A d, e \in new : d.id = e.id => d = e
  <2>. SUFFICES ASSUME NEW d \in new, NEW e \in new, d.id = e.id PROVE d = e
    OBVIOUS
  <2>1. PICK i \in DOMAIN list : At(d, i)
    BY <1>4
  <2>2. PICK j \in DOMAIN list : At(e, j)
    BY <1>4
  <2>3. i \in Nat /\ j \in Nat /\ last + i = last + j
    <3>1. i \in 1 .. Len(list) /\ j \in 1 .. Len(list)
      BY <1>2
    <3>2. last + i = last + j
      <4>1. d.id = last + i /\ e.id = last + j
        BY <2>1, <2>2
      <4>. QED
        BY <4>1
    <3>. QED
      BY <3>1, <3>2
  <2>4. i = j
    BY <1>2, <2>3
  <2>. QED
    BY <1>5, <2>1, <2>2, <2>4
<1>8. ASSUME \A i, j \in DOMAIN list : list[i].cap = list[j].cap => i = j,
             NEW d \in new, NEW e \in new, d.cap = e.cap
      PROVE  d = e
  <2>1. PICK i \in DOMAIN list : At(d, i)
    BY <1>4
  <2>2. PICK j \in DOMAIN list : At(e, j)
    BY <1>4
  <2>3. i = j
    BY <1>8, <2>1, <2>2
  <2>. QED
    BY <1>5, <2>1, <2>2, <2>3
<1>9. \A d \in new :
        /\ d \in Claim /\ d.agent = a /\ d.id <= serial + Len(list)
        /\ Postgres => d.id > serial
        /\ \A c \in rows : c.id # d.id
        /\ \E i \in DOMAIN list : d.cap = list[i].cap /\ d.evidence = list[i].evidence
        /\ d.sent = d.evidence
  BY <1>1, <1>4, <1>6
<1>. QED
  BY <1>7, <1>8, <1>9 DEF new

\* The rows a transaction leaves alone or changes, and those it inserts.
Remaining(p) == {c \in claims : c.id \notin p.deleted}

Same(d, c) == d.id = c.id /\ d.agent = c.agent /\ d.cap = c.cap /\ d.sent = c.sent

LEMMA WrittenRows ==
  ASSUME TypeOK, NEW p \in WriteSet, NEW d \in Written(p)
  PROVE  \/ d \in Inserted(p.agent, p.inserted, Remaining(p))
         \/ /\ d \in Claim
            /\ \E c \in Remaining(p) :
                 /\ Same(d, c)
                 /\ d = c \/ \E u \in p.changed : u.id = c.id /\ d.evidence = u.evidence
<1>. DEFINE fresh(c) == {u \in p.changed : u.id = c.id}
            value(c) == IF fresh(c) = {} THEN c.evidence
                        ELSE (CHOOSE u \in fresh(c) : TRUE).evidence
<1>. SUFFICES ASSUME d \notin Inserted(p.agent, p.inserted, Remaining(p))
              PROVE  /\ d \in Claim
                     /\ \E c \in Remaining(p) :
                          /\ Same(d, c)
                          /\ d = c \/ \E u \in p.changed : u.id = c.id /\ d.evidence = u.evidence
  OBVIOUS
<1>1. d \in {[c EXCEPT !.evidence = IF fresh(c) = {} THEN @ ELSE (CHOOSE u \in fresh(c) : TRUE).evidence] :
               c \in Remaining(p)}
  BY DEF Written, Remaining
<1>2. PICK c \in Remaining(p) :
        d = [c EXCEPT !.evidence = IF fresh(c) = {} THEN @ ELSE (CHOOSE u \in fresh(c) : TRUE).evidence]
  BY <1>1
<1>3. c \in Claim
  BY DEF Remaining, TypeOK
<1>4. CASE fresh(c) = {}
  <2>1. d = c
    BY <1>2, <1>3, <1>4 DEF Claim
  <2>. QED
    BY <1>3, <2>1 DEF Same
<1>5. CASE fresh(c) # {}
  <2>. DEFINE u == CHOOSE x \in fresh(c) : TRUE
  <2>1. u \in p.changed /\ u.id = c.id
    BY <1>5
  <2>2. u.evidence \in Evidence
    BY <2>1 DEF WriteSet
  <2>3. d = [c EXCEPT !.evidence = u.evidence]
    BY <1>2, <1>5
  <2>. HIDE DEF u
  <2>4. Same(d, c) /\ d.evidence = u.evidence /\ d \in Claim
    BY <1>3, <2>2, <2>3 DEF Claim, Same
  <2>. QED
    BY <2>1, <2>4
<1>. QED
  BY <1>4, <1>5

\* What a transaction writes is rows again, whose numbers tell them apart.
LEMMA WrittenIds ==
  ASSUME TypeOK, Numbered, NEW p \in WriteSet
  PROVE  /\ Written(p) \subseteq Claim
         /\ \A d, e \in Written(p) : d.id = e.id => d = e
         /\ \A d \in Written(p) : d.id <= serial + Len(p.inserted)
         /\ serial + Len(p.inserted) \in Nat
<1>. DEFINE new == Inserted(p.agent, p.inserted, Remaining(p))
<1>1. p.agent \in Agents /\ p.inserted \in Seq(ClaimValue)
  BY DEF WriteSet, ClaimValue
<1>2. Remaining(p) \in SUBSET claims
  BY DEF Remaining
<1>3. /\ new \subseteq Claim
      /\ \A d \in new : d.id <= serial + Len(p.inserted) /\ \A c \in Remaining(p) : c.id # d.id
      /\ \A d, e \in new : d.id = e.id => d = e
  BY <1>1, <1>2, InsertedRows
<1>4. serial \in Nat /\ Len(p.inserted) \in Nat
  BY <1>1 DEF TypeOK
<1>. HIDE DEF new
<1>5. \A d \in Written(p) :
        d \in new \/ (d \in Claim /\ \E c \in Remaining(p) : Same(d, c))
  BY WrittenRows DEF new
<1>6. Written(p) \subseteq Claim
  BY <1>3, <1>5
<1>7. \A d \in Written(p) : d.id <= serial + Len(p.inserted)
  BY <1>2, <1>3, <1>4, <1>5 DEF Same, Numbered, TypeOK, Claim
<1>8. ASSUME NEW d \in Written(p), NEW e \in Written(p), d.id = e.id PROVE d = e
  <2>1. CASE d \in new /\ e \in new
    BY <1>3, <1>8, <2>1
  <2>2. CASE d \in new /\ e \notin new
    BY <1>3, <1>5, <1>8, <2>2 DEF Same
  <2>3. CASE d \notin new /\ e \in new
    BY <1>3, <1>5, <1>8, <2>3 DEF Same
  <2>4. CASE d \notin new /\ e \notin new
    <3>. DEFINE fresh(c) == {u \in p.changed : u.id = c.id}
                row(c) == [c EXCEPT !.evidence = IF fresh(c) = {} THEN @
                                                 ELSE (CHOOSE u \in fresh(c) : TRUE).evidence]
    <3>1. Written(p) = {row(c) : c \in Remaining(p)} \cup new
      BY DEF Written, Remaining, new
    <3>2. PICK c1 \in Remaining(p) : d = row(c1)
      BY <2>4, <3>1
    <3>3. PICK c2 \in Remaining(p) : e = row(c2)
      BY <2>4, <3>1
    <3>4. c1 \in Claim /\ c2 \in Claim
      BY <1>2 DEF TypeOK
    <3>5. d.id = c1.id /\ e.id = c2.id
      BY <3>2, <3>3, <3>4 DEF Claim
    <3>6. c1 = c2
      BY <1>2, <1>8, <3>5 DEF TypeOK
    <3>. QED
      BY <3>2, <3>3, <3>6
  <2>. QED
    BY <2>1, <2>2, <2>3, <2>4
<1>. QED
  BY <1>4, <1>6, <1>7, <1>8

-----------------------------------------------------------------------------
(* What the handlers decide *)

LEMMA JobFields ==
  ASSUME TypeOK, NEW w \in Workers
  PROVE  /\ jobs[w] = Idle <=> jobs[w].stage = "idle"
         /\ jobs[w].stage = "read" =>
              /\ jobs[w].agent \in Agents /\ jobs[w].status \in Statuses
              /\ jobs[w].claims \subseteq Claim
         /\ jobs[w].stage = "write" => jobs[w].plan \in WriteSet
<1>1. jobs[w] \in Job
  BY DEF TypeOK
<1>. QED
  BY <1>1 DEF Job, Idle

\* A transaction replaces the claims of an agent.
Replaces(p) ==
  /\ p.update /\ p.new = p.old
  /\ p.changed = {} /\ p.recorded = {}

\* A transaction adds a record of a kind, for a claim or none.
Adds(p, kind, cap, self) ==
  /\ p.recorded = {Record(kind, cap, self)}
  /\ p.new = Standing(p.old, kind)
  /\ kind = "vouch" => ~self
  /\ p.deleted = {} /\ p.inserted = <<>>
  /\ \A u \in p.changed :
       /\ kind \in {"evidence", "vouch", "dispute"}
       /\ u.evidence = EvidenceAfter("claimed", kind)

\* The writes a session has queued are those of one handler.
Decided(p) ==
  \/ Replaces(p)
  \/ \E kind \in Kinds, cap \in MaybeCap, self \in BOOLEAN : Adds(p, kind, cap, self)

PlanInv == \A w \in Workers : jobs[w].stage = "write" => Decided(jobs[w].plan)

Shape == TypeOK /\ Numbered /\ Owned /\ PlanInv

LEMMA PlansStay ==
  ASSUME PlanInv, \A w \in Workers : jobs'[w].stage = "write" => jobs'[w] = jobs[w]
  PROVE  PlanInv'
<1>. SUFFICES ASSUME NEW w \in Workers, jobs'[w].stage = "write" PROVE Decided(jobs'[w].plan)
  BY DEF PlanInv, Decided, Replaces, Adds
<1>1. jobs'[w] = jobs[w]
  OBVIOUS
<1>. QED
  BY <1>1 DEF PlanInv

LEMMA QueueShape ==
  ASSUME Shape, NEW w \in Workers, NEW plan \in WriteSet, Decided(plan), Queue(w, plan)
  PROVE  Shape' /\ jobs'[w] = [stage |-> "write", plan |-> plan]
<1>. DEFINE job == [stage |-> "write", plan |-> plan]
<1>1. /\ job \in Job /\ job.stage = "write" /\ job.plan = plan
  BY DEF Job
<1>2. /\ jobs' = [jobs EXCEPT ![w] = job]
      /\ status' = status /\ claims' = claims /\ serial' = serial
      /\ records' = records /\ credits' = credits
  BY DEF Queue
<1>. HIDE DEF job
<1>3. jobs \in [Workers -> Job]
  BY DEF Shape, TypeOK
<1>4. jobs' \in [Workers -> Job] /\ jobs'[w] = job
      /\ \A v \in Workers \ {w} : jobs'[v] = jobs[v]
  BY <1>1, <1>2, <1>3
<1>5. TypeOK'
  BY <1>2, <1>4 DEF Shape, TypeOK
<1>6. PlanInv'
  BY <1>1, <1>4 DEF Shape, PlanInv, Decided, Replaces, Adds
<1>7. Numbered' /\ Owned'
  BY <1>2 DEF Shape, Numbered, Owned
<1>. QED
  BY <1>4, <1>5, <1>6, <1>7 DEF Shape, job

\* What PUT queues, and that it is a replacement.
LEMMA PutQueues ==
  ASSUME Shape, NEW w \in Workers, NEW a \in Agents, PutClaims(w, a)
  PROVE  \E plan \in WriteSet : Replaces(plan) /\ Queue(w, plan)
<1>1. PICK list \in ClaimLists(Offered) :
        Queue(w, [agent |-> a, old |-> status[a], new |-> status[a], update |-> TRUE,
                  changed |-> {}, deleted |-> {c.id : c \in ClaimsOf(a)}, inserted |-> list,
                  recorded |-> {}])
  BY DEF PutClaims
<1>. DEFINE ids == {c.id : c \in ClaimsOf(a)}
            plan == [agent |-> a, old |-> status[a], new |-> status[a], update |-> TRUE,
                     changed |-> {}, deleted |-> ids, inserted |-> list, recorded |-> {}]
<1>2. status[a] \in Statuses
  BY DEF PutClaims, Shape, TypeOK
<1>3. ids \in SUBSET Nat
  BY DEF ClaimsOf, Shape, TypeOK, Claim
<1>4. list \in Seq([cap : Caps, evidence : Evidence])
  BY CredenceAssumption, ListShape
<1>. HIDE DEF ids
<1>5. plan \in WriteSet
  BY <1>2, <1>3, <1>4 DEF WriteSet
<1>6. Replaces(plan)
  BY DEF Replaces
<1>. QED
  BY <1>1, <1>5, <1>6 DEF ids

\* What a verification queues.
LEMMA RecordQueues ==
  ASSUME Shape, NEW w \in Workers, NEW kind \in Kinds, NEW cap \in MaybeCap, NEW self \in BOOLEAN,
         RecordVerification(w, kind, cap, self)
  PROVE  \E plan \in WriteSet :
           /\ Adds(plan, kind, cap, self) /\ Queue(w, plan)
           /\ plan.agent = jobs[w].agent
           /\ \A u \in plan.changed : \E c \in jobs[w].claims : c.cap = cap /\ c.id = u.id
<1>. DEFINE named == {c \in jobs[w].claims : c.cap = cap}
            touched == {x \in named : EvidenceAfter(x.evidence, kind) # x.evidence}
            changed == {[id |-> c.id, evidence |-> EvidenceAfter(c.evidence, kind)] : c \in touched}
            plan == [agent |-> jobs[w].agent, old |-> jobs[w].status,
                     new |-> Standing(jobs[w].status, kind), update |-> FALSE,
                     changed |-> changed, deleted |-> {}, inserted |-> <<>>,
                     recorded |-> {Record(kind, cap, self)}]
<1>1. /\ jobs[w].stage = "read"
      /\ kind = "vouch" => ~self
      /\ Queue(w, plan)
  BY DEF RecordVerification, MayVouch
<1>2. /\ jobs[w].agent \in Agents /\ jobs[w].status \in Statuses /\ jobs[w].claims \subseteq Claim
  BY <1>1, JobFields DEF Shape
<1>3. \A c \in touched : /\ c.id \in Nat /\ c \in jobs[w].claims /\ c.cap = cap
                         /\ EvidenceAfter(c.evidence, kind) = EvidenceAfter("claimed", kind)
                         /\ kind \in {"evidence", "vouch", "dispute"}
  BY <1>2 DEF Claim, EvidenceAfter, Kinds
<1>4. EvidenceAfter("claimed", kind) \in Evidence
  BY DEF EvidenceAfter, Kinds, Evidence
<1>. HIDE DEF touched
<1>5. changed \in SUBSET [id : Nat, evidence : Evidence]
  BY <1>3, <1>4
<1>6. \A u \in changed :
        /\ u.evidence = EvidenceAfter("claimed", kind)
        /\ kind \in {"evidence", "vouch", "dispute"}
        /\ \E c \in jobs[w].claims : c.cap = cap /\ c.id = u.id
  BY <1>3
<1>7. Standing(jobs[w].status, kind) \in Statuses
  BY <1>2 DEF Standing, Statuses, Kinds
<1>8. {Record(kind, cap, self)} \in SUBSET VerificationRecord
  BY DEF Record, VerificationRecord
<1>. HIDE DEF changed
<1>9. plan \in WriteSet
  BY <1>2, <1>5, <1>7, <1>8 DEF WriteSet
<1>10. Adds(plan, kind, cap, self)
  BY <1>1, <1>6 DEF Adds
<1>. QED
  BY <1>1, <1>6, <1>9, <1>10

-----------------------------------------------------------------------------
(* The rows keep their shape *)

\* What a transaction does to the records of its agent.
LEMMA CommitRecords ==
  ASSUME Shape, NEW w \in Workers, Commit(w)
  PROVE  LET p == jobs[w].plan IN
         /\ p \in WriteSet /\ p.agent \in Agents
         /\ \A x \in Agents : x # p.agent => records'[x] = records[x]
         /\ \/ Replaces(p) /\ records'[p.agent] = records[p.agent]
            \/ \E kind \in Kinds, cap \in MaybeCap, self \in BOOLEAN :
                 /\ Adds(p, kind, cap, self)
                 /\ records'[p.agent] = Append(records[p.agent], Record(kind, cap, self))
         /\ records' \in [Agents -> Seq(VerificationRecord)]
<1>. DEFINE p == jobs[w].plan
            a == p.agent
<1>1. p \in WriteSet /\ a \in Agents /\ Decided(p)
  BY JobFields DEF Commit, Shape, WriteSet, PlanInv
<1>2. records \in [Agents -> Seq(VerificationRecord)] /\ records[a] \in Seq(VerificationRecord)
  BY <1>1 DEF Shape, TypeOK
<1>3. records' = [records EXCEPT ![a] = @ \o SetToSeq(p.recorded)]
  BY DEF Commit
<1>. HIDE DEF p
<1>4. CASE Replaces(p)
  <2>1. p.recorded = {}
    BY <1>4 DEF Replaces
  <2>2. records[a] \o SetToSeq(p.recorded) = records[a]
    BY <1>2, <2>1, NoneToSeq, ConcatEmptySeq
  <2>3. records' = records
    BY <1>1, <1>2, <1>3, <2>2
  <2>. QED
    BY <1>1, <1>2, <1>4, <2>3 DEF p
<1>5. CASE \E kind \in Kinds, cap \in MaybeCap, self \in BOOLEAN : Adds(p, kind, cap, self)
  <2>1. PICK kind \in Kinds, cap \in MaybeCap, self \in BOOLEAN : Adds(p, kind, cap, self)
    BY <1>5
  <2>. DEFINE r == Record(kind, cap, self)
  <2>2. p.recorded = {r} /\ r \in VerificationRecord
    BY <2>1 DEF Adds, Record, VerificationRecord
  <2>. HIDE DEF r
  <2>3. SetToSeq(p.recorded) = <<r>>
    BY <2>2, OneToSeq
  <2>4. records[a] \o SetToSeq(p.recorded) = Append(records[a], r)
    BY <1>2, <2>2, <2>3, AppendIsConcat
  <2>5. Append(records[a], r) \in Seq(VerificationRecord)
    BY <1>2, <2>2
  <2>6. records' = [records EXCEPT ![a] = Append(records[a], r)]
    BY <1>1, <1>2, <1>3, <2>4
  <2>7. /\ records' \in [Agents -> Seq(VerificationRecord)]
        /\ records'[a] = Append(records[a], r)
        /\ \A x \in Agents : x # a => records'[x] = records[x]
    BY <1>1, <1>2, <2>5, <2>6
  <2>. QED
    BY <1>1, <2>1, <2>7 DEF p, r
<1>. QED
  BY <1>1, <1>4, <1>5 DEF Decided

LEMMA CommitShape ==
  ASSUME Shape, NEW w \in Workers, Commit(w)
  PROVE  Shape'
<1>. DEFINE p == jobs[w].plan
            a == p.agent
<1>1. /\ p \in WriteSet /\ a \in Agents
      /\ Replaces(p) \/ \E kind \in Kinds, cap \in MaybeCap, self \in BOOLEAN : Adds(p, kind, cap, self)
      /\ records' \in [Agents -> Seq(VerificationRecord)]
  BY CommitRecords
<1>2. /\ RowsMatch(p) /\ UniqueClaims(Written(p))
      /\ status' = IF p.new # p.old THEN [status EXCEPT ![a] = p.new] ELSE status
      /\ claims' = Written(p) /\ serial' = serial + Len(p.inserted)
      /\ credits' = [credits EXCEPT ![a] = @ + Cardinality({r \in p.recorded : r.kind = "vouch"})]
      /\ jobs' = [jobs EXCEPT ![w] = Idle]
  BY DEF Commit
<1>. HIDE DEF p
<1>3. /\ p.new \in Statuses /\ p.inserted \in Seq([cap : Caps, evidence : Evidence])
  BY <1>1 DEF WriteSet
<1>4. /\ status' \in [Agents -> Statuses \cup {"absent"}]
      /\ \A x \in Agents : status[x] # "absent" => status'[x] # "absent"
  BY <1>1, <1>2, <1>3 DEF Shape, TypeOK, Statuses
<1>5. /\ claims' \subseteq Claim
      /\ \A c, d \in claims' : c.id = d.id => c = d
      /\ \A d \in claims' : d.id <= serial'
      /\ serial' \in Nat
  BY <1>1, <1>2, WrittenIds DEF Shape
<1>6. \A c, d \in claims' : <<c.agent, c.cap>> = <<d.agent, d.cap>> => c = d
  BY <1>2 DEF UniqueClaims
<1>7. credits' \in [Agents -> Nat]
  <2>. DEFINE n == Cardinality({r \in p.recorded : r.kind = "vouch"})
  <2>1. IsFiniteSet(p.recorded)
    <3>1. p.recorded = {} \/ \E r : p.recorded = {r}
      BY <1>1 DEF Replaces, Adds
    <3>. QED
      BY <3>1, FS_EmptySet, FS_Singleton
  <2>2. n \in Nat
    BY <2>1, FS_Subset, FS_CardinalityType
  <2>. HIDE DEF n
  <2>. QED
    BY <1>1, <1>2, <2>2 DEF Shape, TypeOK, n
<1>8. jobs' \in [Workers -> Job] /\ \A v \in Workers : jobs'[v].stage = "write" => jobs'[v] = jobs[v]
  <2>1. Idle \in Job /\ Idle.stage # "write"
    BY DEF Job, Idle
  <2>. QED
    BY <1>2, <2>1 DEF Shape, TypeOK
<1>9. TypeOK'
  BY <1>1, <1>4, <1>5, <1>6, <1>7, <1>8 DEF TypeOK
<1>10. Numbered' /\ PlanInv'
  BY <1>5, <1>8, PlansStay DEF Numbered, Shape
<1>11. Owned'
  <2>. SUFFICES ASSUME NEW d \in Written(p) PROVE status'[d.agent] # "absent"
    BY <1>2 DEF Owned
  <2>1. CASE d \in Inserted(a, p.inserted, Remaining(p))
    <3>1. Remaining(p) \in SUBSET claims
      BY DEF Remaining
    <3>2. d.agent = a /\ \E i \in DOMAIN p.inserted : TRUE
      BY <1>1, <1>3, <2>1, <3>1, InsertedRows DEF Shape, ClaimValue
    <3>3. p.update
      BY <1>1, <3>2 DEF Replaces, Adds
    <3>. QED
      BY <1>1, <1>2, <1>4, <3>2, <3>3 DEF RowsMatch
  <2>2. CASE d \notin Inserted(a, p.inserted, Remaining(p))
    <3>1. \E c \in claims : d.agent = c.agent
      BY <1>1, <2>2, WrittenRows DEF Shape, Remaining, Same
    <3>. QED
      BY <1>4, <3>1 DEF Shape, Owned, TypeOK, Claim
  <2>. QED
    BY <2>1, <2>2
<1>. QED
  BY <1>9, <1>10, <1>11 DEF Shape

LEMMA RegisterShape ==
  ASSUME Shape, NEW a \in Agents, RegisterAgent(a)
  PROVE  Shape'
<1>1. PICK list \in ClaimLists({"claimed"}) :
        claims' = claims \cup Inserted(a, list, claims) /\ serial' = serial + Len(list)
  BY DEF RegisterAgent
<1>2. /\ list \in Seq(ClaimValue)
      /\ \A i, j \in DOMAIN list : list[i].cap = list[j].cap => i = j
  BY ListShape DEF ClaimValue, Evidence
<1>. DEFINE new == Inserted(a, list, claims)
<1>3. /\ new \subseteq Claim
      /\ \A d \in new : d.agent = a /\ d.id <= serial + Len(list) /\ \A c \in claims : c.id # d.id
      /\ \A d, e \in new : d.id = e.id \/ d.cap = e.cap => d = e
  BY <1>2, InsertedRows DEF Shape
<1>4. claims' = claims \cup new
  BY <1>1
<1>. HIDE DEF new
<1>5. \A c \in claims : c.agent # a
  BY DEF Shape, Owned, RegisterAgent
<1>6. serial \in Nat /\ Len(list) \in Nat /\ serial' \in Nat /\ serial <= serial'
  BY <1>1, <1>2 DEF Shape, TypeOK
<1>7. claims' \subseteq Claim
  BY <1>3, <1>4 DEF Shape, TypeOK
<1>8. ASSUME NEW c \in claims', NEW d \in claims',
             c.id = d.id \/ <<c.agent, c.cap>> = <<d.agent, d.cap>>
      PROVE  c = d
  <2>1. c.id = d.id \/ (c.agent = d.agent /\ c.cap = d.cap)
    BY <1>8
  <2>2. CASE c \in claims /\ d \in claims
    BY <1>8, <2>2 DEF Shape, TypeOK
  <2>3. CASE c \in new /\ d \in new
    BY <1>3, <2>1, <2>3
  <2>4. CASE c \in claims /\ d \in new
    BY <1>3, <1>5, <2>1, <2>4
  <2>5. CASE c \in new /\ d \in claims
    BY <1>3, <1>5, <2>1, <2>5
  <2>. QED
    BY <1>4, <2>2, <2>3, <2>4, <2>5
<1>9. status' = [status EXCEPT ![a] = "claimed"]
      /\ records' = [records EXCEPT ![a] = Append(@, Record("claim", None, FALSE))]
      /\ credits' = credits /\ jobs' = jobs
  BY DEF RegisterAgent
<1>10. records' \in [Agents -> Seq(VerificationRecord)]
  <2>1. Record("claim", None, FALSE) \in VerificationRecord
    BY DEF Record, VerificationRecord, Kinds, MaybeCap
  <2>2. Append(records[a], Record("claim", None, FALSE)) \in Seq(VerificationRecord)
    <3>1. records[a] \in Seq(VerificationRecord)
      BY DEF Shape, TypeOK
    <3>. QED
      BY <2>1, <3>1, AppendProperties
  <2>. QED
    BY <1>9, <2>2 DEF Shape, TypeOK
<1>11. status' \in [Agents -> Statuses \cup {"absent"}]
  BY <1>9 DEF Shape, TypeOK, Statuses
<1>12. TypeOK'
  BY <1>6, <1>7, <1>8, <1>9, <1>10, <1>11 DEF TypeOK, Shape
<1>13. Numbered'
  <2>. SUFFICES ASSUME NEW c \in claims' PROVE c.id <= serial'
    BY DEF Numbered
  <2>1. CASE c \in claims
    BY <1>6, <2>1 DEF Shape, Numbered, TypeOK, Claim
  <2>2. CASE c \in new
    BY <1>1, <1>3, <2>2
  <2>. QED
    BY <1>4, <2>1, <2>2
<1>14. Owned'
  BY <1>3, <1>4, <1>9 DEF Shape, Owned, TypeOK, Claim
<1>15. PlanInv'
  BY <1>9, PlansStay DEF Shape
<1>. QED
  BY <1>12, <1>13, <1>14, <1>15 DEF Shape

LEMMA DeleteShape ==
  ASSUME Shape, NEW a \in Agents, DeleteAgent(a)
  PROVE  Shape'
<1>1. /\ status' = [status EXCEPT ![a] = "absent"]
      /\ claims' = claims \ ClaimsOf(a)
      /\ records' = [records EXCEPT ![a] = <<>>]
      /\ credits' = [credits EXCEPT ![a] = 0]
      /\ serial' = serial /\ jobs' = jobs
  BY DEF DeleteAgent
<1>2. <<>> \in Seq(VerificationRecord)
  OBVIOUS
<1>3. /\ status' \in [Agents -> Statuses \cup {"absent"}]
      /\ records' \in [Agents -> Seq(VerificationRecord)]
      /\ credits' \in [Agents -> Nat]
  BY <1>1, <1>2 DEF Shape, TypeOK
<1>4. TypeOK'
  BY <1>1, <1>3 DEF Shape, TypeOK
<1>5. Numbered' /\ Owned'
  BY <1>1 DEF Shape, TypeOK, ClaimsOf, Numbered, Owned, Claim
<1>6. PlanInv'
  BY <1>1, PlansStay DEF Shape
<1>. QED
  BY <1>4, <1>5, <1>6 DEF Shape

LEMMA RestShape ==
  ASSUME Shape, UNCHANGED tables, NEW w \in Workers, NEW job \in Job,
         job.stage # "write", jobs' = [jobs EXCEPT ![w] = job]
  PROVE  Shape'
<1>1. /\ jobs' \in [Workers -> Job]
      /\ \A v \in Workers : jobs'[v].stage = "write" => jobs'[v] = jobs[v]
  BY DEF Shape, TypeOK
<1>2. status' = status /\ claims' = claims /\ serial' = serial
      /\ records' = records /\ credits' = credits
  BY DEF tables
<1>3. TypeOK' /\ Numbered' /\ Owned'
  BY <1>1, <1>2 DEF Shape, TypeOK, Numbered, Owned
<1>. QED
  BY <1>1, <1>3, PlansStay DEF Shape

LEMMA BeginJob ==
  ASSUME Shape, NEW w \in Workers, NEW a \in Agents, BeginVerification(w, a)
  PROVE  /\ jobs' = [jobs EXCEPT ![w] = [stage |-> "read", agent |-> a,
                                         status |-> status[a], claims |-> ClaimsOf(a)]]
         /\ [stage |-> "read", agent |-> a, status |-> status[a], claims |-> ClaimsOf(a)] \in Job
         /\ UNCHANGED tables
<1>1. status[a] \in Statuses /\ ClaimsOf(a) \in SUBSET Claim
  BY DEF BeginVerification, Shape, TypeOK, ClaimsOf
<1>. QED
  BY <1>1 DEF BeginVerification, Job

LEMMA IdleJob == Idle \in Job /\ Idle.stage = "idle"
BY DEF Job, Idle

LEMMA ShapeStep == Shape /\ [Next]_vars => Shape'
<1>. SUFFICES ASSUME Shape, [Next]_vars PROVE Shape'
  OBVIOUS
<1>1. ASSUME NEW w \in Workers, NEW a \in Agents, PutClaims(w, a) PROVE Shape'
  <2>1. PICK plan \in WriteSet : Replaces(plan) /\ Queue(w, plan)
    BY <1>1, PutQueues
  <2>. QED
    BY <2>1, QueueShape DEF Decided
<1>2. ASSUME NEW w \in Workers, NEW a \in Agents, BeginVerification(w, a) PROVE Shape'
  <2>. DEFINE job == [stage |-> "read", agent |-> a, status |-> status[a], claims |-> ClaimsOf(a)]
  <2>1. /\ job \in Job /\ job.stage # "write" /\ jobs' = [jobs EXCEPT ![w] = job]
        /\ UNCHANGED tables
    BY <1>2, BeginJob
  <2>. HIDE DEF job
  <2>. QED
    BY <2>1, RestShape
<1>3. ASSUME NEW w \in Workers, NEW kind \in Kinds, NEW cap \in MaybeCap, NEW self \in BOOLEAN,
             RecordVerification(w, kind, cap, self)
      PROVE  Shape'
  <2>1. PICK plan \in WriteSet : Adds(plan, kind, cap, self) /\ Queue(w, plan)
    BY <1>3, RecordQueues
  <2>2. Decided(plan)
    BY <2>1 DEF Decided
  <2>. QED
    BY <2>1, <2>2, QueueShape
<1>4. ASSUME NEW w \in Workers, Commit(w) PROVE Shape'
  BY <1>4, CommitShape
<1>5. ASSUME NEW w \in Workers, Drop(w) PROVE Shape'
  BY <1>5, IdleJob, RestShape DEF Drop
<1>6. ASSUME NEW a \in Agents, RegisterAgent(a) \/ DeleteAgent(a) PROVE Shape'
  BY <1>6, RegisterShape, DeleteShape
<1>7. CASE UNCHANGED vars
  <2>1. jobs' = jobs /\ status' = status /\ claims' = claims /\ serial' = serial
        /\ records' = records /\ credits' = credits
    BY <1>7 DEF vars
  <2>. QED
    BY <2>1, PlansStay DEF Shape, TypeOK, Numbered, Owned
<1>. QED
  BY <1>1, <1>2, <1>3, <1>4, <1>5, <1>6, <1>7 DEF Next

LEMMA ShapeInit == Init => Shape
<1>. SUFFICES ASSUME Init PROVE Shape
  OBVIOUS
<1>1. Idle \in Job /\ Idle.stage # "write"
  BY DEF Job, Idle
<1>2. TypeOK
  BY <1>1 DEF Init, TypeOK
<1>. QED
  BY <1>1, <1>2 DEF Init, Shape, Numbered, Owned, PlanInv

\* Rows and sessions keep their shape, on both databases.
LEMMA ShapeSound == Spec => []Shape
BY ShapeInit, ShapeStep, PTL DEF Spec

(***************************************************************************)
(* Tables and sessions keep their shape, and no two claims have one id, or *)
(* one agent and capability, whatever the requests that replace them,      *)
(* verify them and delete their agents overlap.                            *)
(***************************************************************************)
THEOREM TypeCorrect == Spec => []TypeOK
BY ShapeSound, PTL DEF Shape

-----------------------------------------------------------------------------
(* Records only grow while nobody is deleted *)

Counted == deletes \in Nat

LEMMA Effects ==
  ASSUME Shape, [Next]_vars
  PROVE  \/ UNCHANGED <<status, claims, serial, records, credits, deletes>>
         \/ \E w \in Workers : Commit(w)
         \/ \E a \in Agents : RegisterAgent(a) \/ DeleteAgent(a)
BY DEF Next, vars, PutClaims, BeginVerification, RecordVerification, Drop, Queue, tables

LEMMA CountedSound == Spec => []Counted
<1>1. Init => Counted
  BY DEF Init, Counted
<1>2. Counted /\ [Next]_vars => Counted'
  <2>1. [Next]_vars => deletes' = deletes \/ deletes' = deletes + 1
    BY DEF Next, vars, PutClaims, BeginVerification, RecordVerification, Drop, Queue, tables,
           Commit, RegisterAgent, DeleteAgent
  <2>. QED
    BY <2>1 DEF Counted
<1>. QED
  BY <1>1, <1>2, PTL DEF Spec

\* A history of records stays, or has one more.
Grown(old, new) == new = old \/ \E r \in VerificationRecord : new = Append(old, r)

LEMMA GrownKeeps ==
  ASSUME NEW old \in Seq(VerificationRecord), NEW new, Grown(old, new)
  PROVE  /\ \A i \in DOMAIN old : i \in DOMAIN new /\ new[i] = old[i]
         /\ DOMAIN old = 1 .. Len(old) /\ Len(old) \in Nat
         /\ new # old => \E r \in VerificationRecord :
              /\ DOMAIN new = 1 .. Len(old) + 1
              /\ new = Append(old, r) /\ new[Len(old) + 1] = r
<1>1. CASE new = old
  BY <1>1
<1>2. CASE new # old
  <2>1. PICK r \in VerificationRecord : new = Append(old, r)
    BY <1>2 DEF Grown
  <2>2. /\ new \in Seq(VerificationRecord) /\ Len(new) = Len(old) + 1
        /\ \A i \in 1 .. Len(old) : new[i] = old[i]
        /\ new[Len(old) + 1] = r
    BY <2>1, AppendProperties
  <2>3. DOMAIN new = 1 .. Len(old) + 1 /\ DOMAIN old = 1 .. Len(old) /\ Len(old) \in Nat
    BY <2>2
  <2>4. \A i \in DOMAIN old : i \in DOMAIN new /\ new[i] = old[i]
    BY <2>2, <2>3
  <2>. QED
    BY <2>1, <2>2, <2>3, <2>4
<1>. QED
  BY <1>1, <1>2

LEMMA RecordType ==
  ASSUME NEW kind \in Kinds, NEW cap \in MaybeCap, NEW self \in BOOLEAN
  PROVE  /\ Record(kind, cap, self) \in VerificationRecord
         /\ Record(kind, cap, self).kind = kind
         /\ Record(kind, cap, self).cap = cap
         /\ Record(kind, cap, self).self = self
BY DEF Record, VerificationRecord

LEMMA RegisterRecords ==
  ASSUME Shape, NEW a \in Agents, RegisterAgent(a)
  PROVE  /\ records'[a] = Append(records[a], Record("claim", None, FALSE))
         /\ Record("claim", None, FALSE) \in VerificationRecord
         /\ Record("claim", None, FALSE).kind = "claim"
         /\ \A x \in Agents : x # a => records'[x] = records[x]
BY DEF RegisterAgent, Shape, TypeOK, Record, VerificationRecord, Kinds, MaybeCap

\* A session that has read the agent's row, or is about to write for it.
Holds(w, a) ==
  \/ jobs[w].stage = "read" /\ jobs[w].agent = a
  \/ jobs[w].stage = "write" /\ jobs[w].plan.agent = a

\* A step after which what any session knows of a still stands: the records of
\* a grow, or a goes with them and no session is about it.
Undisturbed(a) ==
  \/ Grown(records[a], records'[a])
  \/ DeleteAgent(a) /\ \A w \in Workers : ~Holds(w, a)

\* Only the deletion of an agent takes records away.
LEMMA RecordsGrow ==
  ASSUME Shape, [Next]_vars, NEW a \in Agents, ~DeleteAgent(a)
  PROVE  Grown(records[a], records'[a])
<1>1. CASE UNCHANGED <<status, claims, serial, records, credits, deletes>>
  BY <1>1 DEF Grown
<1>2. ASSUME NEW w \in Workers, Commit(w) PROVE Grown(records[a], records'[a])
  <2>. DEFINE p == jobs[w].plan
  <2>2. /\ \A x \in Agents : x # p.agent => records'[x] = records[x]
        /\ \/ records'[p.agent] = records[p.agent]
           \/ \E kind \in Kinds, cap \in MaybeCap, self \in BOOLEAN :
                records'[p.agent] = Append(records[p.agent], Record(kind, cap, self))
    BY <1>2, CommitRecords
  <2>. QED
    BY <2>2, RecordType DEF Grown
<1>3. ASSUME NEW x \in Agents, RegisterAgent(x) PROVE Grown(records[a], records'[a])
  BY <1>3, RegisterRecords DEF Grown
<1>4. ASSUME NEW x \in Agents, DeleteAgent(x) PROVE Grown(records[a], records'[a])
  BY <1>4 DEF DeleteAgent, Shape, TypeOK, Grown
<1>. QED
  BY <1>1, <1>2, <1>3, <1>4, Effects

\* Nothing is disturbed by a step that leaves nobody deleted so far ...
LEMMA NobodyDeleted ==
  ASSUME Shape, Counted, [Next]_vars, deletes' = 0
  PROVE  deletes = 0 /\ \A a \in Agents : Undisturbed(a)
<1>1. \A a \in Agents : ~DeleteAgent(a)
  BY DEF DeleteAgent, Counted
<1>2. deletes = 0
  <2>1. CASE UNCHANGED <<status, claims, serial, records, credits, deletes>>
    BY <2>1
  <2>2. CASE \E w \in Workers : Commit(w)
    BY <2>2 DEF Commit
  <2>3. CASE \E a \in Agents : RegisterAgent(a)
    BY <2>3 DEF RegisterAgent
  <2>. QED
    BY <1>1, <2>1, <2>2, <2>3, Effects
<1>. QED
  BY <1>1, <1>2, RecordsGrow DEF Undisturbed

\* ... or deletes an agent that no session is about.
QuietDelete == \A a \in Agents, w \in Workers : DeleteAgent(a) => ~Holds(w, a)

LEMMA QuietlyDeleted ==
  ASSUME Shape, [Next]_vars, [QuietDelete]_vars
  PROVE  \A a \in Agents : Undisturbed(a)
<1>. SUFFICES ASSUME NEW a \in Agents PROVE Undisturbed(a)
  OBVIOUS
<1>1. CASE ~DeleteAgent(a)
  BY <1>1, RecordsGrow DEF Undisturbed
<1>2. CASE DeleteAgent(a)
  <2>1. vars' # vars
    BY <1>2 DEF DeleteAgent, vars, Shape, TypeOK
  <2>. QED
    BY <1>2, <2>1 DEF QuietDelete, Undisturbed
<1>. QED
  BY <1>1, <1>2

-----------------------------------------------------------------------------
(* Vouches and statuses *)

HasCheck(log) == \E i \in DOMAIN log : log[i].kind = "independently-checked"

\* A vouch for a that waits to be committed has its check.
Checked(a) ==
  \A w \in Workers :
    jobs[w].stage = "write" /\ jobs[w].plan.agent = a =>
      \A r \in jobs[w].plan.recorded : r.kind = "vouch" => HasCheck(records[a])

\* A vouch on record for a has its check, and is another agent's.
Vouched(a) ==
  \A i \in DOMAIN records[a] :
    records[a][i].kind = "vouch" =>
      /\ ~records[a][i].self
      /\ \E j \in 1 .. i - 1 : records[a][j].kind = "independently-checked"

\* The status a shows is on record.
Shown(a) ==
  status[a] # "absent" => \E i \in DOMAIN records[a] : records[a][i].kind \in Sets(status[a])

LEMMA CheckedStep ==
  ASSUME Shape, NEW a \in Agents, Checked(a), [Next]_vars, Undisturbed(a)
  PROVE  Checked(a)'
<1>. SUFFICES ASSUME NEW w \in Workers, jobs'[w].stage = "write", jobs'[w].plan.agent = a,
                     NEW r \in jobs'[w].plan.recorded, r.kind = "vouch"
              PROVE  HasCheck(records'[a])
  BY DEF Checked, HasCheck
<1>1. Grown(records[a], records'[a])
  BY DEF Undisturbed, DeleteAgent, Holds
<1>2. ASSUME HasCheck(records[a]) PROVE HasCheck(records'[a])
  <2>1. records[a] \in Seq(VerificationRecord)
    BY DEF Shape, TypeOK
  <2>2. \A i \in DOMAIN records[a] : i \in DOMAIN records'[a] /\ records'[a][i] = records[a][i]
    BY <1>1, <2>1, GrownKeeps
  <2>. QED
    BY <1>2, <2>2 DEF HasCheck
<1>3. CASE jobs'[w] = jobs[w]
  BY <1>2, <1>3 DEF Checked
<1>4. CASE jobs'[w] # jobs[w]
  <2>1. ASSUME NEW v \in Workers, NEW x \in Agents, PutClaims(v, x) PROVE FALSE
    <3>1. PICK plan \in WriteSet : Replaces(plan) /\ Queue(v, plan)
      BY <2>1, PutQueues
    <3>2. jobs'[w] = [stage |-> "write", plan |-> plan]
      BY <1>4, <3>1 DEF Queue, Shape, TypeOK
    <3>. QED
      BY <3>1, <3>2 DEF Replaces
  <2>2. ASSUME NEW v \in Workers, NEW kind \in Kinds, NEW cap \in MaybeCap, NEW self \in BOOLEAN,
               RecordVerification(v, kind, cap, self)
        PROVE  HasCheck(records'[a])
    <3>1. PICK plan \in WriteSet :
            Adds(plan, kind, cap, self) /\ Queue(v, plan) /\ plan.agent = jobs[v].agent
      BY <2>2, RecordQueues
    <3>2. v = w /\ jobs'[w] = [stage |-> "write", plan |-> plan]
      BY <1>4, <3>1 DEF Queue, Shape, TypeOK
    <3>3. kind = "vouch"
      BY <3>1, <3>2, RecordType DEF Adds
    <3>4. HasCheck(records[jobs[v].agent]) /\ records' = records
      BY <2>2, <3>3 DEF RecordVerification, MayVouch, HasCheck, Queue
    <3>. QED
      BY <3>1, <3>2, <3>4 DEF HasCheck
  <2>3. ASSUME NEW v \in Workers, NEW x \in Agents, BeginVerification(v, x) PROVE FALSE
    BY <1>4, <2>3 DEF BeginVerification, Shape, TypeOK
  <2>4. ASSUME NEW v \in Workers, Commit(v) \/ Drop(v) PROVE FALSE
    BY <1>4, <2>4, IdleJob DEF Commit, Drop, Shape, TypeOK
  <2>5. ASSUME NEW x \in Agents, RegisterAgent(x) \/ DeleteAgent(x) PROVE FALSE
    BY <1>4, <2>5 DEF RegisterAgent, DeleteAgent
  <2>6. CASE UNCHANGED vars
    BY <1>4, <2>6 DEF vars
  <2>. QED
    BY <2>1, <2>2, <2>3, <2>4, <2>5, <2>6 DEF Next
<1>. QED
  BY <1>3, <1>4

LEMMA VouchStep ==
  ASSUME Shape, NEW a \in Agents, Checked(a), Vouched(a), [Next]_vars, Undisturbed(a)
  PROVE  Vouched(a)'
<1>. SUFFICES ASSUME NEW i \in DOMAIN records'[a], records'[a][i].kind = "vouch"
              PROVE  /\ ~records'[a][i].self
                     /\ \E j \in 1 .. i - 1 : records'[a][j].kind = "independently-checked"
  BY DEF Vouched
<1>1. Grown(records[a], records'[a]) /\ records[a] \in Seq(VerificationRecord)
  BY DEF Undisturbed, DeleteAgent, Shape, TypeOK
<1>2. /\ \A k \in DOMAIN records[a] : k \in DOMAIN records'[a] /\ records'[a][k] = records[a][k]
      /\ DOMAIN records[a] = 1 .. Len(records[a]) /\ Len(records[a]) \in Nat
  BY <1>1, GrownKeeps
<1>3. CASE i \in DOMAIN records[a]
  <2>1. records'[a][i] = records[a][i]
    BY <1>2, <1>3
  <2>2. /\ ~records[a][i].self
        /\ \E j \in 1 .. i - 1 : records[a][j].kind = "independently-checked"
    BY <1>1, <1>3, <2>1 DEF Vouched
  <2>3. \A j \in 1 .. i - 1 : j \in DOMAIN records[a]
    BY <1>2, <1>3
  <2>. QED
    BY <1>2, <2>1, <2>2, <2>3
<1>4. CASE i \notin DOMAIN records[a]
  <2>1. records'[a] # records[a]
    BY <1>4
  <2>2. i = Len(records[a]) + 1
    BY <1>1, <1>2, <1>4, <2>1, GrownKeeps
  <2>3. \A x \in Agents : ~RegisterAgent(x)
    <3>. SUFFICES ASSUME NEW x \in Agents, RegisterAgent(x) PROVE FALSE
      OBVIOUS
    <3>1. /\ records'[x] = Append(records[x], Record("claim", None, FALSE))
          /\ Record("claim", None, FALSE) \in VerificationRecord
          /\ Record("claim", None, FALSE).kind = "claim"
          /\ x = a
      BY <2>1, RegisterRecords
    <3>. DEFINE r == Record("claim", None, FALSE)
    <3>2. records'[a] = Append(records[a], r) /\ r \in VerificationRecord /\ r.kind = "claim"
      BY <3>1
    <3>. HIDE DEF r
    <3>3. records'[a][i] = r
      BY <1>1, <2>2, <3>2, AppendProperties
    <3>. QED
      BY <3>2, <3>3
  <2>4. \A x \in Agents : ~DeleteAgent(x)
    BY <1>2, <1>4, <2>1 DEF DeleteAgent, Shape, TypeOK
  <2>5. PICK w \in Workers : Commit(w)
    BY <2>1, <2>3, <2>4, Effects
  <2>. DEFINE p == jobs[w].plan
  <2>6. /\ p.agent = a
        /\ \E kind \in Kinds, cap \in MaybeCap, self \in BOOLEAN :
             /\ Adds(p, kind, cap, self)
             /\ records'[a] = Append(records[a], Record(kind, cap, self))
    BY <2>1, <2>5, CommitRecords
  <2>7. PICK kind \in Kinds, cap \in MaybeCap, self \in BOOLEAN :
          /\ Adds(p, kind, cap, self)
          /\ records'[a] = Append(records[a], Record(kind, cap, self))
    BY <2>6
  <2>8. records'[a][i] = Record(kind, cap, self)
    BY <1>1, <2>2, <2>7, RecordType, AppendProperties
  <2>9. kind = "vouch" /\ ~records'[a][i].self
    BY <2>7, <2>8, RecordType DEF Adds
  <2>10. Record(kind, cap, self) \in p.recorded /\ Record(kind, cap, self).kind = "vouch"
    BY <2>7, <2>9, RecordType DEF Adds
  <2>11. HasCheck(records[a])
    BY <1>1, <2>5, <2>6, <2>10 DEF Checked, Commit
  <2>12. PICK j \in DOMAIN records[a] : records[a][j].kind = "independently-checked"
    BY <2>11 DEF HasCheck
  <2>13. j \in 1 .. i - 1 /\ records'[a][j] = records[a][j]
    BY <1>2, <2>2
  <2>. QED
    BY <2>9, <2>12, <2>13
<1>. QED
  BY <1>3, <1>4

LEMMA StatusStep ==
  ASSUME Shape, NEW a \in Agents, Shown(a), [Next]_vars, Undisturbed(a)
  PROVE  Shown(a)'
<1>. SUFFICES ASSUME status'[a] # "absent"
              PROVE  \E i \in DOMAIN records'[a] : records'[a][i].kind \in Sets(status'[a])
  BY DEF Shown, Sets
<1>1. Grown(records[a], records'[a]) /\ records[a] \in Seq(VerificationRecord)
  BY DEF Undisturbed, DeleteAgent, Shape, TypeOK
<1>2. \A i \in DOMAIN records[a] : i \in DOMAIN records'[a] /\ records'[a][i] = records[a][i]
  BY <1>1, GrownKeeps
<1>3. CASE status'[a] = status[a]
  BY <1>1, <1>2, <1>3 DEF Shown
<1>4. CASE status'[a] # status[a]
  <2>1. \A x \in Agents : ~DeleteAgent(x)
    BY <1>4 DEF DeleteAgent, Shape, TypeOK
  <2>2. ASSUME NEW x \in Agents, RegisterAgent(x)
        PROVE  \E i \in DOMAIN records'[a] : records'[a][i].kind \in Sets(status'[a])
    <3>1. x = a /\ status'[a] = "claimed"
      BY <1>4, <2>2 DEF RegisterAgent, Shape, TypeOK
    <3>. DEFINE n == Len(records[a]) + 1
                r == Record("claim", None, FALSE)
    <3>2. records'[a] = Append(records[a], r) /\ r \in VerificationRecord /\ r.kind = "claim"
      BY <2>2, <3>1, RegisterRecords
    <3>. HIDE DEF r
    <3>3. records'[a][n] = r /\ n \in DOMAIN records'[a]
      <4>1. /\ Append(records[a], r) \in Seq(VerificationRecord)
            /\ Len(records'[a]) = n /\ records'[a][n] = r
        BY <1>1, <3>2, AppendProperties
      <4>2. n \in 1 .. n
        BY <1>1
      <4>. QED
        BY <3>2, <4>1, <4>2, LenProperties
    <3>. QED
      BY <3>1, <3>2, <3>3 DEF Sets
  <2>3. ASSUME NEW w \in Workers, Commit(w)
        PROVE  \E i \in DOMAIN records'[a] : records'[a][i].kind \in Sets(status'[a])
    <3>. DEFINE p == jobs[w].plan
    <3>1. p.agent = a /\ p.new # p.old /\ status'[a] = p.new
      BY <1>4, <2>3, CommitRecords DEF Commit, Shape, TypeOK
    <3>2. PICK kind \in Kinds, cap \in MaybeCap, self \in BOOLEAN :
            /\ Adds(p, kind, cap, self)
            /\ records'[a] = Append(records[a], Record(kind, cap, self))
      BY <2>3, <3>1, CommitRecords DEF Replaces
    <3>3. kind \in Sets(p.new)
      BY <3>1, <3>2 DEF Adds, Standing, Sets, Kinds
    <3>. DEFINE n == Len(records[a]) + 1
                r == Record(kind, cap, self)
    <3>4. r \in VerificationRecord /\ r.kind = kind
      BY RecordType
    <3>5. records'[a][n] = r /\ n \in DOMAIN records'[a]
      <4>1. /\ Append(records[a], r) \in Seq(VerificationRecord)
            /\ Len(records'[a]) = n /\ records'[a][n] = r
        BY <1>1, <3>2, <3>4, AppendProperties
      <4>2. n \in 1 .. n
        BY <1>1
      <4>. QED
        BY <3>2, <4>1, <4>2, LenProperties
    <3>. HIDE DEF n, r, p
    <3>. QED
      BY <3>1, <3>3, <3>4, <3>5 DEF p
  <2>. QED
    BY <1>4, <2>1, <2>2, <2>3, Effects
<1>. QED
  BY <1>3, <1>4

RecordInv(a) == Checked(a) /\ Vouched(a) /\ Shown(a)

LEMMA RecordStep ==
  ASSUME Shape, NEW a \in Agents, RecordInv(a), [Next]_vars, Undisturbed(a)
  PROVE  RecordInv(a)'
BY CheckedStep, VouchStep, StatusStep DEF RecordInv

AllRecorded == \A a \in Agents : RecordInv(a)

UndeletedInv == deletes = 0 => AllRecorded

LEMMA RecordInit == Init => AllRecorded
BY IdleJob DEF Init, AllRecorded, RecordInv, Checked, Vouched, Shown

LEMMA UndeletedSound == Spec => []UndeletedInv
<1>1. Init => UndeletedInv
  BY RecordInit DEF UndeletedInv
<1>2. Shape /\ Counted /\ UndeletedInv /\ [Next]_vars => UndeletedInv'
  BY NobodyDeleted, RecordStep DEF UndeletedInv, AllRecorded
<1>. QED
  BY <1>1, <1>2, ShapeSound, CountedSound, PTL DEF Spec

(***************************************************************************)
(* Of no agent that was not deleted is there a vouch without an earlier    *)
(* independent check, or by the agent itself, however requests interleave. *)
(***************************************************************************)
THEOREM VouchesAreEarned == Spec => []VouchEarned
<1>1. UndeletedInv => VouchEarned
  BY DEF UndeletedInv, AllRecorded, RecordInv, Vouched, VouchEarned
<1>. QED
  BY <1>1, UndeletedSound, PTL

(***************************************************************************)
(* The status of an agent that was not deleted is on record, although      *)
(* commits of stale sessions overwrite newer statuses.                     *)
(***************************************************************************)
THEOREM StatusesOnRecord == Spec => []StatusRecorded
<1>1. UndeletedInv => StatusRecorded
  BY DEF UndeletedInv, AllRecorded, RecordInv, Shown, StatusRecorded
<1>. QED
  BY <1>1, UndeletedSound, PTL

\* Both, for agents that were deleted and registered again, too.
EveryLifeOnRecord == \A a \in Agents : Vouched(a) /\ Shown(a)

(***************************************************************************)
(* Deletions do no harm by themselves: as long as no agent is deleted      *)
(* while a session holds its row (post_verification, update_agent), every  *)
(* vouch has its check and every status its record in every life of an     *)
(* agent.  A session that outlives the agent may bring a vouch of the one  *)
(* life to the next.                                                       *)
(***************************************************************************)
THEOREM LivesOnRecord == Spec /\ [][QuietDelete]_vars => []EveryLifeOnRecord
<1>1. Init => AllRecorded
  BY RecordInit
<1>2. Shape /\ AllRecorded /\ [Next]_vars /\ [QuietDelete]_vars => AllRecorded'
  BY QuietlyDeleted, RecordStep DEF AllRecorded
<1>3. AllRecorded => EveryLifeOnRecord
  BY DEF AllRecorded, RecordInv, EveryLifeOnRecord
<1>. QED
  BY <1>1, <1>2, <1>3, ShapeSound, PTL DEF Spec

(***************************************************************************)
(* A dispute stays until a vouch settles it, but for commits of sessions   *)
(* that loaded the agent before the dispute.                               *)
(***************************************************************************)
THEOREM DisputesStay == Spec => DisputeStays
<1>. DEFINE Stays == \A a \in Agents :
       status[a] = "disputed" /\ status'[a] \notin {"disputed", "absent"} =>
         \/ status'[a] = "vouched"
         \/ \E w \in Workers :
              /\ jobs[w].stage = "write" /\ jobs'[w] = Idle
              /\ jobs[w].plan.agent = a /\ jobs[w].plan.old # "disputed"
<1>1. Shape /\ [Next]_vars => [Stays]_status
  <2>. SUFFICES ASSUME Shape, [Next]_vars, NEW a \in Agents,
                       status[a] = "disputed", status'[a] \notin {"disputed", "absent"}
                PROVE  \/ status'[a] = "vouched"
                       \/ \E w \in Workers :
                            /\ jobs[w].stage = "write" /\ jobs'[w] = Idle
                            /\ jobs[w].plan.agent = a /\ jobs[w].plan.old # "disputed"
    OBVIOUS
  <2>1. \A x \in Agents : ~RegisterAgent(x) /\ ~DeleteAgent(x)
    BY DEF RegisterAgent, DeleteAgent, Shape, TypeOK
  <2>2. PICK w \in Workers : Commit(w)
    BY <2>1, Effects
  <2>. DEFINE p == jobs[w].plan
  <2>3. /\ jobs[w].stage = "write" /\ jobs'[w] = Idle
        /\ p.agent = a /\ p.new # p.old /\ status'[a] = p.new
    BY <2>2, CommitRecords DEF Commit, Shape, TypeOK
  <2>4. PICK kind \in Kinds, cap \in MaybeCap, self \in BOOLEAN : Adds(p, kind, cap, self)
    BY <2>2, <2>3, CommitRecords DEF Replaces
  <2>5. p.old = "disputed" => p.new \in {"disputed", "vouched"}
    BY <2>4 DEF Adds, Standing, Kinds
  <2>. QED
    BY <2>3, <2>5
<1>. QED
  BY <1>1, ShapeSound, PTL DEF Spec, DisputeStays

-----------------------------------------------------------------------------
(* Credits *)

VouchesIn(log) == {i \in DOMAIN log : log[i].kind = "vouch"}

LEMMA VouchCount ==
  ASSUME NEW log \in Seq(VerificationRecord), NEW r \in VerificationRecord
  PROVE  /\ Cardinality(VouchesIn(log)) \in Nat
         /\ Cardinality(VouchesIn(Append(log, r))) =
              Cardinality(VouchesIn(log)) + IF r.kind = "vouch" THEN 1 ELSE 0
<1>. DEFINE n == Len(log) + 1
            new == Append(log, r)
<1>1. /\ new \in Seq(VerificationRecord) /\ Len(new) = n /\ new[n] = r
      /\ \A i \in 1 .. Len(log) : new[i] = log[i]
  BY AppendProperties
<1>2. Len(log) \in Nat /\ DOMAIN log = 1 .. Len(log) /\ DOMAIN new = 1 .. n
  BY <1>1, LenProperties
<1>. HIDE DEF new
<1>3. IsFiniteSet(VouchesIn(log)) /\ Cardinality(VouchesIn(log)) \in Nat
  <2>1. VouchesIn(log) \in SUBSET (1 .. Len(log)) /\ IsFiniteSet(1 .. Len(log))
    BY <1>2, FS_Interval DEF VouchesIn
  <2>. QED
    BY <2>1, FS_Subset, FS_CardinalityType
<1>4. CASE r.kind = "vouch"
  <2>1. VouchesIn(new) = VouchesIn(log) \cup {n} /\ n \notin VouchesIn(log)
    BY <1>1, <1>2, <1>4 DEF VouchesIn
  <2>. QED
    BY <1>3, <1>4, <2>1, FS_AddElement DEF new
<1>5. CASE r.kind # "vouch"
  <2>1. VouchesIn(new) = VouchesIn(log)
    BY <1>1, <1>2, <1>5 DEF VouchesIn
  <2>. QED
    BY <1>3, <1>5, <2>1 DEF new
<1>. QED
  BY <1>3, <1>4, <1>5

LEMMA CreditStep ==
  ASSUME Shape, CreditsRecorded, [Next]_vars
  PROVE  CreditsRecorded'
<1>. SUFFICES ASSUME NEW a \in Agents PROVE credits'[a] = Cardinality(VouchesIn(records'[a]))
  BY DEF CreditsRecorded, VouchesIn
<1>1. /\ credits[a] = Cardinality(VouchesIn(records[a])) /\ records[a] \in Seq(VerificationRecord)
      /\ credits \in [Agents -> Nat] /\ records \in [Agents -> Seq(VerificationRecord)]
  BY DEF CreditsRecorded, VouchesIn, Shape, TypeOK
<1>2. CASE UNCHANGED <<status, claims, serial, records, credits, deletes>>
  BY <1>1, <1>2
<1>3. ASSUME NEW w \in Workers, Commit(w) PROVE credits'[a] = Cardinality(VouchesIn(records'[a]))
  <2>. DEFINE p == jobs[w].plan
              n == Cardinality({r \in p.recorded : r.kind = "vouch"})
  <2>1. p.agent \in Agents /\ credits' = [credits EXCEPT ![p.agent] = @ + n]
    BY <1>3, CommitRecords DEF Commit
  <2>2. CASE p.agent # a
    <3>1. credits'[a] = credits[a] /\ records'[a] = records[a]
      BY <1>1, <1>3, <2>1, <2>2, CommitRecords
    <3>. QED
      BY <1>1, <3>1
  <2>3. CASE p.agent = a /\ Replaces(p)
    <3>1. p.recorded = {}
      BY <2>3 DEF Replaces
    <3>2. n = 0
      BY <3>1, FS_EmptySet
    <3>3. records'[a] = records[a]
      BY <1>3, <2>3, <3>1, CommitRecords DEF Adds
    <3>. HIDE DEF n
    <3>. QED
      BY <1>1, <2>1, <2>3, <3>2, <3>3
  <2>4. CASE p.agent = a /\ ~Replaces(p)
    <3>1. PICK kind \in Kinds, cap \in MaybeCap, self \in BOOLEAN :
            /\ Adds(p, kind, cap, self)
            /\ records'[a] = Append(records[a], Record(kind, cap, self))
      BY <1>3, <2>4, CommitRecords
    <3>. DEFINE r == Record(kind, cap, self)
    <3>2. p.recorded = {r} /\ r \in VerificationRecord /\ records'[a] = Append(records[a], r)
      BY <3>1, RecordType DEF Adds
    <3>. HIDE DEF r
    <3>3. n = IF r.kind = "vouch" THEN 1 ELSE 0
      <4>1. CASE r.kind = "vouch"
        <5>1. {x \in p.recorded : x.kind = "vouch"} = {r}
          BY <3>2, <4>1
        <5>. QED
          BY <4>1, <5>1, FS_Singleton
      <4>2. CASE r.kind # "vouch"
        <5>1. {x \in p.recorded : x.kind = "vouch"} = {}
          BY <3>2, <4>2
        <5>. QED
          BY <4>2, <5>1, FS_EmptySet
      <4>. QED
        BY <4>1, <4>2
    <3>. HIDE DEF n
    <3>4. credits'[a] = credits[a] + n
      BY <1>1, <2>1, <2>4
    <3>5. Cardinality(VouchesIn(records'[a])) =
            Cardinality(VouchesIn(records[a])) + IF r.kind = "vouch" THEN 1 ELSE 0
      BY <1>1, <3>2, VouchCount
    <3>. QED
      BY <1>1, <3>3, <3>4, <3>5
  <2>. QED
    BY <2>2, <2>3, <2>4
<1>4. ASSUME NEW x \in Agents, RegisterAgent(x)
      PROVE  credits'[a] = Cardinality(VouchesIn(records'[a]))
  <2>1. credits' = credits
    BY <1>4 DEF RegisterAgent
  <2>2. CASE x # a
    BY <1>1, <1>4, <2>1, <2>2, RegisterRecords
  <2>3. CASE x = a
    <3>. DEFINE r == Record("claim", None, FALSE)
    <3>1. records'[a] = Append(records[a], r) /\ r \in VerificationRecord /\ r.kind # "vouch"
      BY <1>4, <2>3, RegisterRecords
    <3>. HIDE DEF r
    <3>2. Cardinality(VouchesIn(records'[a])) = Cardinality(VouchesIn(records[a])) + 0
      BY <1>1, <3>1, VouchCount
    <3>. QED
      BY <1>1, <2>1, <3>2
  <2>. QED
    BY <2>2, <2>3
<1>5. ASSUME NEW x \in Agents, DeleteAgent(x)
      PROVE  credits'[a] = Cardinality(VouchesIn(records'[a]))
  <2>1. /\ records' = [records EXCEPT ![x] = <<>>]
        /\ credits' = [credits EXCEPT ![x] = 0]
    BY <1>5 DEF DeleteAgent
  <2>2. VouchesIn(<<>>) = {} /\ Cardinality({}) = 0
    BY FS_EmptySet DEF VouchesIn
  <2>. QED
    BY <1>1, <2>1, <2>2
<1>. QED
  BY <1>2, <1>3, <1>4, <1>5, Effects

(***************************************************************************)
(* A credit for a verified capability stands for a vouch on record, one    *)
(* for one, on both databases, whatever fails or is deleted.               *)
(***************************************************************************)
THEOREM CreditsForVouches == Spec => []CreditsRecorded
<1>1. Init => CreditsRecorded
  <2>1. VouchesIn(<<>>) = {} /\ Cardinality({}) = 0
    BY FS_EmptySet DEF VouchesIn
  <2>. QED
    BY <2>1 DEF Init, CreditsRecorded, VouchesIn
<1>. QED
  BY <1>1, CreditStep, ShapeSound, PTL DEF Spec

-----------------------------------------------------------------------------
(* Evidence, where ids are not used again *)

\* A session that changes claims names the agent's rows for the capability
\* of its record, or rows that are gone.
Addressed(w) ==
  /\ jobs[w].stage = "read" =>
       \A c \in jobs[w].claims :
         /\ c.id <= serial /\ c.agent = jobs[w].agent
         /\ \A d \in claims : d.id = c.id => Same(d, c)
  /\ jobs[w].stage = "write" =>
       \A u \in jobs[w].plan.changed :
         /\ u.id <= serial
         /\ \A d \in claims : \A r \in jobs[w].plan.recorded :
              d.id = u.id => d.agent = jobs[w].plan.agent /\ d.cap = r.cap

AddressInv == \A w \in Workers : Addressed(w)

\* Rows of claims come from older rows or have new numbers.
LEMMA RowsMove ==
  ASSUME Postgres, Shape, [Next]_vars
  PROVE  /\ serial' \in Nat /\ serial <= serial'
         /\ \A d \in claims' : d.id > serial \/ \E c \in claims : Same(d, c)
<1>0. serial \in Nat
  BY DEF Shape, TypeOK
<1>1. CASE UNCHANGED <<status, claims, serial, records, credits, deletes>>
  BY <1>0, <1>1 DEF Same
<1>2. ASSUME NEW w \in Workers, Commit(w)
      PROVE  /\ serial' \in Nat /\ serial <= serial'
             /\ \A d \in claims' : d.id > serial \/ \E c \in claims : Same(d, c)
  <2>. DEFINE p == jobs[w].plan
  <2>1. /\ p \in WriteSet /\ p.agent \in Agents /\ p.inserted \in Seq(ClaimValue)
    BY <1>2, CommitRecords DEF WriteSet, ClaimValue
  <2>2. claims' = Written(p) /\ serial' = serial + Len(p.inserted) /\ Len(p.inserted) \in Nat
    BY <1>2, <2>1 DEF Commit
  <2>. HIDE DEF p
  <2>3. Remaining(p) \in SUBSET claims
    BY DEF Remaining
  <2>4. \A d \in Inserted(p.agent, p.inserted, Remaining(p)) : d.id > serial
    BY <2>1, <2>3, InsertedRows DEF Shape
  <2>5. \A d \in Written(p) : d.id > serial \/ \E c \in claims : Same(d, c)
    BY <2>1, <2>3, <2>4, WrittenRows DEF Shape
  <2>. QED
    BY <1>0, <2>2, <2>5
<1>3. ASSUME NEW a \in Agents, RegisterAgent(a)
      PROVE  /\ serial' \in Nat /\ serial <= serial'
             /\ \A d \in claims' : d.id > serial \/ \E c \in claims : Same(d, c)
  <2>1. PICK list \in ClaimLists({"claimed"}) :
          claims' = claims \cup Inserted(a, list, claims) /\ serial' = serial + Len(list)
    BY <1>3 DEF RegisterAgent
  <2>2. list \in Seq(ClaimValue) /\ Len(list) \in Nat
    <3>1. list \in Seq(ClaimValue)
      BY ListShape DEF ClaimValue, Evidence
    <3>. QED
      BY <3>1, LenProperties
  <2>3. \A d \in Inserted(a, list, claims) : d.id > serial
    BY <2>2, InsertedRows DEF Shape
  <2>. QED
    BY <1>0, <2>1, <2>2, <2>3 DEF Same
<1>4. ASSUME NEW a \in Agents, DeleteAgent(a)
      PROVE  /\ serial' \in Nat /\ serial <= serial'
             /\ \A d \in claims' : d.id > serial \/ \E c \in claims : Same(d, c)
  BY <1>0, <1>4 DEF DeleteAgent, Same
<1>. QED
  BY <1>1, <1>2, <1>3, <1>4, Effects

\* What a session addresses it addresses still after a step of another.
LEMMA AddressStays ==
  ASSUME Postgres, Shape, [Next]_vars, NEW w \in Workers, Addressed(w), jobs'[w] = jobs[w]
  PROVE  Addressed(w)'
<1>1. /\ serial \in Nat /\ serial' \in Nat /\ serial <= serial'
      /\ \A d \in claims' : d.id > serial \/ \E c \in claims : Same(d, c)
  BY RowsMove DEF Shape, TypeOK
<1>2. CASE jobs[w].stage = "read"
  <2>. SUFFICES ASSUME NEW c \in jobs[w].claims
                PROVE  /\ c.id <= serial' /\ c.agent = jobs[w].agent
                       /\ \A d \in claims' : d.id = c.id => Same(d, c)
    BY <1>2 DEF Addressed, Same
  <2>1. c \in Claim /\ c.id \in Nat
    BY <1>2, JobFields DEF Shape, Claim
  <2>2. c.id <= serial /\ c.agent = jobs[w].agent /\ \A d \in claims : d.id = c.id => Same(d, c)
    BY <1>2 DEF Addressed
  <2>3. ASSUME NEW d \in claims', d.id = c.id PROVE Same(d, c)
    <3>1. PICK b \in claims : Same(d, b)
      BY <1>1, <2>1, <2>2, <2>3
    <3>2. Same(b, c)
      BY <2>2, <2>3, <3>1 DEF Same
    <3>. QED
      BY <3>1, <3>2 DEF Same
  <2>. QED
    BY <1>1, <2>1, <2>2, <2>3
<1>3. CASE jobs[w].stage = "write"
  <2>. SUFFICES ASSUME NEW u \in jobs[w].plan.changed
                PROVE  /\ u.id <= serial'
                       /\ \A d \in claims' : \A r \in jobs[w].plan.recorded :
                            d.id = u.id => d.agent = jobs[w].plan.agent /\ d.cap = r.cap
    BY <1>3 DEF Addressed
  <2>1. u.id \in Nat
    BY <1>3, JobFields DEF Shape, WriteSet
  <2>2. /\ u.id <= serial
        /\ \A d \in claims : \A r \in jobs[w].plan.recorded :
             d.id = u.id => d.agent = jobs[w].plan.agent /\ d.cap = r.cap
    BY <1>3 DEF Addressed
  <2>3. ASSUME NEW d \in claims', NEW r \in jobs[w].plan.recorded, d.id = u.id
        PROVE  d.agent = jobs[w].plan.agent /\ d.cap = r.cap
    <3>1. PICK b \in claims : Same(d, b)
      BY <1>1, <2>1, <2>2, <2>3
    <3>. QED
      BY <2>2, <2>3, <3>1 DEF Same
  <2>. QED
    BY <1>1, <2>1, <2>2, <2>3
<1>4. CASE jobs[w].stage \notin {"read", "write"}
  BY <1>4 DEF Addressed
<1>. QED
  BY <1>2, <1>3, <1>4

LEMMA AddressStep ==
  ASSUME Postgres, Shape, AddressInv, [Next]_vars
  PROVE  AddressInv'
<1>. SUFFICES ASSUME NEW w \in Workers PROVE Addressed(w)'
  BY DEF AddressInv
<1>1. CASE jobs'[w] = jobs[w]
  BY <1>1, AddressStays DEF AddressInv
<1>2. CASE jobs'[w] # jobs[w]
  <2>1. ASSUME NEW v \in Workers, NEW a \in Agents, PutClaims(v, a) PROVE Addressed(w)'
    <3>1. PICK plan \in WriteSet : Replaces(plan) /\ Queue(v, plan)
      BY <2>1, PutQueues
    <3>2. jobs'[w] = [stage |-> "write", plan |-> plan]
      BY <1>2, <3>1 DEF Queue, Shape, TypeOK
    <3>3. jobs'[w].stage = "write" /\ jobs'[w].plan.changed = {}
      BY <3>1, <3>2 DEF Replaces
    <3>. QED
      BY <3>3 DEF Addressed
  <2>2. ASSUME NEW v \in Workers, NEW kind \in Kinds, NEW cap \in MaybeCap, NEW self \in BOOLEAN,
               RecordVerification(v, kind, cap, self)
        PROVE  Addressed(w)'
    <3>1. PICK plan \in WriteSet :
            /\ Adds(plan, kind, cap, self) /\ Queue(v, plan) /\ plan.agent = jobs[v].agent
            /\ \A u \in plan.changed : \E c \in jobs[v].claims : c.cap = cap /\ c.id = u.id
      BY <2>2, RecordQueues
    <3>2. v = w /\ jobs'[w] = [stage |-> "write", plan |-> plan]
      BY <1>2, <3>1 DEF Queue, Shape, TypeOK
    <3>3. claims' = claims /\ serial' = serial /\ jobs[w].stage = "read"
      BY <2>2, <3>1, <3>2 DEF RecordVerification, Queue
    <3>4. \A c \in jobs[w].claims :
            /\ c.id <= serial /\ c.agent = jobs[w].agent
            /\ \A d \in claims : d.id = c.id => Same(d, c)
      BY <3>3 DEF AddressInv, Addressed
    <3>5. \A r \in plan.recorded : r.cap = cap
      BY <3>1, RecordType DEF Adds
    <3>6. \A u \in plan.changed :
            /\ u.id <= serial
            /\ \A d \in claims : \A r \in plan.recorded :
                 d.id = u.id => d.agent = plan.agent /\ d.cap = r.cap
      BY <3>1, <3>2, <3>4, <3>5 DEF Same
    <3>7. jobs'[w].stage = "write" /\ jobs'[w].plan = plan
      BY <3>2
    <3>. QED
      BY <3>3, <3>6, <3>7 DEF Addressed
  <2>3. ASSUME NEW v \in Workers, NEW a \in Agents, BeginVerification(v, a) PROVE Addressed(w)'
    <3>1. v = w /\ claims' = claims /\ serial' = serial
          /\ jobs'[w].stage = "read" /\ jobs'[w].agent = a /\ jobs'[w].claims = ClaimsOf(a)
      BY <1>2, <2>3 DEF BeginVerification, Shape, TypeOK, tables
    <3>2. \A c \in ClaimsOf(a) :
            /\ c.id <= serial /\ c.agent = a /\ \A d \in claims : d.id = c.id => Same(d, c)
      BY DEF ClaimsOf, Shape, Numbered, TypeOK, Same
    <3>. QED
      BY <3>1, <3>2 DEF Addressed, Same
  <2>4. ASSUME NEW v \in Workers, Commit(v) \/ Drop(v) PROVE Addressed(w)'
    <3>1. jobs'[w] = Idle
      BY <1>2, <2>4 DEF Commit, Drop, Shape, TypeOK
    <3>2. jobs'[w].stage = "idle"
      BY <3>1, IdleJob
    <3>. QED
      BY <3>2 DEF Addressed
  <2>5. ASSUME NEW a \in Agents, RegisterAgent(a) \/ DeleteAgent(a) PROVE FALSE
    BY <1>2, <2>5 DEF RegisterAgent, DeleteAgent
  <2>6. CASE UNCHANGED vars
    BY <1>2, <2>6 DEF vars
  <2>. QED
    BY <2>1, <2>2, <2>3, <2>4, <2>5, <2>6 DEF Next
<1>. QED
  BY <1>1, <1>2

\* Evidence other than what its row was inserted with has its record in a history.
Earned(c, log) ==
  c.evidence # c.sent =>
    \E i \in DOMAIN log : log[i].cap = c.cap /\ EvidenceAfter(c.sent, log[i].kind) = c.evidence

LEMMA EarnedStays ==
  ASSUME NEW c, NEW d, NEW old \in Seq(VerificationRecord), NEW new, Grown(old, new),
         Earned(c, old), d.evidence = c.evidence, d.sent = c.sent, d.cap = c.cap
  PROVE  Earned(d, new)
<1>1. \A i \in DOMAIN old : i \in DOMAIN new /\ new[i] = old[i]
  BY GrownKeeps
<1>. QED
  BY <1>1 DEF Earned

LEMMA EvidenceStep ==
  ASSUME Postgres, Shape, AddressInv, [Next]_vars, EvidenceEarned
  PROVE  EvidenceEarned'
<1>. SUFFICES ASSUME NEW d \in claims' PROVE Earned(d, records'[d.agent])
  BY DEF EvidenceEarned, Earned, EvidenceAfter
<1>1. \A c \in claims : Earned(c, records[c.agent]) /\ c \in Claim /\ c.agent \in Agents
  BY DEF EvidenceEarned, Earned, Shape, TypeOK, Claim
<1>2. \A a \in Agents : records[a] \in Seq(VerificationRecord)
  BY DEF Shape, TypeOK
<1>3. \A log : d.evidence = d.sent => Earned(d, log)
  BY DEF Earned
<1>4. CASE UNCHANGED <<status, claims, serial, records, credits, deletes>>
  BY <1>1, <1>4
<1>5. ASSUME NEW w \in Workers, Commit(w) PROVE Earned(d, records'[d.agent])
  <2>. DEFINE p == jobs[w].plan
              a == p.agent
  <2>1. /\ p \in WriteSet /\ a \in Agents /\ jobs[w].stage = "write" /\ claims' = Written(p)
        /\ \A x \in Agents : x # a => records'[x] = records[x]
        /\ \/ Replaces(p) /\ records'[a] = records[a]
           \/ \E kind \in Kinds, cap \in MaybeCap, self \in BOOLEAN :
                Adds(p, kind, cap, self) /\ records'[a] = Append(records[a], Record(kind, cap, self))
    BY <1>5, CommitRecords DEF Commit
  <2>2. \A u \in p.changed :
          \A c \in claims : \A r \in p.recorded : c.id = u.id => c.agent = a /\ c.cap = r.cap
    BY <2>1 DEF AddressInv, Addressed
  <2>. HIDE DEF p
  <2>3. \A x \in Agents : Grown(records[x], records'[x])
    BY <2>1, RecordType DEF Grown
  <2>4. CASE d \in Inserted(a, p.inserted, Remaining(p))
    <3>1. Remaining(p) \in SUBSET claims /\ p.inserted \in Seq(ClaimValue)
      BY <2>1 DEF Remaining, WriteSet, ClaimValue
    <3>2. d.sent = d.evidence
      BY <2>1, <2>4, <3>1, InsertedRows DEF Shape
    <3>. QED
      BY <1>3, <3>2
  <2>5. CASE d \notin Inserted(a, p.inserted, Remaining(p))
    <3>1. PICK c \in Remaining(p) :
            /\ Same(d, c)
            /\ d = c \/ \E u \in p.changed : u.id = c.id /\ d.evidence = u.evidence
      BY <2>1, <2>5, WrittenRows DEF Shape
    <3>2. c \in claims /\ d.agent = c.agent /\ d.cap = c.cap /\ d.sent = c.sent
      BY <3>1 DEF Remaining, Same
    <3>3. CASE d = c
      BY <1>1, <1>2, <2>3, <3>2, <3>3, EarnedStays
    <3>4. CASE d # c
      <4>1. PICK u \in p.changed : u.id = c.id /\ d.evidence = u.evidence
        BY <3>1, <3>4
      <4>2. PICK kind \in Kinds, cap \in MaybeCap, self \in BOOLEAN :
              Adds(p, kind, cap, self) /\ records'[a] = Append(records[a], Record(kind, cap, self))
        BY <2>1, <4>1 DEF Replaces
      <4>. DEFINE r == Record(kind, cap, self)
                  n == Len(records[a]) + 1
      <4>3. /\ r \in VerificationRecord /\ r.kind = kind /\ r.cap = cap /\ r \in p.recorded
            /\ kind \in {"evidence", "vouch", "dispute"}
            /\ d.evidence = EvidenceAfter("claimed", kind)
        BY <4>1, <4>2, RecordType DEF Adds
      <4>. HIDE DEF r
      <4>4. d.agent = a /\ d.cap = r.cap
        BY <2>2, <3>2, <4>1, <4>3
      <4>5. records'[a][n] = r /\ n \in DOMAIN records'[a]
        <5>1. /\ Append(records[a], r) \in Seq(VerificationRecord)
              /\ Len(Append(records[a], r)) = n /\ Append(records[a], r)[n] = r
          BY <1>2, <2>1, <4>3, AppendProperties
        <5>2. n \in 1 .. n
          BY <1>2, <2>1
        <5>3. records'[a] = Append(records[a], r)
          BY <4>2 DEF r
        <5>. QED
          BY <5>1, <5>2, <5>3, LenProperties
      <4>. HIDE DEF n
      <4>6. EvidenceAfter(d.sent, kind) = EvidenceAfter("claimed", kind)
        BY <4>3 DEF EvidenceAfter
      <4>7. /\ records'[a][n].cap = d.cap
            /\ EvidenceAfter(d.sent, records'[a][n].kind) = d.evidence
        BY <4>3, <4>4, <4>5, <4>6
      <4>. QED
        BY <4>4, <4>5, <4>7 DEF Earned
    <3>. QED
      BY <3>3, <3>4
  <2>. QED
    BY <2>4, <2>5
<1>6. ASSUME NEW a \in Agents, RegisterAgent(a) PROVE Earned(d, records'[d.agent])
  <2>1. PICK list \in ClaimLists({"claimed"}) : claims' = claims \cup Inserted(a, list, claims)
    BY <1>6 DEF RegisterAgent
  <2>2. list \in Seq(ClaimValue)
    BY ListShape DEF ClaimValue, Evidence
  <2>3. CASE d \in Inserted(a, list, claims)
    <3>1. d.sent = d.evidence
      BY <2>2, <2>3, InsertedRows DEF Shape
    <3>. QED
      BY <1>3, <3>1
  <2>4. CASE d \in claims
    <3>1. Grown(records[d.agent], records'[d.agent])
      BY <1>1, <1>6, <2>4, RegisterRecords DEF Grown
    <3>. QED
      BY <1>1, <1>2, <2>4, <3>1, EarnedStays
  <2>. QED
    BY <2>1, <2>3, <2>4
<1>7. ASSUME NEW a \in Agents, DeleteAgent(a) PROVE Earned(d, records'[d.agent])
  <2>1. d \in claims /\ d.agent # a
    BY <1>7 DEF DeleteAgent, ClaimsOf
  <2>2. records'[d.agent] = records[d.agent]
    BY <1>1, <1>7, <2>1 DEF DeleteAgent, Shape, TypeOK
  <2>. QED
    BY <1>1, <2>1, <2>2
<1>. QED
  BY <1>4, <1>5, <1>6, <1>7, Effects

(***************************************************************************)
(* Where ids are not used again, what a claim shows is what it was stored  *)
(* with or is earned by a record of that capability of that agent,         *)
(* whatever evidence clients send, and whatever replaced the rows in       *)
(* between.                                                                *)
(***************************************************************************)
THEOREM EvidenceIsEarned ==
  ASSUME Postgres
  PROVE  Spec => []EvidenceEarned
<1>1. Init => AddressInv /\ EvidenceEarned
  BY IdleJob DEF Init, AddressInv, Addressed, EvidenceEarned
<1>2. Shape /\ AddressInv /\ EvidenceEarned /\ [Next]_vars => AddressInv' /\ EvidenceEarned'
  BY AddressStep, EvidenceStep
<1>. QED
  BY <1>1, <1>2, ShapeSound, PTL DEF Spec

-----------------------------------------------------------------------------
(* No claim is verified of itself *)

\* Nothing that is stored was sent as verified.
NoneSentVerified == \A c \in claims : c.sent \notin {"verified", "community-verified"}

\* A claim shows verified evidence as a client sent it, or has its vouch.
VerifiedOrSent ==
  \A c \in claims :
    c.evidence \in {"verified", "community-verified"} =>
      \/ c.evidence = c.sent
      \/ \E i \in DOMAIN records[c.agent] :
           records[c.agent][i].kind = "vouch" /\ records[c.agent][i].cap = c.cap

(***************************************************************************)
(* Where ids are not used again, verified evidence without a vouch of that *)
(* capability is what a client sent (the PUT takes any); so where none of  *)
(* the claims stored was sent as verified, none is auto-verified.  (On     *)
(* SQLite ids are used again: the run credence_row_ids shows what comes of *)
(* it.)                                                                    *)
(***************************************************************************)
THEOREM UnvouchedWasSent ==
  ASSUME Postgres
  PROVE  Spec => [](VerifiedOrSent /\ (NoneSentVerified => NeverAutoVerified))
<1>1. TypeOK /\ EvidenceEarned => VerifiedOrSent
  <2>. SUFFICES ASSUME TypeOK, EvidenceEarned, NEW c \in claims, c.evidence # c.sent,
                       c.evidence \in {"verified", "community-verified"}
                PROVE  \E i \in DOMAIN records[c.agent] :
                         records[c.agent][i].kind = "vouch" /\ records[c.agent][i].cap = c.cap
    BY DEF VerifiedOrSent
  <2>1. PICK i \in DOMAIN records[c.agent] :
          /\ records[c.agent][i].cap = c.cap
          /\ EvidenceAfter(c.sent, records[c.agent][i].kind) = c.evidence
    BY DEF EvidenceEarned
  <2>2. records[c.agent] \in Seq(VerificationRecord)
    BY DEF TypeOK, Claim
  <2>3. records[c.agent][i] \in VerificationRecord
    BY <2>2
  <2>4. records[c.agent][i].kind = "vouch"
    BY <2>1, <2>3 DEF EvidenceAfter, VerificationRecord, Kinds
  <2>. QED
    BY <2>1, <2>4
<1>2. VerifiedOrSent /\ NoneSentVerified => NeverAutoVerified
  BY DEF VerifiedOrSent, NoneSentVerified, NeverAutoVerified
<1>. QED
  BY <1>1, <1>2, TypeCorrect, EvidenceIsEarned, PTL
=============================================================================
