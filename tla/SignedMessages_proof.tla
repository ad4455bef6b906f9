------------------------ MODULE SignedMessages_proof ------------------------
(***************************************************************************)
(* Proofs about AgentDirectory and SignedMessages, for any agents, keys,   *)
(* identifiers, threads and clients and any number of requests: DIDs stay  *)
(* unique, only a stale session can part a key from its DID, what is       *)
(* stored for a keyed sender is signed by it, and a signature is never     *)
(* invalid, nor a rightly signed request refused, without a reason.        *)
(***************************************************************************)
EXTENDS SignedMessages, TLAPS

-----------------------------------------------------------------------------
(* The directory *)

\* A row about to be written is in order if the row it came from was.
JobSound(job) ==
  job.stage = "write" => (Consistent(job.old) => Consistent(job.new))

DirInv ==
  /\ DirectoryTypeOK
  /\ DidsUnique
  /\ \A w \in Workers : JobSound(jobs[w])

\* The shapes of a request.
LEMMA JobShape ==
  ASSUME NEW job \in Job
  PROVE  /\ job.stage = "read" => job.agent \in Agents /\ job.old \in Row
         /\ job.stage = "write" =>
              job.agent \in Agents /\ job.old \in Row \cup {NoRow} /\ job.new \in Row
         /\ job.stage \in {"idle", "read", "write"}
         /\ job.stage = "idle" <=> job = Idle
  BY DEF Job, Idle

LEMMA RowShape ==
  ASSUME NEW did \in DIDs, NEW key \in Keys \cup {None}, NEW demo \in BOOLEAN
  PROVE  [did |-> did, public_key |-> key, fictional |-> demo] \in Row
  BY DEF Row

LEMMA NoRowConsistent == Consistent(NoRow) /\ NoRow \notin Row /\ None \notin DIDs
  BY IdentityAssumption DEF Consistent, NoRow, Row, DIDs, is_demo_did

\* Nothing but one thread's request changes, and it is sound.
LEMMA JobStep ==
  ASSUME DirInv, NEW w \in Workers, NEW job \in Job, Goto(w, job), JobSound(job),
         agents' = agents, requests' \in Nat
  PROVE  DirInv'
<1>1. DirectoryTypeOK'
  BY DEF DirInv, DirectoryTypeOK, Goto
<1>2. DidsUnique'
  BY DEF DirInv, DidsUnique, Registered
<1>3. ASSUME NEW v \in Workers PROVE JobSound(jobs[v])'
  <2>1. jobs'[v] = IF v = w THEN job ELSE jobs[v]
    BY DEF Goto, DirInv, DirectoryTypeOK
  <2>2. JobSound(jobs[v])
    BY DEF DirInv
  <2> QED BY <2>1, <2>2 DEF JobSound
<1> QED BY <1>1, <1>2, <1>3 DEF DirInv

LEMMA RegisterStep ==
  ASSUME DirInv, NEW w \in Workers, RegisterAgent(w) PROVE DirInv'
<1>1. PICK a \in Agents \ Registered, did \in DIDs, key \in Keys \cup {None}, demo \in BOOLEAN :
        /\ Resolvable(did, key)
        /\ Goto(w, [stage |-> "write", agent |-> a, old |-> NoRow,
                    new |-> AgentCreate(did, key, demo)])
  BY DEF RegisterAgent
<1> DEFINE pub == resolve_registration_public_key(did, key)
           new == [did |-> did, public_key |-> pub, fictional |-> demo \/ is_demo_did(did)]
           job == [stage |-> "write", agent |-> a, old |-> NoRow, new |-> new]
<1>2. pub \in Keys \cup {None} /\ (did \in Keys => pub = did)
  BY DEF resolve_registration_public_key, try_public_key_from_did
<1>3. (demo \/ is_demo_did(did)) \in BOOLEAN
  BY DEF is_demo_did
<1>4. new \in Row
  BY <1>2, <1>3 DEF Row
<1>5. Consistent(new)
  BY <1>2 DEF Consistent, is_demo_did
<1> HIDE DEF new
<1>6. job \in Job /\ JobSound(job)
  BY <1>4, <1>5 DEF Job, JobSound
<1>7. agents' = agents /\ requests' \in Nat
  BY DEF RegisterAgent, Arrives, DirInv, DirectoryTypeOK
<1> QED BY <1>1, <1>6, <1>7, JobStep DEF new, AgentCreate

LEMMA LoadStep ==
  ASSUME DirInv, NEW w \in Workers, LoadAgent(w) PROVE DirInv'
<1>1. PICK a \in Registered : Goto(w, [stage |-> "read", agent |-> a, old |-> agents[a]])
  BY DEF LoadAgent
<1>2. a \in Agents /\ agents[a] \in Row
  BY DEF Registered, DirInv, DirectoryTypeOK
<1>3. [stage |-> "read", agent |-> a, old |-> agents[a]] \in Job
      /\ JobSound([stage |-> "read", agent |-> a, old |-> agents[a]])
  BY <1>2 DEF Job, JobSound
<1>4. agents' = agents /\ requests' \in Nat
  BY DEF LoadAgent, Arrives, DirInv, DirectoryTypeOK
<1> QED BY <1>1, <1>3, <1>4, JobStep

\* Writing a row that is in order if the loaded one is.
LEMMA WriteStep ==
  ASSUME DirInv, NEW w \in Workers, jobs[w].stage = "read",
         NEW did \in DIDs, NEW key \in Keys \cup {None}, NEW demo \in BOOLEAN,
         Write(w, did, key, demo),
         Consistent(jobs[w].old) => (did \in Keys => key = did) /\ (did \in Examples => demo)
  PROVE  DirInv'
<1> DEFINE new == [did |-> did, public_key |-> key, fictional |-> demo]
           job == [stage |-> "write", agent |-> jobs[w].agent, old |-> jobs[w].old, new |-> new]
<1>1. jobs[w].agent \in Agents /\ jobs[w].old \in Row
  BY JobShape DEF DirInv, DirectoryTypeOK
<1>2. new \in Row
  BY DEF Row
<1>3. Consistent(jobs[w].old) => Consistent(new)
  BY DEF Consistent, is_demo_did
<1>4. Goto(w, job) /\ agents' = agents /\ requests' \in Nat
  BY DEF Write, DirInv, DirectoryTypeOK
<1> HIDE DEF new
<1>5. job \in Job /\ JobSound(job)
  BY <1>1, <1>2, <1>3 DEF Job, JobSound
<1> QED BY <1>4, <1>5, JobStep

LEMMA UpdateStep ==
  ASSUME DirInv, NEW w \in Workers, UpdateAgent(w) PROVE DirInv'
<1> DEFINE row == jobs[w].old
<1>1. PICK did \in DIDs, given \in SUBSET {"public_key", "fictional"},
           key \in Keys \cup {None}, demo \in BOOLEAN :
        LET moved == did # row.did
            rekeyed == moved \/ "public_key" \in given
            supplied == IF "public_key" \in given THEN key ELSE None
        IN  /\ "fictional" \in given /\ is_demo_did(did) => demo
            /\ Write(w, did,
                 IF rekeyed THEN resolve_registration_public_key(did, supplied)
                   ELSE row.public_key,
                 IF "fictional" \in given THEN demo
                   ELSE row.fictional \/ (moved /\ is_demo_did(did)))
  <2>1. PICK body \in AgentUpdate :
          LET row1 == jobs[w].old
              did == body.did
              moved == did # row1.did
              rekeyed == moved \/ "public_key" \in body.given
              supplied == IF "public_key" \in body.given THEN body.public_key ELSE None
          IN  /\ "fictional" \in body.given /\ is_demo_did(did) => body.fictional
              /\ Write(w, did,
                   IF rekeyed THEN resolve_registration_public_key(did, supplied)
                     ELSE row1.public_key,
                   IF "fictional" \in body.given THEN body.fictional
                     ELSE row1.fictional \/ (moved /\ is_demo_did(did)))
    BY DEF UpdateAgent
  <2>2. /\ body.did \in DIDs
        /\ body.given \in SUBSET {"public_key", "fictional"}
        /\ body.public_key \in Keys \cup {None}
        /\ body.fictional \in BOOLEAN
    BY DEF AgentUpdate
  <2> QED BY <2>1, <2>2
<1> DEFINE moved == did # row.did
           rekeyed == moved \/ "public_key" \in given
           supplied == IF "public_key" \in given THEN key ELSE None
           pub == IF rekeyed THEN resolve_registration_public_key(did, supplied)
                    ELSE row.public_key
           fict == IF "fictional" \in given THEN demo
                     ELSE row.fictional \/ (moved /\ is_demo_did(did))
<1>2. jobs[w].stage = "read"
  BY DEF UpdateAgent
<1>3. row \in Row
  BY <1>2, JobShape DEF DirInv, DirectoryTypeOK
<1>4. row.public_key \in Keys \cup {None} /\ row.fictional \in BOOLEAN /\ row.did \in DIDs
  BY <1>3 DEF Row
<1>5. pub \in Keys \cup {None}
  BY <1>4 DEF resolve_registration_public_key, try_public_key_from_did
<1>6. fict \in BOOLEAN
  BY <1>4 DEF is_demo_did
<1>7. Consistent(row) => (did \in Keys => pub = did)
  BY <1>4 DEF Consistent, resolve_registration_public_key, try_public_key_from_did
<1>8. Consistent(row) => (did \in Examples => fict)
  BY <1>1, <1>4 DEF Consistent, is_demo_did
<1>9. Write(w, did, pub, fict)
  BY <1>1
<1> HIDE DEF pub, fict, row
<1>10. Consistent(jobs[w].old) => (did \in Keys => pub = did) /\ (did \in Examples => fict)
  BY <1>7, <1>8 DEF row
<1> QED BY <1>2, <1>5, <1>6, <1>9, <1>10, WriteStep

LEMMA FixStep ==
  ASSUME DirInv, NEW w \in Workers, ManualFix(w) PROVE DirInv'
<1> DEFINE row == jobs[w].old
<1>1. PICK did \in DIDs, given \in SUBSET {"fictional"}, demo \in BOOLEAN :
        LET res == resolve_registration_public_key(did, None)
        IN  /\ "fictional" \in given /\ is_demo_did(did) => demo
            /\ Write(w, did, IF res = None THEN row.public_key ELSE res,
                 IF given # {} THEN demo ELSE row.fictional \/ is_demo_did(did))
  BY DEF ManualFix
<1> DEFINE res == resolve_registration_public_key(did, None)
           pub == IF res = None THEN row.public_key ELSE res
           fict == IF given # {} THEN demo ELSE row.fictional \/ is_demo_did(did)
<1>2. jobs[w].stage = "read"
  BY DEF ManualFix
<1>3. row \in Row
  BY <1>2, JobShape DEF DirInv, DirectoryTypeOK
<1>4. row.public_key \in Keys \cup {None} /\ row.fictional \in BOOLEAN
  BY <1>3 DEF Row
<1>5. res = IF did \in Keys THEN did ELSE None
  BY DEF resolve_registration_public_key, try_public_key_from_did
<1>6. pub \in Keys \cup {None} /\ (did \in Keys => pub = did)
  BY <1>4, <1>5, IdentityAssumption
<1>7. fict \in BOOLEAN
  BY <1>4 DEF is_demo_did
<1>8. did \in Examples => fict
  <2>1. given # {} => "fictional" \in given
    OBVIOUS
  <2> QED BY <1>1, <2>1 DEF is_demo_did
<1>9. Write(w, did, pub, fict)
  BY <1>1
<1> HIDE DEF pub, fict, row
<1> QED BY <1>2, <1>6, <1>7, <1>8, <1>9, WriteStep

\* What the UPDATE leaves in the row: the new row itself if the old one was
\* still there.
LEMMA MergeFields ==
  ASSUME NEW row \in Row, NEW old \in Row, NEW new \in Row
  PROVE  Merge(row, old, new) \in Row /\ (row = old => Merge(row, old, new) = new)
<1>1. DOMAIN row = {"did", "public_key", "fictional"}
  BY DEF Row
<1>2. Merge(row, old, new) =
        [did |-> IF new.did # old.did THEN new.did ELSE row.did,
         public_key |-> IF new.public_key # old.public_key
                          THEN new.public_key ELSE row.public_key,
         fictional |-> IF new.fictional # old.fictional
                         THEN new.fictional ELSE row.fictional]
  BY <1>1 DEF Merge
<1>3. Merge(row, old, new) \in Row
  BY <1>2 DEF Row
<1>4. row = old => Merge(row, old, new) = new
  BY <1>2 DEF Row
<1> QED BY <1>3, <1>4

\* The row that a commit writes.
Written(w) ==
  IF jobs[w].old = NoRow THEN jobs[w].new
    ELSE Merge(agents[jobs[w].agent], jobs[w].old, jobs[w].new)

LEMMA CommitFacts ==
  ASSUME DirInv, NEW w \in Workers, Commit(w)
  PROVE  /\ jobs[w].stage = "write" /\ jobs[w].agent \in Agents
         /\ Written(w) \in Row
         /\ agents' = [agents EXCEPT ![jobs[w].agent] = Written(w)]
         /\ UniqueDid(jobs[w].agent, Written(w).did)
         /\ ~Stale(w) => Written(w) = jobs[w].new
<1>1. jobs[w].stage = "write" /\ agents' = [agents EXCEPT ![jobs[w].agent] = Written(w)]
      /\ UniqueDid(jobs[w].agent, Written(w).did)
      /\ (jobs[w].old = NoRow <=> agents[jobs[w].agent] = NoRow)
  BY DEF Commit, Written
<1>2. jobs[w].agent \in Agents /\ jobs[w].old \in Row \cup {NoRow} /\ jobs[w].new \in Row
  BY <1>1, JobShape DEF DirInv, DirectoryTypeOK
<1>3. CASE jobs[w].old = NoRow
  BY <1>1, <1>2, <1>3 DEF Written
<1>4. CASE jobs[w].old # NoRow
  <2>1. agents[jobs[w].agent] \in Row /\ jobs[w].old \in Row
    BY <1>1, <1>2, <1>4 DEF DirInv, DirectoryTypeOK
  <2>2. Written(w) = Merge(agents[jobs[w].agent], jobs[w].old, jobs[w].new)
    BY <1>4 DEF Written
  <2>3. Written(w) \in Row
        /\ (agents[jobs[w].agent] = jobs[w].old => Written(w) = jobs[w].new)
    BY <2>1, <2>2, <1>2, MergeFields
  <2> QED BY <2>3, <1>1, <1>2 DEF Stale
<1> QED BY <1>3, <1>4

LEMMA CommitStep ==
  ASSUME DirInv, NEW w \in Workers, Commit(w) PROVE DirInv'
<1> DEFINE a == jobs[w].agent
<1>1. PICK row \in Row : row = Written(w)
  BY CommitFacts
<1>2. a \in Agents /\ agents' = [agents EXCEPT ![a] = row] /\ ~Taken(row.did, a)
  BY <1>1, CommitFacts DEF UniqueDid
<1>3. Goto(w, Idle) /\ requests' = requests
  BY DEF Commit
<1>4. DirectoryTypeOK'
  <2>1. Idle \in Job
    BY DEF Job
  <2> QED BY <2>1, <1>2, <1>3 DEF DirInv, DirectoryTypeOK, Goto
<1>5. DidsUnique'
  <2> SUFFICES ASSUME NEW b \in Agents, NEW d \in Agents, b # d,
                      agents'[b] # NoRow, agents'[d] # NoRow
               PROVE  agents'[b].did # agents'[d].did
    BY DEF DidsUnique, Registered
  <2>1. \A e \in Agents : agents'[e] = IF e = a THEN row ELSE agents[e]
    BY <1>2 DEF DirInv, DirectoryTypeOK
  <2>2. \A e \in Agents \ {a} : agents[e].did # row.did
    BY <1>2 DEF Taken
  <2>3. CASE b # a /\ d # a
    BY <2>1, <2>3 DEF DirInv, DidsUnique, Registered
  <2> QED BY <2>1, <2>2, <2>3
<1>6. ASSUME NEW v \in Workers PROVE JobSound(jobs[v])'
  <2>1. jobs'[v] = IF v = w THEN Idle ELSE jobs[v]
    BY <1>3 DEF Goto, DirInv, DirectoryTypeOK
  <2>2. JobSound(jobs[v])
    BY DEF DirInv
  <2> QED BY <2>1, <2>2 DEF JobSound, Idle
<1> QED BY <1>4, <1>5, <1>6 DEF DirInv

LEMMA DeleteStep ==
  ASSUME DirInv, NEW w \in Workers, DeleteAgent(w) PROVE DirInv'
<1>1. PICK a \in Registered : agents' = [agents EXCEPT ![a] = NoRow]
  BY DEF DeleteAgent
<1>2. jobs' = jobs /\ requests' \in Nat
  BY DEF DeleteAgent, Arrives, DirInv, DirectoryTypeOK
<1>3. DirectoryTypeOK'
  BY <1>1, <1>2 DEF DirInv, DirectoryTypeOK
<1>4. \A e \in Agents : agents'[e] # NoRow => agents'[e] = agents[e]
  BY <1>1 DEF DirInv, DirectoryTypeOK
<1>5. DidsUnique'
  BY <1>4 DEF DirInv, DidsUnique, Registered
<1>6. \A v \in Workers : JobSound(jobs[v])'
  BY <1>2 DEF DirInv, JobSound
<1> QED BY <1>3, <1>5, <1>6 DEF DirInv

LEMMA DropStep ==
  ASSUME DirInv, NEW w \in Workers, Drop(w) PROVE DirInv'
<1>1. Idle \in Job /\ JobSound(Idle)
  BY DEF Job, JobSound, Idle
<1>2. requests' \in Nat
  BY DEF Drop, DirInv, DirectoryTypeOK
<1> QED BY <1>1, <1>2, JobStep DEF Drop

LEMMA DirectoryKept == DirInv /\ [DirectoryNext]_directory => DirInv'
<1> SUFFICES ASSUME DirInv, [DirectoryNext]_directory PROVE DirInv'
  OBVIOUS
<1>1. CASE UNCHANGED directory
  <2>1. agents' = agents /\ jobs' = jobs /\ requests' = requests
    BY <1>1 DEF directory
  <2> QED BY <2>1 DEF DirInv, DirectoryTypeOK, DidsUnique, Registered, JobSound
<1>2. CASE DirectoryNext
  BY <1>2, RegisterStep, LoadStep, UpdateStep, FixStep, CommitStep, DropStep, DeleteStep
     DEF DirectoryNext
<1> QED BY <1>1, <1>2

LEMMA DirectoryStart == DirectoryInit => DirInv
<1> SUFFICES ASSUME DirectoryInit PROVE DirInv
  OBVIOUS
<1>1. DirectoryTypeOK
  BY DEF DirectoryInit, DirectoryTypeOK, Job
<1>2. DidsUnique
  BY DEF DirectoryInit, DidsUnique, Registered
<1>3. \A w \in Workers : JobSound(jobs[w])
  BY DEF DirectoryInit, JobSound, Idle
<1> QED BY <1>1, <1>2, <1>3 DEF DirInv

-----------------------------------------------------------------------------
(* Messages *)

\* A message the registry has accepted: signed by the key on file if there was
\* one, and any signature it carries confirmed by the key it was checked with.
Sound(m) ==
  /\ m.type # "REQUEST" /\ m.sender.public_key # None => VerifiedBy(m, m.sender.public_key)
  /\ m.signature # None /\ resolve_verify_key(m.sender) # None =>
       VerifiedBy(m, resolve_verify_key(m.sender))

\* What each kind of client asks for.
Meant(s) ==
  /\ s.kind = "cli" => s.type = "ACCEPT"
  /\ s.kind = "checker" <=> s.type = "VERIFY"

\* What clients sign: the payload they send, all but the command line the time
\* they send, all but envelopes for the requester, nobody a time before the stamp.
SignedAsMeant(s) ==
  s.signature # None =>
    /\ s.signature.to = s.to
    /\ s.signature.payload = s.payload
    /\ s.kind # "cli" => s.signature.time = s.time
    /\ s.signature.time >= s.time
    /\ s.kind # "envelope" => s.to = Requester
    /\ s.kind \in Clientele
    /\ Meant(s)

SessionSound(s) ==
  /\ s.stage = "stamped" => s.time <= clock /\ Meant(s)
  /\ s.stage = "sent" => SignedAsMeant(s)
  /\ s.stage = "checked" => Sound(s.message)
  /\ s.stage = "refused" =>
       /\ SignedAsMeant(s.request)
       /\ ~verify(s.key, s.request.signature, s.to, s.request.time, Completed(s.request))
       /\ s.request.kind = "envelope" => s.to = s.request.to
       /\ s.request.kind # "envelope" /\ s.to # Requester =>
            s.request.type = "REJECT" /\ s.request.from = Requester

MsgInv ==
  /\ TypeOK
  /\ \A m \in messages : Sound(m)
  /\ \A c \in Clients : SessionSound(sessions[c])

IInv == DirInv /\ MsgInv

\* The shapes of a client's request.
LEMMA SessionShape ==
  ASSUME NEW s \in Session
  PROVE  /\ s.stage = "stamped" => s \in Stamped
         /\ s.stage = "sent" => s \in Sent
         /\ s.stage = "checked" => s \in Checked
         /\ s.stage = "refused" => s \in Refused
  BY DEF Session, Stamped, Sent, Checked, Refused, NoRequest, Done

LEMMA NoneIsNoSignature == None \notin Keys
  BY IdentityAssumption

\* The key that a row stands for.
LEMMA KeyOfRow ==
  ASSUME NEW row \in Row
  PROVE  /\ resolve_verify_key(row) \in Keys \cup {None}
         /\ row.public_key # None => resolve_verify_key(row) = row.public_key
  BY DEF Row, resolve_verify_key, try_public_key_from_did

\* Only one client's request changes, and it is sound.
LEMMA SessionStep ==
  ASSUME MsgInv, NEW c \in Clients, NEW s \in Session, Becomes(c, s), SessionSound(s),
         DirectoryTypeOK', clock' = clock, assignee' \in Agents \cup {None},
         messages' \subseteq Message, \A m \in messages' : Sound(m)
  PROVE  MsgInv'
<1>1. TypeOK'
  BY DEF MsgInv, TypeOK, Becomes
<1>2. ASSUME NEW d \in Clients PROVE SessionSound(sessions[d])'
  <2>1. PICK t : t = sessions'[d]
    OBVIOUS
  <2>2. t = IF d = c THEN s ELSE sessions[d]
    BY <2>1 DEF Becomes, MsgInv, TypeOK
  <2>3. SessionSound(t)
    BY <2>2 DEF MsgInv
  <2>4. SessionSound(t)'
    BY <2>3 DEF SessionSound, SignedAsMeant, Meant, Completed, Sound, VerifiedBy, verify,
                resolve_verify_key, try_public_key_from_did
  <2> QED BY <2>1, <2>4
<1>3. \A m \in messages' : Sound(m)'
  BY DEF Sound, VerifiedBy, verify, resolve_verify_key, try_public_key_from_did
<1> QED BY <1>1, <1>2, <1>3 DEF MsgInv

LEMMA StampStep ==
  ASSUME MsgInv, NEW c \in Clients, Stamp(c) PROVE MsgInv'
<1>1. PICK kind \in Clientele, id \in FreshIds, from \in Agents : \E action \in Actions(kind) :
        Becomes(c, [stage |-> "stamped", kind |-> kind, type |-> action[1], id |-> id,
                    from |-> from, time |-> clock, payload |-> action[2]])
  BY DEF Stamp
<1>1a. PICK action \in Actions(kind) :
        Becomes(c, [stage |-> "stamped", kind |-> kind, type |-> action[1], id |-> id,
                    from |-> from, time |-> clock, payload |-> action[2]])
  BY <1>1
<1>1b. PICK type, payload : type = action[1] /\ payload = action[2]
  OBVIOUS
<1>1c. type \in Types /\ payload \in Payloads
       /\ (kind = "cli" => type = "ACCEPT") /\ (kind = "checker" <=> type = "VERIFY")
  BY <1>1b DEF Actions, Types, Payloads, Clientele
<1> DEFINE s == [stage |-> "stamped", kind |-> kind, type |-> type,
                 id |-> id, from |-> from, time |-> clock, payload |-> payload]
<1>2. clock \in Nat /\ id \in Ids
  BY DEF MsgInv, TypeOK, FreshIds
<1>3. s \in Session
  <2>1. s \in Stamped
    BY <1>1c, <1>2 DEF Stamped
  <2> QED BY <2>1 DEF Session
<1>4. SessionSound(s)
  BY <1>1c, <1>2 DEF SessionSound, Meant
<1>5. UNCHANGED <<directory, clock, assignee, messages>> /\ Becomes(c, s)
  BY <1>1a, <1>1b DEF Stamp
<1> HIDE DEF s
<1> QED BY <1>3, <1>4, <1>5, SessionStep
       DEF s, MsgInv, TypeOK, directory, DirectoryTypeOK

\* A signature made for the recipient it is sent to, and not before the stamp.
LEMMA SendsStep ==
  ASSUME MsgInv, NEW c \in Clients, NEW kind \in Clientele, NEW to \in Agents,
         NEW sig \in Signature \cup {None}, Sends(c, kind, to, sig),
         kind # "envelope" => to = Requester,
         sig # None =>
           /\ sig.to = to
           /\ sig.payload = sessions[c].payload
           /\ kind # "cli" => sig.time = sessions[c].time
           /\ sig.time >= sessions[c].time
  PROVE  MsgInv'
<1> DEFINE o == sessions[c]
           s == [stage |-> "sent", kind |-> kind, type |-> o.type, id |-> o.id,
                 from |-> o.from, to |-> to, time |-> o.time, payload |-> o.payload,
                 signature |-> sig]
<1>1. Becomes(c, s) /\ UNCHANGED <<directory, clock, assignee, messages>>
  BY DEF Sends
<1>2. o \in Session /\ o.stage = "stamped" /\ SessionSound(o) /\ o.kind = kind
  BY DEF Sends, MsgInv, TypeOK
<1>3. o \in Stamped
  BY <1>2, SessionShape
<1>4. o.type \in Types /\ o.id \in Ids /\ o.from \in Agents /\ o.time \in Nat
      /\ o.payload \in Payloads
  BY <1>3 DEF Stamped
<1>5. Meant(o)
  BY <1>2 DEF SessionSound
<1>6. s \in Session
  <2> HIDE DEF o
  <2>1. s \in Sent
    BY <1>4 DEF Sent, Kinds
  <2> QED BY <2>1 DEF Session
<1>7. s.signature = sig /\ s.to = to /\ s.time = o.time /\ s.kind = kind /\ s.stage = "sent"
      /\ s.type = o.type /\ s.payload = o.payload
  OBVIOUS
<1> HIDE DEF s
<1>8. SignedAsMeant(s)
  BY <1>2, <1>5, <1>7 DEF SignedAsMeant, Meant
<1>9. SessionSound(s)
  BY <1>7, <1>8 DEF SessionSound
<1> QED BY <1>1, <1>6, <1>9, SessionStep DEF MsgInv, TypeOK, directory, DirectoryTypeOK

\* The fields of a signature.
LEMMA SignedFields ==
  ASSUME NEW key \in Keys \cup {None}, NEW to \in Agents, NEW time \in Nat,
         NEW payload \in Payloads, NEW sig, sig = Signed(key, to, time, payload)
  PROVE  /\ sig \in Signature \cup {None}
         /\ sig # None => sig.to = to /\ sig.time = time /\ sig.payload = payload
  BY DEF Signed, Signature

\* A stamp is not ahead of the clock.
LEMMA StampInTime ==
  ASSUME MsgInv, NEW c \in Clients, sessions[c].stage = "stamped"
  PROVE  /\ sessions[c].time \in Nat /\ clock \in Nat /\ clock >= sessions[c].time
         /\ sessions[c].payload \in Payloads
<1>1. sessions[c] \in Session /\ SessionSound(sessions[c]) /\ clock \in Nat
  BY DEF MsgInv, TypeOK
<1>2. sessions[c] \in Stamped
  BY <1>1, SessionShape
<1> QED BY <1>1, <1>2 DEF SessionSound, Stamped

LEMMA SendStep ==
  ASSUME MsgInv, NEW c \in Clients,
         LibrarySends(c) \/ CommandLineSends(c) \/ EnvelopeSends(c) \/ CheckerSends(c)
  PROVE  MsgInv'
<1> DEFINE stamp == sessions[c].time
           payload == sessions[c].payload
<1>1. sessions[c].stage = "stamped"
  BY DEF LibrarySends, CommandLineSends, EnvelopeSends, CheckerSends, Sends
<1>2. /\ stamp \in Nat /\ clock \in Nat /\ clock >= stamp /\ stamp >= stamp
      /\ payload \in Payloads
  BY <1>1, StampInTime
<1>3. Requester \in Agents
  BY MessageAssumption
<1>4. CASE LibrarySends(c)
  <2>1. PICK key \in Keys \cup {None} :
          Sends(c, "library", Requester, Signed(key, Requester, stamp, payload))
    BY <1>4 DEF LibrarySends
  <2> HIDE DEF stamp, payload
  <2>2. PICK sig : sig = Signed(key, Requester, stamp, payload)
    OBVIOUS
  <2>3. sig \in Signature \cup {None}
        /\ (sig # None => sig.to = Requester /\ sig.time = stamp /\ sig.payload = payload)
    BY <1>2, <1>3, <2>2, SignedFields
  <2> QED BY <1>2, <1>3, <2>1, <2>2, <2>3, SendsStep DEF stamp, payload, Clientele
<1>5. CASE CommandLineSends(c)
  <2>1. PICK key \in Keys \cup {None} :
          Sends(c, "cli", Requester, Signed(key, Requester, clock, payload))
    BY <1>5 DEF CommandLineSends
  <2> HIDE DEF stamp, payload
  <2>2. PICK sig : sig = Signed(key, Requester, clock, payload)
    OBVIOUS
  <2>3. sig \in Signature \cup {None}
        /\ (sig # None => sig.to = Requester /\ sig.time = clock /\ sig.payload = payload)
    BY <1>2, <1>3, <2>2, SignedFields
  <2> QED BY <1>2, <1>3, <2>1, <2>2, <2>3, SendsStep DEF stamp, payload, Clientele
<1>6. CASE EnvelopeSends(c)
  <2>1. PICK key \in Keys \cup {None}, to \in Agents :
          Sends(c, "envelope", to, Signed(key, to, stamp, payload))
    BY <1>6 DEF EnvelopeSends
  <2> HIDE DEF stamp, payload
  <2>2. PICK sig : sig = Signed(key, to, stamp, payload)
    OBVIOUS
  <2>3. sig \in Signature \cup {None}
        /\ (sig # None => sig.to = to /\ sig.time = stamp /\ sig.payload = payload)
    BY <1>2, <1>3, <2>2, SignedFields
  <2> QED BY <1>2, <1>3, <2>1, <2>2, <2>3, SendsStep DEF stamp, payload, Clientele
<1>7. CASE CheckerSends(c)
  <2>1. PICK key \in Keys \cup {None} :
          Sends(c, "checker", Requester, Signed(key, Requester, stamp, payload))
    BY <1>7 DEF CheckerSends
  <2> HIDE DEF stamp, payload
  <2>2. PICK sig : sig = Signed(key, Requester, stamp, payload)
    OBVIOUS
  <2>3. sig \in Signature \cup {None}
        /\ (sig # None => sig.to = Requester /\ sig.time = stamp /\ sig.payload = payload)
    BY <1>2, <1>3, <2>2, SignedFields
  <2> QED BY <1>2, <1>3, <2>1, <2>2, <2>3, SendsStep DEF stamp, payload, Clientele
<1> QED BY <1>4, <1>5, <1>6, <1>7

\* What the handlers know of a request they judge.
LEMMA SentFacts ==
  ASSUME MsgInv, NEW c \in Clients, sessions[c].stage = "sent", Admissible(sessions[c])
  PROVE  /\ sessions[c] \in Sent
         /\ SignedAsMeant(sessions[c])
         /\ agents[sessions[c].from] \in Row
         /\ Addressee(sessions[c]) \in Agents
<1>1. sessions[c] \in Session /\ SessionSound(sessions[c])
  BY DEF MsgInv, TypeOK
<1>2. {sessions[c].from, Addressee(sessions[c])} \subseteq Registered
  BY DEF Admissible
<1>3. agents[sessions[c].from] \in Row
  BY <1>2 DEF Registered, MsgInv, TypeOK, DirectoryTypeOK
<1> QED BY <1>1, <1>2, <1>3, SessionShape DEF SessionSound, Registered

\* What is queued for an accepted request is sound.
LEMMA QueuedSound ==
  ASSUME MsgInv, NEW o \in Sent, agents[o.from] \in Row, Addressee(o) \in Agents,
         Satisfied(o)
  PROVE  Queued(o) \in Session /\ SessionSound(Queued(o))
<1> DEFINE row == agents[o.from]
           m == [id |-> o.id, type |-> o.type, from |-> o.from, to |-> Addressee(o),
                 time |-> o.time, payload |-> Completed(o), signature |-> o.signature,
                 sender |-> row]
           takes == assignee = None /\ o.type # "VERIFY" /\ ~(o.type = "REJECT" /\ o.from = Requester)
           s == [stage |-> "checked", message |-> m, takes |-> takes]
<1>1. Queued(o) = s
  BY DEF Queued
<1>1a. Completed(o) \in Payloads
  BY DEF Completed, Sent, Payloads
<1>2. m \in Message
  BY <1>1a DEF Message, Sent
<1>3. m.signature = o.signature /\ m.to = Addressee(o) /\ m.time = o.time
      /\ m.payload = Completed(o)
      /\ m.sender = row /\ m.type = o.type
  OBVIOUS
<1> HIDE DEF m, row
<1>4. resolve_verify_key(row) \in Keys \cup {None}
      /\ (row.public_key # None => resolve_verify_key(row) = row.public_key)
  BY KeyOfRow DEF row
<1>5. (o.signature # None \/ row.public_key # None) /\ resolve_verify_key(row) # None =>
        verify(resolve_verify_key(row), o.signature, Addressee(o), o.time, Completed(o))
  BY DEF Satisfied, Checks, row
<1>6. Sound(m)
  BY <1>3, <1>4, <1>5 DEF Sound, VerifiedBy
<1>7. takes \in BOOLEAN
  OBVIOUS
<1> HIDE DEF takes
<1>8. s \in Checked
  BY <1>2, <1>7 DEF Checked
<1>9. s.stage = "checked" /\ s.message = m
  OBVIOUS
<1> QED BY <1>1, <1>6, <1>8, <1>9 DEF Session, SessionSound

LEMMA CheckStep ==
  ASSUME MsgInv, NEW c \in Clients, Check(c) PROVE MsgInv'
<1>1. PICK o : o = sessions[c]
  OBVIOUS
<1>2. o.stage = "sent" /\ Admissible(o) /\ Satisfied(o) /\ Becomes(c, Queued(o))
  BY <1>1 DEF Check
<1>3. o \in Sent /\ agents[o.from] \in Row /\ Addressee(o) \in Agents
  BY <1>1, <1>2, SentFacts
<1>4. Queued(o) \in Session /\ SessionSound(Queued(o))
  BY <1>2, <1>3, QueuedSound
<1>5. UNCHANGED <<directory, clock, assignee, messages>>
  BY DEF Check
<1>6. PICK s : s = Queued(o)
  OBVIOUS
<1> QED BY <1>2, <1>4, <1>5, <1>6, SessionStep
       DEF MsgInv, TypeOK, directory, DirectoryTypeOK

LEMMA FormStep ==
  ASSUME MsgInv, NEW c \in Clients, communicate_submit(c) PROVE MsgInv'
<1>1. PICK type \in {"ACCEPT", "REJECT"}, id \in FreshIds, from \in Agents :
        LET s == [stage |-> "sent", kind |-> "form", type |-> type, id |-> id,
                  from |-> from, to |-> from, time |-> clock, payload |-> "plain",
                  signature |-> None]
        IN  /\ Admissible(s)
            /\ Satisfied(s)
            /\ Becomes(c, Queued(s))
  BY DEF communicate_submit
<1> DEFINE o == [stage |-> "sent", kind |-> "form", type |-> type, id |-> id,
                 from |-> from, to |-> from, time |-> clock, payload |-> "plain",
                 signature |-> None]
<1>2. Admissible(o) /\ Satisfied(o) /\ Becomes(c, Queued(o))
  BY <1>1
<1>3. id \in Ids /\ clock \in Nat
  BY DEF MsgInv, TypeOK, FreshIds
<1>4. o \in Sent
  BY <1>3 DEF Sent, Kinds, Types, Payloads
<1>5. o.from = from
  OBVIOUS
<1> HIDE DEF o
<1>6. agents[o.from] \in Row /\ Addressee(o) \in Agents
  BY <1>2, <1>5 DEF Admissible, Registered, MsgInv, TypeOK, DirectoryTypeOK
<1>7. Queued(o) \in Session /\ SessionSound(Queued(o))
  BY <1>2, <1>4, <1>6, QueuedSound
<1>8. UNCHANGED <<directory, clock, assignee, messages>>
  BY DEF communicate_submit
<1>9. PICK s : s = Queued(o)
  OBVIOUS
<1> QED BY <1>2, <1>7, <1>8, <1>9, SessionStep
       DEF MsgInv, TypeOK, directory, DirectoryTypeOK

LEMMA RefuseStep ==
  ASSUME MsgInv, NEW c \in Clients, Refuse(c) PROVE MsgInv'
<1> DEFINE o == sessions[c]
           key == resolve_verify_key(agents[o.from])
           s == [stage |-> "refused", request |-> o, to |-> Addressee(o), key |-> key]
<1>1. o.stage = "sent" /\ Admissible(o) /\ ~Satisfied(o) /\ Becomes(c, s)
  BY DEF Refuse
<1>2. o \in Sent /\ SignedAsMeant(o) /\ agents[o.from] \in Row /\ Addressee(o) \in Agents
  BY <1>1, SentFacts
<1>3. key # None /\ ~verify(key, o.signature, Addressee(o), o.time, Completed(o))
  BY <1>1 DEF Satisfied
<1>4. key \in Keys
  BY <1>2, <1>3, KeyOfRow
<1>5. o.kind = "envelope" => Addressee(o) = o.to
  BY DEF Addressee
<1>6. o.kind # "envelope" /\ Addressee(o) # Requester => o.type = "REJECT" /\ o.from = Requester
  BY DEF Addressee, Recipient
<1> HIDE DEF key, o
<1>7. s \in Session
  <2>1. s \in Refused
    BY <1>2, <1>4 DEF Refused
  <2> QED BY <2>1 DEF Session
<1>8. s.stage = "refused" /\ s.request = o /\ s.to = Addressee(o) /\ s.key = key
  OBVIOUS
<1> HIDE DEF s
<1>9. SessionSound(s)
  BY <1>2, <1>3, <1>5, <1>6, <1>8 DEF SessionSound
<1>10. UNCHANGED <<directory, clock, assignee, messages>>
  BY DEF Refuse
<1> QED BY <1>1, <1>7, <1>9, <1>10, SessionStep DEF MsgInv, TypeOK, directory, DirectoryTypeOK

LEMMA RequestStep ==
  ASSUME MsgInv, NEW c \in Clients, RequestTask(c) PROVE MsgInv'
<1>1. PICK id \in FreshIds :
        Becomes(c, [stage |-> "checked",
          message |-> [id |-> id, type |-> "REQUEST", from |-> Requester, to |-> assignee,
                       time |-> clock, payload |-> "plain", signature |-> None,
                       sender |-> agents[Requester]],
          takes |-> FALSE])
  BY DEF RequestTask
<1> DEFINE m == [id |-> id, type |-> "REQUEST", from |-> Requester, to |-> assignee,
                 time |-> clock, payload |-> "plain", signature |-> None,
                 sender |-> agents[Requester]]
           s == [stage |-> "checked", message |-> m, takes |-> FALSE]
<1>2. assignee \in Agents /\ agents[Requester] \in Row /\ Requester \in Agents
      /\ clock \in Nat /\ id \in Ids
  BY MessageAssumption DEF RequestTask, Registered, MsgInv, TypeOK, DirectoryTypeOK, FreshIds
<1>3. m \in Message
  BY <1>2 DEF Message, Types, Payloads
<1>4. m.type = "REQUEST" /\ m.signature = None
  OBVIOUS
<1> HIDE DEF m
<1>5. Sound(m)
  BY <1>4 DEF Sound
<1>6. s \in Session /\ SessionSound(s)
  BY <1>3, <1>5 DEF Session, Checked, SessionSound
<1>7. UNCHANGED <<directory, clock, assignee, messages>> /\ Becomes(c, s)
  BY <1>1 DEF RequestTask, m
<1> HIDE DEF s
<1> QED BY <1>6, <1>7, SessionStep DEF MsgInv, TypeOK, directory, DirectoryTypeOK

LEMMA DoneSound == Done \in Session /\ SessionSound(Done)
  BY DEF Session, Done, SessionSound

LEMMA StoreStep ==
  ASSUME MsgInv, NEW c \in Clients, Store(c) PROVE MsgInv'
<1>1. PICK m : m = sessions[c].message
  OBVIOUS
<1>2. sessions[c].stage = "checked" /\ messages' = messages \cup {m}
      /\ assignee' = (IF sessions[c].takes THEN m.from ELSE assignee)
      /\ Becomes(c, Done) /\ UNCHANGED <<directory, clock>>
  BY <1>1 DEF Store
<1>3. sessions[c] \in Session /\ SessionSound(sessions[c])
  BY DEF MsgInv, TypeOK
<1>4. m \in Message /\ Sound(m)
  BY <1>1, <1>2, <1>3, SessionShape DEF SessionSound, Checked
<1>5. messages' \subseteq Message /\ \A n \in messages' : Sound(n)
  BY <1>2, <1>4 DEF MsgInv, TypeOK
<1>6. assignee' \in Agents \cup {None}
  BY <1>2, <1>4 DEF MsgInv, TypeOK, Message
<1> QED BY <1>2, <1>5, <1>6, DoneSound, SessionStep
       DEF MsgInv, TypeOK, directory, DirectoryTypeOK

\* Time passes: nobody's stamp was ahead of it.
LEMMA TickStep ==
  ASSUME MsgInv, Tick PROVE MsgInv'
<1>1. clock' = clock + 1 /\ UNCHANGED <<directory, assignee, messages, sessions>> /\ clock \in Nat
  BY DEF Tick, MsgInv, TypeOK
<1>2. TypeOK'
  BY <1>1 DEF MsgInv, TypeOK, directory, DirectoryTypeOK
<1>3. ASSUME NEW c \in Clients PROVE SessionSound(sessions[c])'
  <2>1. PICK s : s = sessions[c]
    OBVIOUS
  <2>2. s \in Session /\ SessionSound(s) /\ sessions'[c] = s
    BY <1>1, <2>1 DEF MsgInv, TypeOK
  <2>3. s.stage = "stamped" => s.time <= clock'
    BY <1>1, <2>2, SessionShape DEF SessionSound, Stamped
  <2>4. SessionSound(s)'
    BY <2>2, <2>3 DEF SessionSound, SignedAsMeant, Meant, Completed, Sound, VerifiedBy, verify,
                      resolve_verify_key, try_public_key_from_did
  <2> QED BY <2>1, <2>2, <2>4
<1>4. \A m \in messages' : Sound(m)'
  BY <1>1 DEF MsgInv, Sound, VerifiedBy, verify, resolve_verify_key, try_public_key_from_did
<1> QED BY <1>2, <1>3, <1>4 DEF MsgInv

\* What the directory does, leaves messages and clients as they are: their
\* soundness is about the row that was checked, not about the present one.
LEMMA ExchangeKept ==
  ASSUME MsgInv, DirectoryTypeOK', UNCHANGED exchange PROVE MsgInv'
<1>1. clock' = clock /\ assignee' = assignee /\ messages' = messages /\ sessions' = sessions
  BY DEF exchange
<1>2. TypeOK'
  BY <1>1 DEF MsgInv, TypeOK
<1>3. ASSUME NEW c \in Clients PROVE SessionSound(sessions[c])'
  <2>1. PICK s : s = sessions[c]
    OBVIOUS
  <2>2. SessionSound(s) /\ sessions'[c] = s
    BY <1>1, <2>1 DEF MsgInv
  <2>3. SessionSound(s)'
    BY <1>1, <2>2 DEF SessionSound, SignedAsMeant, Meant, Completed, Sound, VerifiedBy, verify,
                      resolve_verify_key, try_public_key_from_did
  <2> QED BY <2>1, <2>2, <2>3
<1>4. \A m \in messages' : Sound(m)'
  BY <1>1 DEF MsgInv, Sound, VerifiedBy, verify, resolve_verify_key, try_public_key_from_did
<1> QED BY <1>2, <1>3, <1>4 DEF MsgInv

LEMMA InitIInv == Init => IInv
<1> SUFFICES ASSUME Init PROVE IInv
  OBVIOUS
<1>1. DirInv
  BY DirectoryStart DEF Init
<1>2. TypeOK
  BY <1>1 DEF DirInv, Init, TypeOK, Session
<1>3. \A c \in Clients : SessionSound(sessions[c])
  BY DEF Init, SessionSound, NoRequest
<1> QED BY <1>1, <1>2, <1>3 DEF IInv, MsgInv, Init

\* Clients and messages leave the directory alone.
LEMMA DirectoryLeft == ClientNext => UNCHANGED directory
  BY DEF ClientNext, Stamp, LibrarySends, CommandLineSends, EnvelopeSends, CheckerSends, Sends,
         Check, Refuse, communicate_submit, RequestTask, Store, Abandon

LEMMA NextIInv == IInv /\ [Next]_vars => IInv'
<1> SUFFICES ASSUME IInv, [Next]_vars PROVE IInv'
  OBVIOUS
<1>1. DirInv /\ MsgInv
  BY DEF IInv
<1>2. CASE DirectoryNext /\ UNCHANGED exchange
  <2>1. DirInv'
    BY <1>1, <1>2, DirectoryKept
  <2> QED BY <1>1, <1>2, <2>1, ExchangeKept DEF IInv, DirInv
<1>3. CASE UNCHANGED vars
  <2>1. UNCHANGED directory /\ UNCHANGED exchange
    BY <1>3 DEF vars, exchange
  <2>2. DirInv'
    BY <1>1, <2>1, DirectoryKept
  <2> QED BY <1>1, <2>1, <2>2, ExchangeKept DEF IInv, DirInv
<1>4. CASE Tick
  <2>1. DirInv'
    BY <1>1, <1>4, DirectoryKept DEF Tick
  <2> QED BY <1>1, <1>4, <2>1, TickStep DEF IInv
<1>5. CASE ClientNext
  <2>1. UNCHANGED directory
    BY <1>5, DirectoryLeft
  <2>2. DirInv'
    BY <1>1, <2>1, DirectoryKept
  <2>3. ASSUME NEW c \in Clients, Abandon(c) PROVE MsgInv'
    BY <1>1, <2>3, DoneSound, SessionStep
       DEF Abandon, MsgInv, TypeOK, directory, DirectoryTypeOK
  <2>4. MsgInv'
    BY <1>1, <1>5, <2>3, StampStep, SendStep, CheckStep, RefuseStep, FormStep,
       RequestStep, StoreStep
       DEF ClientNext
  <2> QED BY <2>2, <2>4 DEF IInv
<1> QED BY <1>2, <1>3, <1>4, <1>5 DEF Next

LEMMA Reachable == Spec => []IInv
  BY InitIInv, NextIInv, PTL DEF Spec

-----------------------------------------------------------------------------

\* Types, of the directory, the clients' requests and the stored messages.
THEOREM TypesCorrect == Spec => []TypeOK
<1>1. IInv => TypeOK
  BY DEF IInv, MsgInv
<1> QED BY <1>1, Reachable, PTL

\* No two agents ever hold one DID (DidsUnique): the schema's constraint is
\* enough, whatever the look-ups of register_agent and update_agent miss.
THEOREM DidsStayUnique == Spec => []DidsUnique
<1>1. IInv => DidsUnique
  BY DEF IInv, DirInv
<1> QED BY <1>1, Reachable, PTL

\* An update that finds its row as it read it never parts a key from its DID,
\* nor a demo identifier from its flag (KeyFollowsDid).
THEOREM KeysFollowDids == Spec => KeyFollowsDid
<1> DEFINE Step == \A a \in Agents :
             Consistent(agents[a]) /\ ~Consistent(agents'[a]) =>
               \E w \in Workers : Stale(w) /\ jobs[w].agent = a /\ Commit(w)
<1>1. IInv /\ [Next]_vars => [Step]_directory
  <2> SUFFICES ASSUME IInv, [Next]_vars, ~UNCHANGED directory, NEW a \in Agents,
                      Consistent(agents[a]), ~Consistent(agents'[a])
               PROVE  \E w \in Workers : Stale(w) /\ jobs[w].agent = a /\ Commit(w)
    OBVIOUS
  <2>1. DirInv
    BY DEF IInv
  <2>2. DirectoryNext
    <3>1. UNCHANGED vars => UNCHANGED directory
      BY DEF vars
    <3>2. Tick => UNCHANGED directory
      BY DEF Tick
    <3> QED BY <3>1, <3>2, DirectoryLeft DEF Next
  <2>3. agents' # agents
    BY DEF Consistent
  <2>4. PICK w \in Workers : Commit(w) \/ DeleteAgent(w)
    <3>1. ASSUME NEW v \in Workers, RegisterAgent(v) PROVE agents' = agents
      BY <3>1 DEF RegisterAgent
    <3>2. ASSUME NEW v \in Workers, LoadAgent(v) PROVE agents' = agents
      BY <3>2 DEF LoadAgent
    <3>3. ASSUME NEW v \in Workers, UpdateAgent(v) PROVE agents' = agents
      BY <3>3 DEF UpdateAgent, Write
    <3>4. ASSUME NEW v \in Workers, ManualFix(v) PROVE agents' = agents
      BY <3>4 DEF ManualFix, Write
    <3>5. ASSUME NEW v \in Workers, Drop(v) PROVE agents' = agents
      BY <3>5 DEF Drop
    <3> QED BY <2>2, <2>3, <3>1, <3>2, <3>3, <3>4, <3>5 DEF DirectoryNext
  <2>5. ~DeleteAgent(w)
    <3> SUFFICES ASSUME DeleteAgent(w) PROVE FALSE
      OBVIOUS
    <3>1. PICK b \in Registered : agents' = [agents EXCEPT ![b] = NoRow]
      BY DEF DeleteAgent
    <3>2. agents'[a] \in {agents[a], NoRow}
      BY <3>1, <2>1 DEF DirInv, DirectoryTypeOK
    <3> QED BY <3>2, NoRowConsistent
  <2>6. Commit(w)
    BY <2>4, <2>5
  <2>7. PICK row \in Row : row = Written(w)
    BY <2>1, <2>6, CommitFacts
  <2>8. jobs[w].stage = "write" /\ agents' = [agents EXCEPT ![jobs[w].agent] = row]
        /\ (~Stale(w) => row = jobs[w].new)
    BY <2>1, <2>6, <2>7, CommitFacts
  <2>9. jobs[w].agent = a /\ ~Consistent(row)
    BY <2>1, <2>8 DEF DirInv, DirectoryTypeOK
  <2>10. ~Stale(w) => Consistent(jobs[w].old)
    BY <2>8, <2>9 DEF Stale
  <2>11. JobSound(jobs[w])
    BY <2>1 DEF DirInv
  <2> QED BY <2>6, <2>8, <2>9, <2>10, <2>11 DEF JobSound
<1> QED BY <1>1, Reachable, PTL DEF Spec, KeyFollowsDid

\* Whatever is stored in the name of a keyed agent was signed by it (Authentic).
THEOREM StoredIsAuthentic == Spec => []Authentic
<1>1. IInv => Authentic
  BY DEF IInv, MsgInv, Sound, Authentic
<1> QED BY <1>1, Reachable, PTL

\* A stored signature never reads INVALID while its sender's row is the one it
\* was checked against (InvalidExplained).
THEOREM InvalidIsExplained == Spec => []InvalidExplained
<1>1. IInv => InvalidExplained
  <2> SUFFICES ASSUME IInv, NEW m \in messages, signature_status_for(m) = "INVALID",
                      agents[m.from] = m.sender, resolve_verify_key(m.sender) # None
               PROVE  FALSE
    BY DEF InvalidExplained
  <2>1. m \in Message /\ Sound(m)
    BY DEF IInv, MsgInv, TypeOK
  <2>2. m.sender # NoRow
    BY <2>1, NoRowConsistent DEF Message
  <2>3. m.signature # None /\ ~VerifiedBy(m, resolve_verify_key(m.sender))
    BY <2>2 DEF signature_status_for
  <2> QED BY <2>1, <2>3 DEF Sound
<1> QED BY <1>1, Reachable, PTL

\* The library and the registry agree on what they verify (VerifiersAgree).
THEOREM VerifiersDoAgree == Spec => []VerifiersAgree
<1>1. IInv => VerifiersAgree
  <2> SUFFICES ASSUME IInv, NEW m \in messages, Consistent(agents[m.from])
               PROVE  verify_message(m) = signature_status_for(m)
    BY DEF VerifiersAgree
  <2>1. m.from \in Agents /\ agents[m.from] \in Row \cup {NoRow}
    BY DEF IInv, MsgInv, TypeOK, DirectoryTypeOK, Message
  <2>2. CASE agents[m.from] = NoRow
    BY <2>2 DEF verify_message, signature_status_for, VerifiedBy, NoRow
  <2>3. CASE agents[m.from] # NoRow
    <3>1. agents[m.from].public_key = resolve_verify_key(agents[m.from])
      BY IdentityAssumption DEF Consistent, resolve_verify_key, try_public_key_from_did
    <3> QED BY <3>1, <2>3 DEF verify_message, signature_status_for
  <2> QED BY <2>2, <2>3
<1> QED BY <1>1, Reachable, PTL

\* A request signed with the right key is refused only because the command
\* line signed a later time, or because library and command line take the
\* requester for the recipient of its own rejection (RefusalsExplained).
THEOREM RefusalsAreExplained == Spec => []RefusalsExplained
<1>1. IInv => RefusalsExplained
  <2> SUFFICES ASSUME IInv, NEW c \in Clients, sessions[c].stage = "refused",
                      sessions[c].request.signature # None,
                      sessions[c].request.signature.by = sessions[c].key
               PROVE  LET s == sessions[c].request
                      IN  \/ s.kind = "cli" /\ s.signature.time > s.time
                          \/ s.kind = "library" /\ s.type = "REJECT" /\ s.from = Requester
                             /\ sessions[c].to # Requester
                          \/ s.type = "VERIFY" /\ s.payload = "plain"
    BY DEF RefusalsExplained
  <2>1. PICK r : r = sessions[c]
    OBVIOUS
  <2>2. r \in Refused /\ SessionSound(r)
    BY <2>1, SessionShape DEF IInv, MsgInv, TypeOK
  <2>3. PICK s : s = r.request
    OBVIOUS
  <2>4. s \in Sent /\ s.signature \in Signature /\ s.time \in Nat
        /\ s.payload \in Payloads
    BY <2>1, <2>2, <2>3 DEF Refused, Sent
  <2>5. PICK sig \in Signature : sig = s.signature
    BY <2>4
  <2>6. SignedAsMeant(s) /\ ~verify(r.key, sig, r.to, s.time, Completed(s))
        /\ (s.kind = "envelope" => r.to = s.to)
        /\ (s.kind # "envelope" /\ r.to # Requester => s.type = "REJECT" /\ s.from = Requester)
    BY <2>1, <2>2, <2>3, <2>5 DEF SessionSound
  <2>7. sig # None
    BY <2>1, <2>3, <2>5
  <2>8. sig.to # r.to \/ sig.time # s.time \/ sig.payload # Completed(s)
    <3>1. sig = [by |-> sig.by, to |-> sig.to, time |-> sig.time, payload |-> sig.payload]
      BY DEF Signature
    <3>2. sig.by = r.key
      BY <2>1, <2>3, <2>5
    <3> QED BY <3>1, <3>2, <2>6, <2>7 DEF verify
  <2>9. sig.to = s.to /\ (s.kind # "cli" => sig.time = s.time) /\ sig.time >= s.time
        /\ (s.kind # "envelope" => s.to = Requester) /\ sig.payload = s.payload
        /\ s.kind \in Clientele /\ Meant(s)
    BY <2>5, <2>6, <2>7 DEF SignedAsMeant
  <2>9a. sig.payload # Completed(s) => s.type = "VERIFY" /\ s.payload = "plain"
    BY <2>4, <2>9 DEF Completed, Meant, Payloads
  <2>10. sig.time \in Nat
    BY DEF Signature
  <2>11. \/ s.kind = "cli" /\ sig.time > s.time
         \/ s.kind = "library" /\ s.type = "REJECT" /\ s.from = Requester /\ r.to # Requester
         \/ s.type = "VERIFY" /\ s.payload = "plain"
    BY <2>4, <2>6, <2>8, <2>9, <2>9a, <2>10 DEF Clientele, Meant
  <2> QED BY <2>1, <2>3, <2>5, <2>11
<1> QED BY <1>1, Reachable, PTL
=============================================================================
