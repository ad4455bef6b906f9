-------------------------- MODULE TclkRooms_proof --------------------------
(***************************************************************************)
(* Proofs about TclkRooms, for any number of contracts, threads and        *)
(* frames, on both databases.                                              *)
(***************************************************************************)
EXTENDS TclkRooms, TLAPS

PostingJobs ==
  [stage : {"begun", "flushed"}, room : Rooms, seq : Nat \ {0}, opens : SUBSET Rooms]

LoadedJobs ==
  [stage : {"loaded"}, room : Rooms, seq : Nat \ {0}, opens : SUBSET Rooms,
   contract : Contracts, state : Statuses]

WriteJobs ==
  [stage : {"write"}, opens : SUBSET Rooms, entry : Entry,
   row : Rows, old : Statuses \cup {"none"}, new : Statuses \cup {"none"}]

\* The frames of the transcripts are numbered from one.
LEMMA FrameShape ==
  ASSUME TypeOK
  PROVE  /\ Len(log) \in Nat /\ DOMAIN log = 1 .. Len(log)
         /\ \A i \in 1 .. Len(log) : log[i] \in Entry /\ log[i].seq \in Nat \ {0}
<1>1. log \in Seq(Entry)
  BY DEF TypeOK
<1>2. \A i \in 1 .. Len(log) : log[i] \in Entry
  BY <1>1
<1>. QED
  BY <1>1, <1>2 DEF Entry

\* The stage of a job tells its shape.
LEMMA JobShape ==
  ASSUME TypeOK, NEW w \in Workers
  PROVE  /\ jobs[w].stage \in {"begun", "flushed"} => jobs[w] \in PostingJobs
         /\ jobs[w].stage = "loaded" => jobs[w] \in LoadedJobs
         /\ jobs[w].stage = "write" => jobs[w] \in WriteJobs
         /\ jobs[w].stage = "idle" <=> jobs[w] = Idle
         /\ jobs[w].stage \in {"idle", "begun", "flushed", "loaded", "write"}
BY DEF TypeOK, Job, Idle, PostingJobs, LoadedJobs, WriteJobs

\* A decision gives the thread a job with this plan, and nothing else changes.
LEMMA DecisionShape ==
  ASSUME TypeOK, NEW w \in Workers, jobs[w].stage \in {"flushed", "loaded"},
         NEW type \in FrameTypes, NEW about \in Rows, NEW row \in Rows,
         NEW old \in Statuses \cup {"none"}, NEW new \in Statuses \cup {"none"},
         NEW opens \in SUBSET Rooms,
         Decide(w, type, about, row, old, new, opens)
  PROVE  /\ TypeOK'
         /\ UNCHANGED <<database, rooms, log, cached>>
         /\ \A v \in Workers \ {w} : jobs'[v] = jobs[v]
         /\ jobs'[w].stage = "write" /\ jobs'[w].row = row
         /\ jobs'[w].old = old /\ jobs'[w].new = new
         /\ jobs'[w].entry.type = type /\ jobs'[w].entry.about = about
         /\ jobs'[w].entry.room = jobs[w].room /\ jobs'[w].entry.seq = jobs[w].seq
         /\ jobs'[w].opens = jobs[w].opens \cup opens
<1>. DEFINE entry == [room |-> jobs[w].room, seq |-> jobs[w].seq, type |-> type, about |-> about]
            job == [stage |-> "write", opens |-> jobs[w].opens \cup opens, entry |-> entry,
                    row |-> row, old |-> old, new |-> new]
<1>1. /\ jobs[w].room \in Rooms /\ jobs[w].seq \in Nat \ {0}
      /\ jobs[w].opens \in SUBSET Rooms
  BY JobShape DEF PostingJobs, LoadedJobs
<1>2. entry \in Entry
  BY <1>1 DEF Entry
<1>3. job \in Job
  BY <1>1, <1>2 DEF Job
<1>4. jobs' = [jobs EXCEPT ![w] = job] /\ UNCHANGED <<database, rooms, log, cached>>
  BY DEF Decide
<1>5. TypeOK'
  BY <1>3, <1>4 DEF TypeOK
<1>6. jobs'[w] = job /\ \A v \in Workers \ {w} : jobs'[v] = jobs[v]
  BY <1>4 DEF TypeOK
<1>. QED
  BY <1>4, <1>5, <1>6

\* The decisions a thread may take after its frame is inserted.
Decides(w) ==
  \/ \E type \in FrameTypes, about \in Rows : KeepFrame(w, type, about)
  \/ PostOffer(w)
  \/ \E c \in Contracts : PostAccept(w, c)
  \/ \E type \in FrameTypes, new \in Statuses : PostStep(w, type, new)

\* What a decision may rest on.
Sound(w, type, about, row, old, new) ==
  \/ old = new
  \/ /\ type = "offer" /\ about = Offer /\ new = "proposed" /\ old = cached[row]
     /\ row \in Contracts => old # "none"
  \/ /\ type = "accept" /\ new = "accepted" /\ row = about
     /\ Posted("offer", Offer)
  \/ /\ jobs[w].stage = "loaded" /\ old = jobs[w].state
     /\ row = jobs[w].contract /\ about = row
     /\ <<old, type, new>> \in Machine /\ type \notin {"offer", "accept"}

\* Each of them decides something of the right type, and soundly.
LEMMA DecisionsSound ==
  ASSUME TypeOK, NEW w \in Workers, Decides(w)
  PROVE  /\ jobs[w].stage \in {"flushed", "loaded"}
         /\ \E type \in FrameTypes, about \in Rows, row \in Rows,
               old \in Statuses \cup {"none"}, new \in Statuses \cup {"none"},
               opens \in SUBSET Rooms :
              Decide(w, type, about, row, old, new, opens) /\ Sound(w, type, about, row, old, new)
<1>1. \A row \in Rows : cached[row] \in Statuses \cup {"none"}
  BY DEF TypeOK
<1>2. {} \in SUBSET Rooms /\ Offer \in Rows /\ Contracts \subseteq Rows
  BY DEF Rows
<1>3. /\ {"offer", "accept"} \subseteq FrameTypes
      /\ {"proposed", "accepted"} \subseteq Statuses
  BY DEF FrameTypes, Statuses
<1>4. ASSUME NEW type \in FrameTypes, NEW about \in Rows, KeepFrame(w, type, about)
      PROVE  /\ jobs[w].stage = "flushed"
             /\ Decide(w, type, about, about, "none", "none", {})
             /\ Sound(w, type, about, about, "none", "none")
  BY <1>4 DEF KeepFrame, Sound
<1>5. ASSUME NEW row \in Rows, jobs[w].stage = "flushed",
             row \in Contracts => cached[row] # "none"
      PROVE  Sound(w, "offer", Offer, row, cached[row], "proposed")
  BY <1>5 DEF Sound
<1>6. ASSUME PostOffer(w)
      PROVE  /\ jobs[w].stage = "flushed"
             /\ \E row \in Rows : /\ Decide(w, "offer", Offer, row, cached[row], "proposed", {})
                                  /\ row \in Contracts => cached[row] # "none"
  BY <1>6, OfferAssumption DEF PostOffer, OfferRows, Rows
<1>7. ASSUME NEW c \in Contracts, PostAccept(w, c)
      PROVE  /\ jobs[w].stage = "flushed"
             /\ {c} \ rooms \in SUBSET Rooms
             /\ Decide(w, "accept", c, c, cached[c], "accepted", {c} \ rooms)
             /\ Sound(w, "accept", c, c, cached[c], "accepted")
  BY <1>7 DEF PostAccept, Rooms, Sound
<1>8. ASSUME NEW type \in FrameTypes, NEW new \in Statuses, PostStep(w, type, new)
      PROVE  /\ jobs[w].stage = "loaded"
             /\ jobs[w].contract \in Rows /\ jobs[w].state \in Statuses
             /\ Decide(w, type, jobs[w].contract, jobs[w].contract, jobs[w].state, new, {})
             /\ Sound(w, type, jobs[w].contract, jobs[w].contract, jobs[w].state, new)
  <2>1. jobs[w].stage = "loaded"
    BY <1>8 DEF PostStep
  <2>2. jobs[w] \in LoadedJobs
    BY <2>1, JobShape
  <2>3. jobs[w].contract \in Rows /\ jobs[w].state \in Statuses
    BY <2>2 DEF LoadedJobs, Rows
  <2>. QED
    BY <1>8, <2>1, <2>3 DEF PostStep, Sound
<1>9. CASE \E type \in FrameTypes, about \in Rows : KeepFrame(w, type, about)
  BY <1>2, <1>4, <1>9
<1>10. CASE PostOffer(w)
  <2>1. PICK row \in Rows : /\ Decide(w, "offer", Offer, row, cached[row], "proposed", {})
                            /\ row \in Contracts => cached[row] # "none"
    BY <1>6, <1>10
  <2>2. Sound(w, "offer", Offer, row, cached[row], "proposed") /\ jobs[w].stage = "flushed"
    BY <1>5, <1>6, <1>10, <2>1
  <2>. QED
    BY <1>1, <1>2, <1>3, <2>1, <2>2
<1>11. CASE \E c \in Contracts : PostAccept(w, c)
  <2>1. PICK c \in Contracts : PostAccept(w, c)
    BY <1>11
  <2>. QED
    BY <1>1, <1>2, <1>3, <1>7, <2>1
<1>12. CASE \E type \in FrameTypes, new \in Statuses : PostStep(w, type, new)
  BY <1>2, <1>8, <1>12
<1>. QED
  BY <1>9, <1>10, <1>11, <1>12 DEF Decides

\* What a commit leaves.
LEMMA CommitShape ==
  ASSUME TypeOK, NEW w \in Workers, Commit(w)
  PROVE  /\ jobs[w] \in WriteJobs
         /\ log' = Append(log, jobs[w].entry)
         /\ Len(log') = Len(log) + 1
         /\ \A i \in 1 .. Len(log) : log'[i] = log[i]
         /\ log'[Len(log) + 1] = jobs[w].entry
         /\ jobs'[w] = Idle
         /\ \A v \in Workers \ {w} : jobs'[v] = jobs[v]
<1>1. jobs[w] \in WriteJobs
  BY JobShape DEF Commit
<1>2. log \in Seq(Entry) /\ log' = Append(log, jobs[w].entry) /\ jobs[w].entry \in Entry
  BY <1>1 DEF Commit, TypeOK, WriteJobs
<1>. QED
  BY <1>1, <1>2 DEF Commit, TypeOK

\* A commit writes a row of the right type, a frame and the rooms it opens.
LEMMA CommitType ==
  ASSUME TypeOK, NEW w \in Workers, Commit(w)
  PROVE  TypeOK'
<1>1. jobs[w] \in WriteJobs
  BY JobShape DEF Commit
<1>2. log' \in Seq(Entry)
  BY <1>1 DEF Commit, TypeOK, WriteJobs
<1>3. rooms' \subseteq Rooms
  BY <1>1 DEF Commit, TypeOK, WriteJobs
<1>4. cached' \in [Rows -> Statuses \cup {"none"}]
  BY <1>1 DEF Commit, TypeOK, WriteJobs
<1>5. jobs' \in [Workers -> Job] /\ database' \in Databases
  BY DEF Commit, TypeOK, Job
<1>. QED
  BY <1>2, <1>3, <1>4, <1>5 DEF TypeOK

(***************************************************************************)
(* Every row, every frame and every session of the rooms keeps its shape;  *)
(* numbers start from one (_next_seq).                                     *)
(***************************************************************************)
THEOREM TypeCorrect == Spec => []TypeOK
<1>1. Init => TypeOK
  BY DEF Init, TypeOK, Job
<1>2. TypeOK /\ [Next]_vars => TypeOK'
  <2>. SUFFICES ASSUME TypeOK, [Next]_vars PROVE TypeOK'
    OBVIOUS
  <2>1. ASSUME NEW w \in Workers, NEW room \in Rooms, Begin(w, room) PROVE TypeOK'
    <3>1. PICK n \in 0 .. Len(log) + 1 :
            /\ NextSeq(room, n)
            /\ jobs' = [jobs EXCEPT ![w] =
                 [stage |-> "begun", room |-> room, seq |-> n, opens |-> {Offer} \ rooms]]
      BY <2>1 DEF Begin
    <3>2. n \in Nat \ {0}
      <4>. QED
        BY <3>1, FrameShape DEF NextSeq, Stored
    <3>3. [stage |-> "begun", room |-> room, seq |-> n, opens |-> {Offer} \ rooms] \in Job
      BY <3>2 DEF Job, Rooms
    <3>. QED
      BY <2>1, <3>1, <3>3 DEF Begin, TypeOK
  <2>2. ASSUME NEW w \in Workers, Flush(w) PROVE TypeOK'
    <3>1. jobs[w] \in PostingJobs
      BY <2>2, JobShape DEF Flush
    <3>2. [jobs[w] EXCEPT !.stage = "flushed"] \in Job
      BY <3>1 DEF PostingJobs, Job
    <3>. QED
      BY <2>2, <3>2 DEF Flush, TypeOK
  <2>3. ASSUME NEW w \in Workers, NEW c \in Contracts, Load(w, c) PROVE TypeOK'
    <3>1. jobs[w] \in PostingJobs
      BY <2>3, JobShape DEF Load
    <3>2. cached[c] \in Statuses
      BY <2>3 DEF Load, TypeOK, Rows
    <3>3. [stage |-> "loaded", room |-> jobs[w].room, seq |-> jobs[w].seq,
           opens |-> jobs[w].opens, contract |-> c, state |-> cached[c]] \in Job
      BY <3>1, <3>2 DEF PostingJobs, Job
    <3>. QED
      BY <2>3, <3>3 DEF Load, TypeOK
  <2>4. ASSUME NEW w \in Workers, Decides(w) PROVE TypeOK'
    BY <2>4, DecisionsSound, DecisionShape
  <2>5. ASSUME NEW w \in Workers, Commit(w) PROVE TypeOK'
    BY <2>5, CommitType
  <2>6. ASSUME NEW w \in Workers, Drop(w) PROVE TypeOK'
    BY <2>6 DEF Drop, TypeOK, Job
  <2>7. ASSUME NEW room \in Rooms, MakeRoom(room) PROVE TypeOK'
    BY <2>7 DEF MakeRoom, TypeOK
  <2>8. CASE UNCHANGED vars
    BY <2>8 DEF vars, TypeOK
  <2>. QED
    BY <2>1, <2>2, <2>3, <2>4, <2>5, <2>6, <2>7, <2>8 DEF Next, Decides
<1>. QED
  BY <1>1, <1>2, PTL DEF Spec

-----------------------------------------------------------------------------
(* The numbers of a room *)

\* Every smaller number is in the room's transcript; no larger one is.
Below(room, n) == \A m \in 1 .. n - 1 : \E i \in 1 .. Len(log) : log[i].room = room /\ log[i].seq = m

Above(room, n) == \A i \in 1 .. Len(log) : log[i].room = room => log[i].seq < n

\* A number that was read may be taken by now; one that is held is the next.
Numbered(w) ==
  /\ jobs[w].stage = "begun" => Below(jobs[w].room, jobs[w].seq)
  /\ \A h \in Held(w) : Below(h[1], h[2]) /\ Above(h[1], h[2])

Apart == \A v, w \in Workers : v # w => Held(v) \cap Held(w) = {}

OrderInv == TranscriptInOrder /\ Apart /\ \A w \in Workers : Numbered(w)

\* What a thread holds is a room and a number.
LEMMA HeldShape ==
  ASSUME TypeOK, NEW w \in Workers
  PROVE  Held(w) \subseteq Rooms \X (Nat \ {0})
<1>1. CASE jobs[w].stage \in {"flushed", "loaded"}
  BY <1>1, JobShape DEF Held, PostingJobs, LoadedJobs
<1>2. CASE jobs[w].stage = "write"
  BY <1>2, JobShape DEF Held, WriteJobs, Entry
<1>3. CASE jobs[w].stage \notin {"flushed", "loaded", "write"}
  BY <1>3 DEF Held
<1>. QED
  BY <1>1, <1>2, <1>3

\* A step of one thread that commits nothing keeps the order, if what the
\* thread holds afterwards is the next number of its room and nobody else's.
LEMMA OrderKept ==
  ASSUME OrderInv, NEW w \in Workers, UNCHANGED log,
         \A v \in Workers \ {w} : jobs'[v] = jobs[v],
         Numbered(w)', \A v \in Workers \ {w} : Held(w)' \cap Held(v) = {}
  PROVE  OrderInv'
<1>1. TranscriptInOrder'
  BY DEF OrderInv, TranscriptInOrder
<1>2. \A v \in Workers \ {w} : Held(v)' = Held(v)
  BY DEF Held
<1>3. \A v \in Workers \ {w} : Numbered(v)'
  BY <1>2 DEF OrderInv, Numbered, Below, Above
<1>4. Apart'
  BY <1>2 DEF OrderInv, Apart
<1>. QED
  BY <1>1, <1>3, <1>4 DEF OrderInv

LEMMA BeginOrder ==
  ASSUME TypeOK, OrderInv, NEW w \in Workers, NEW room \in Rooms, Begin(w, room)
  PROVE  OrderInv'
<1>1. PICK n \in 0 .. Len(log) + 1 :
        /\ NextSeq(room, n)
        /\ jobs' = [jobs EXCEPT ![w] =
             [stage |-> "begun", room |-> room, seq |-> n, opens |-> {Offer} \ rooms]]
  BY DEF Begin
<1>2. /\ UNCHANGED log /\ \A v \in Workers \ {w} : jobs'[v] = jobs[v]
      /\ jobs'[w].stage = "begun" /\ jobs'[w].room = room /\ jobs'[w].seq = n
  BY <1>1 DEF Begin, TypeOK
<1>3. Below(room, n)
  <2>1. CASE n = 1
    BY <2>1 DEF Below
  <2>2. ASSUME NEW i \in Stored(room), log[i].seq = n - 1, NEW m \in 1 .. n - 1
        PROVE  \E j \in 1 .. Len(log) : log[j].room = room /\ log[j].seq = m
    <3>1. i \in 1 .. Len(log) /\ log[i].room = room
      BY <2>2, FrameShape DEF Stored
    <3>2. CASE m = n - 1
      BY <2>2, <3>1, <3>2
    <3>3. CASE m # n - 1
      <4>1. m \in 1 .. log[i].seq - 1
        BY <2>2, <3>3
      <4>. QED
        BY <3>1, <4>1, FrameShape DEF OrderInv, TranscriptInOrder
    <3>. QED
      BY <3>2, <3>3
  <2>. QED
    BY <1>1, <2>1, <2>2 DEF NextSeq, Below
<1>4. Held(w)' = {}
  BY <1>2 DEF Held
<1>5. Numbered(w)'
  BY <1>2, <1>3, <1>4 DEF Numbered, Below
<1>. QED
  BY <1>2, <1>4, <1>5, OrderKept

LEMMA FlushOrder ==
  ASSUME TypeOK, OrderInv, NEW w \in Workers, Flush(w)
  PROVE  OrderInv'
<1>. DEFINE room == jobs[w].room
            n == jobs[w].seq
<1>1. jobs[w] \in PostingJobs
  BY JobShape DEF Flush
<1>2. room \in Rooms /\ n \in Nat \ {0}
  BY <1>1 DEF PostingJobs
<1>3. /\ UNCHANGED log /\ \A v \in Workers \ {w} : jobs'[v] = jobs[v]
      /\ jobs'[w].stage = "flushed" /\ jobs'[w].room = room /\ jobs'[w].seq = n
  BY <1>1 DEF Flush, TypeOK, PostingJobs
<1>4. Below(room, n)
  BY DEF OrderInv, Numbered, Flush
<1>5. Above(room, n)
  <2>. SUFFICES ASSUME NEW i \in 1 .. Len(log), log[i].room = room
                PROVE  log[i].seq < n
    BY DEF Above
  <2>1. \A j \in 1 .. Len(log) : log[j].room = room => log[j].seq # n
    BY FrameShape DEF Flush, UniqueSeq, Stored
  <2>2. log[i].seq \in Nat /\ i \in DOMAIN log
    BY FrameShape
  <2>3. ASSUME log[i].seq > n
        PROVE  \E j \in 1 .. Len(log) : log[j].room = room /\ log[j].seq = n
    <3>1. n \in 1 .. log[i].seq - 1
      BY <1>2, <2>2, <2>3
    <3>2. \E j \in DOMAIN log : log[j].room = log[i].room /\ log[j].seq = n
      BY <2>2, <3>1 DEF OrderInv, TranscriptInOrder
    <3>. QED
      BY <3>2, FrameShape
  <2>4. ~(log[i].seq > n) /\ log[i].seq # n
    BY <2>1, <2>3
  <2>. QED
    BY <1>2, <2>2, <2>4
<1>6. Held(w)' = {<<room, n>>}
  BY <1>3 DEF Held
<1>7. Numbered(w)'
  BY <1>3, <1>4, <1>5, <1>6 DEF Numbered, Below, Above
<1>8. \A v \in Workers : <<room, n>> \notin Held(v)
  BY DEF Flush, UniqueSeq
<1>. QED
  BY <1>3, <1>6, <1>7, <1>8, OrderKept

\* A thread that goes on with the frame it holds.
LEMMA HolderOrder ==
  ASSUME OrderInv, NEW w \in Workers, UNCHANGED log,
         \A v \in Workers \ {w} : jobs'[v] = jobs[v],
         Held(w)' \subseteq Held(w), jobs'[w].stage # "begun"
  PROVE  OrderInv'
<1>1. Numbered(w)'
  BY DEF OrderInv, Numbered, Below, Above
<1>2. \A v \in Workers \ {w} : Held(w)' \cap Held(v) = {}
  BY DEF OrderInv, Apart
<1>. QED
  BY <1>1, <1>2, OrderKept

LEMMA LoadOrder ==
  ASSUME TypeOK, OrderInv, NEW w \in Workers, NEW c \in Contracts, Load(w, c)
  PROVE  OrderInv'
<1>1. /\ UNCHANGED log /\ \A v \in Workers \ {w} : jobs'[v] = jobs[v]
      /\ jobs'[w].stage = "loaded" /\ jobs'[w].room = jobs[w].room /\ jobs'[w].seq = jobs[w].seq
  BY DEF Load, TypeOK
<1>2. Held(w)' = Held(w)
  BY <1>1 DEF Load, Held
<1>. QED
  BY <1>1, <1>2, HolderOrder

LEMMA DecidesOrder ==
  ASSUME TypeOK, OrderInv, NEW w \in Workers, Decides(w)
  PROVE  OrderInv'
<1>1. /\ UNCHANGED log /\ \A v \in Workers \ {w} : jobs'[v] = jobs[v]
      /\ jobs[w].stage \in {"flushed", "loaded"} /\ jobs'[w].stage = "write"
      /\ jobs'[w].entry.room = jobs[w].room /\ jobs'[w].entry.seq = jobs[w].seq
  BY DecisionsSound, DecisionShape
<1>2. Held(w)' = Held(w)
  BY <1>1 DEF Held
<1>. QED
  BY <1>1, <1>2, HolderOrder

LEMMA DropOrder ==
  ASSUME TypeOK, OrderInv, NEW w \in Workers, Drop(w)
  PROVE  OrderInv'
<1>1. /\ UNCHANGED log /\ \A v \in Workers \ {w} : jobs'[v] = jobs[v]
      /\ jobs'[w].stage = "idle"
  BY DEF Drop, TypeOK, Idle
<1>2. Held(w)' = {}
  BY <1>1 DEF Held
<1>. QED
  BY <1>1, <1>2, HolderOrder

\* The committed frame is the last of its room; what other threads hold is in
\* other rooms, since a room has only one next number.
LEMMA CommitOrder ==
  ASSUME TypeOK, OrderInv, NEW w \in Workers, Commit(w)
  PROVE  OrderInv'
<1>. DEFINE room == jobs[w].entry.room
            n == jobs[w].entry.seq
            L == Len(log)
<1>1. /\ jobs[w].stage = "write" /\ room \in Rooms /\ n \in Nat \ {0}
      /\ Len(log') = L + 1 /\ DOMAIN log' = 1 .. L + 1
      /\ \A i \in 1 .. L : log'[i] = log[i]
      /\ log'[L + 1].room = room /\ log'[L + 1].seq = n
      /\ \A v \in Workers \ {w} : jobs'[v] = jobs[v]
      /\ jobs'[w] = Idle
  <2>1. DOMAIN log' = 1 .. L + 1
    BY CommitShape, CommitType, FrameShape DEF TypeOK
  <2>. QED
    BY <2>1, CommitShape DEF Commit, WriteJobs, Entry
<1>2. L \in Nat /\ DOMAIN log = 1 .. L /\ \A i \in 1 .. L : log[i].seq \in Nat \ {0}
  BY FrameShape
<1>3. <<room, n>> \in Held(w)
  BY <1>1 DEF Held
<1>4. Below(room, n) /\ Above(room, n)
  BY <1>3 DEF OrderInv, Numbered
<1>. HIDE DEF room, n, L
<1>5. TranscriptInOrder'
  <2>. SUFFICES ASSUME NEW i \in 1 .. L + 1
                PROVE  /\ \A j \in 1 .. L + 1 :
                            j < i /\ log'[j].room = log'[i].room => log'[j].seq < log'[i].seq
                       /\ \A m \in 1 .. log'[i].seq - 1 :
                            \E j \in 1 .. L + 1 :
                              j < i /\ log'[j].room = log'[i].room /\ log'[j].seq = m
    BY <1>1 DEF TranscriptInOrder
  <2>1. CASE i = L + 1
    <3>1. \A j \in 1 .. L : log[j].room = room => log[j].seq < n
      BY <1>4 DEF Above, L
    <3>2. \A m \in 1 .. n - 1 : \E j \in 1 .. L : log[j].room = room /\ log[j].seq = m
      BY <1>4 DEF Below, L
    <3>3. log'[i].room = room /\ log'[i].seq = n
      BY <1>1, <2>1
    <3>4. \A j \in 1 .. L + 1 : j < i => j \in 1 .. L /\ log'[j] = log[j]
      BY <1>1, <1>2, <2>1
    <3>5. \A j \in 1 .. L : j \in 1 .. L + 1 /\ j < i /\ log'[j] = log[j]
      BY <1>1, <1>2, <2>1
    <3>6. \A j \in 1 .. L + 1 :
            j < i /\ log'[j].room = log'[i].room => log'[j].seq < log'[i].seq
      BY <3>1, <3>3, <3>4
    <3>7. \A m \in 1 .. log'[i].seq - 1 :
            \E j \in 1 .. L + 1 :
              j < i /\ log'[j].room = log'[i].room /\ log'[j].seq = m
      BY <3>2, <3>3, <3>5
    <3>. QED
      BY <3>6, <3>7
  <2>2. CASE i # L + 1
    <3>1. i \in 1 .. L /\ log'[i] = log[i]
      BY <1>1, <1>2, <2>2
    <3>2. \A j \in 1 .. L : j < i /\ log[j].room = log[i].room => log[j].seq < log[i].seq
      BY <1>2, <3>1 DEF OrderInv, TranscriptInOrder
    <3>3. \A m \in 1 .. log[i].seq - 1 :
            \E j \in 1 .. L : j < i /\ log[j].room = log[i].room /\ log[j].seq = m
      BY <1>2, <3>1 DEF OrderInv, TranscriptInOrder
    <3>4. \A j \in 1 .. L + 1 : j < i => j \in 1 .. L /\ log'[j] = log[j]
      BY <1>1, <1>2, <3>1
    <3>5. \A j \in 1 .. L : j \in 1 .. L + 1 /\ log'[j] = log[j]
      BY <1>1, <1>2
    <3>6. \A j \in 1 .. L + 1 :
            j < i /\ log'[j].room = log'[i].room => log'[j].seq < log'[i].seq
      BY <3>1, <3>2, <3>4
    <3>7. \A m \in 1 .. log'[i].seq - 1 :
            \E j \in 1 .. L + 1 :
              j < i /\ log'[j].room = log'[i].room /\ log'[j].seq = m
      BY <3>1, <3>3, <3>5
    <3>. QED
      BY <3>6, <3>7
  <2>. QED
    BY <2>1, <2>2
<1>6. Held(w)' = {} /\ \A v \in Workers \ {w} : Held(v)' = Held(v)
  <2>1. jobs'[w].stage = "idle"
    BY <1>1 DEF Idle
  <2>. QED
    BY <1>1, <2>1 DEF Held
<1>7. Apart'
  BY <1>6 DEF OrderInv, Apart
<1>8. \A r, m : Below(r, m) => Below(r, m)'
  BY <1>1, <1>2 DEF Below, L
<1>9. ASSUME NEW v \in Workers \ {w}, NEW h \in Held(v)
      PROVE  Below(h[1], h[2])' /\ Above(h[1], h[2])'
  <2>1. Below(h[1], h[2]) /\ Above(h[1], h[2]) /\ h \notin Held(w)
    BY <1>9 DEF OrderInv, Numbered, Apart
  <2>2. h = <<h[1], h[2]>> /\ h[2] \in Nat \ {0}
    BY HeldShape
  <2>3. h[1] # room
    <3>. SUFFICES ASSUME h[1] = room PROVE FALSE
      OBVIOUS
    <3>1. ~(n < h[2])
      <4>. SUFFICES ASSUME n < h[2] PROVE FALSE
        OBVIOUS
      <4>1. n \in 1 .. h[2] - 1
        BY <1>1, <2>2
      <4>2. PICK i \in 1 .. L : log[i].room = room /\ log[i].seq = n
        BY <2>1, <4>1 DEF Below, L
      <4>3. log[i].seq < n
        BY <1>4, <4>2 DEF Above, L
      <4>. QED
        BY <1>1, <4>2, <4>3
    <3>2. ~(h[2] < n)
      <4>. SUFFICES ASSUME h[2] < n PROVE FALSE
        OBVIOUS
      <4>1. h[2] \in 1 .. n - 1
        BY <1>1, <2>2
      <4>2. PICK i \in 1 .. L : log[i].room = room /\ log[i].seq = h[2]
        BY <1>4, <4>1 DEF Below, L
      <4>3. log[i].seq < h[2]
        BY <2>1, <4>2 DEF Above, L
      <4>. QED
        BY <2>2, <4>2, <4>3
    <3>3. h[2] = n
      BY <1>1, <2>2, <3>1, <3>2
    <3>. QED
      BY <1>3, <2>1, <2>2, <3>3
  <2>4. Above(h[1], h[2])'
    <3>. SUFFICES ASSUME NEW i \in 1 .. L + 1, log'[i].room = h[1]
                  PROVE  log'[i].seq < h[2]
      BY <1>1 DEF Above
    <3>1. i \in 1 .. L /\ log'[i] = log[i]
      BY <1>1, <1>2, <2>3
    <3>. QED
      BY <2>1, <3>1 DEF Above, L
  <2>. QED
    BY <1>8, <2>1, <2>4
<1>10. ASSUME NEW v \in Workers PROVE Numbered(v)'
  <2>1. CASE v = w
    BY <1>1, <1>6, <2>1 DEF Numbered, Idle
  <2>2. CASE v # w
    <3>1. jobs'[v] = jobs[v] /\ Held(v)' = Held(v)
      BY <1>1, <1>6, <2>2
    <3>2. ASSUME jobs'[v].stage = "begun"
          PROVE  Below(jobs[v].room, jobs[v].seq)'
      <4>1. Below(jobs[v].room, jobs[v].seq)
        BY <3>1, <3>2 DEF OrderInv, Numbered
      <4>. DEFINE r == jobs[v].room
                  m == jobs[v].seq
      <4>2. r' = r /\ m' = m
        BY <3>1
      <4>3. Below(r, m)'
        BY <1>1, <1>2, <4>1, <4>2 DEF Below, L
      <4>. QED
        BY <4>3
    <3>. QED
      BY <1>9, <2>2, <3>1, <3>2 DEF Numbered, Below, Above
  <2>. QED
    BY <2>1, <2>2
<1>. QED
  BY <1>5, <1>7, <1>10 DEF OrderInv

LEMMA OrderSound == Spec => []OrderInv
<1>1. Init => OrderInv
  <2>1. Init => \A w \in Workers : Held(w) = {} /\ jobs[w].stage = "idle"
    BY DEF Init, Held, Idle
  <2>2. Init => TranscriptInOrder
    BY DEF Init, TranscriptInOrder
  <2>. QED
    BY <2>1, <2>2 DEF OrderInv, Apart, Numbered
<1>2. TypeOK /\ OrderInv /\ [Next]_vars => OrderInv'
  <2>. SUFFICES ASSUME TypeOK, OrderInv, [Next]_vars PROVE OrderInv'
    OBVIOUS
  <2>1. ASSUME UNCHANGED <<log, jobs>> PROVE OrderInv'
    BY <2>1 DEF OrderInv, TranscriptInOrder, Apart, Numbered, Held, Below, Above
  <2>2. CASE \E room \in Rooms : MakeRoom(room)
    BY <2>1, <2>2 DEF MakeRoom
  <2>3. CASE UNCHANGED vars
    BY <2>1, <2>3 DEF vars
  <2>. QED
    BY <2>2, <2>3, BeginOrder, FlushOrder, LoadOrder, DecidesOrder, CommitOrder, DropOrder
    DEF Next, Decides
<1>. QED
  BY <1>1, <1>2, TypeCorrect, PTL DEF Spec

(***************************************************************************)
(* The transcript of every room is complete and in order, however many     *)
(* threads post at once and whichever of them fail (post_frame).           *)
(***************************************************************************)
THEOREM TranscriptsInOrder == Spec => []TranscriptInOrder
BY OrderSound, PTL DEF OrderInv

-----------------------------------------------------------------------------
(* What a contract's status rests on *)

\* What a session is going to write is backed once its frame is committed.
Grounded(w) ==
  /\ jobs[w].stage = "loaded" => Backed(jobs[w].contract, jobs[w].state)
  /\ jobs[w].stage = "write" /\ jobs[w].old # jobs[w].new /\ jobs[w].row \in Contracts =>
       \/ jobs[w].new = "proposed" /\ AcceptedBy(jobs[w].row, Len(log))
       \/ /\ jobs[w].entry.about = jobs[w].row
          /\ \/ /\ jobs[w].entry.type = "accept" /\ jobs[w].new = "accepted"
                /\ \E i \in 1 .. Len(log) : log[i].type = "offer"
             \/ /\ jobs[w].entry.type \notin {"offer", "accept"}
                /\ <<jobs[w].old, jobs[w].entry.type, jobs[w].new>> \in Machine
                /\ Backed(jobs[w].row, jobs[w].old)

BackedInv == StatusBacked /\ \A w \in Workers : Grounded(w)

\* A contract with any status has been accepted.
LEMMA StatusAccepted ==
  ASSUME TypeOK, NEW c \in Contracts, NEW status \in Statuses, Backed(c, status)
  PROVE  AcceptedBy(c, Len(log))
<1>1. Len(log) \in Nat
  BY FrameShape
<1>2. ASSUME NEW n \in 0 .. Len(log), AcceptedBy(c, n) PROVE AcceptedBy(c, Len(log))
  BY <1>1, <1>2 DEF AcceptedBy
<1>3. ASSUME NEW n \in 0 .. Len(log), LockedBy(c, n) PROVE AcceptedBy(c, Len(log))
  <2>1. PICK k \in 1 .. n : AcceptedBy(c, k - 1)
    BY <1>3 DEF LockedBy
  <2>. QED
    BY <1>1, <1>2, <2>1
<1>4. ASSUME NEW type \in FrameTypes, EndedBy(c, type, Len(log)) PROVE AcceptedBy(c, Len(log))
  <2>1. PICK k \in 1 .. Len(log) : LockedBy(c, k - 1)
    BY <1>4 DEF EndedBy
  <2>. QED
    BY <1>1, <1>3, <2>1
<1>. QED
  BY <1>1, <1>3, <1>4 DEF Backed, Statuses, FrameTypes

\* A commit takes nothing from the record.
LEMMA RecordGrows ==
  ASSUME TypeOK, NEW w \in Workers, Commit(w), NEW c \in Contracts, NEW n \in 0 .. Len(log)
  PROVE  /\ AcceptedBy(c, n) => AcceptedBy(c, n)'
         /\ LockedBy(c, n) => LockedBy(c, n)'
         /\ \A type \in FrameTypes : EndedBy(c, type, n) => EndedBy(c, type, n)'
<1>1. /\ Len(log) \in Nat /\ Len(log') = Len(log) + 1
      /\ \A i \in 1 .. Len(log) : log'[i] = log[i]
  BY FrameShape, CommitShape
<1>2. \A m \in 0 .. Len(log) : AcceptedBy(c, m) => AcceptedBy(c, m)'
  BY <1>1 DEF AcceptedBy
<1>3. \A m \in 0 .. Len(log) : LockedBy(c, m) => LockedBy(c, m)'
  <2>. SUFFICES ASSUME NEW m \in 0 .. Len(log), LockedBy(c, m) PROVE LockedBy(c, m)'
    OBVIOUS
  <2>1. PICK k \in 1 .. m : log[k].type = "lock" /\ log[k].about = c /\ AcceptedBy(c, k - 1)
    BY DEF LockedBy
  <2>2. log'[k] = log[k] /\ k - 1 \in 0 .. Len(log)
    BY <1>1
  <2>3. AcceptedBy(c, k - 1)'
    BY <1>2, <2>1, <2>2
  <2>. QED
    BY <2>1, <2>2, <2>3 DEF LockedBy
<1>4. \A type \in FrameTypes : EndedBy(c, type, n) => EndedBy(c, type, n)'
  <2>. SUFFICES ASSUME NEW type \in FrameTypes, EndedBy(c, type, n) PROVE EndedBy(c, type, n)'
    OBVIOUS
  <2>1. PICK k \in 1 .. n : log[k].type = type /\ log[k].about = c /\ LockedBy(c, k - 1)
    BY DEF EndedBy
  <2>2. log'[k] = log[k] /\ k - 1 \in 0 .. Len(log)
    BY <1>1
  <2>3. LockedBy(c, k - 1)'
    BY <1>3, <2>1, <2>2
  <2>. QED
    BY <2>1, <2>2, <2>3 DEF EndedBy
<1>. QED
  BY <1>2, <1>3, <1>4

\* What backs a status before a commit backs it after.
LEMMA BackedKept ==
  ASSUME TypeOK, NEW w \in Workers, Commit(w), NEW c \in Contracts,
         NEW status \in Statuses \cup {"none"}
  PROVE  /\ AcceptedBy(c, Len(log)) => AcceptedBy(c, Len(log))'
         /\ Backed(c, status) => Backed(c, status)'
<1>1. Len(log) \in Nat /\ Len(log') = Len(log) + 1
  BY FrameShape, CommitShape
<1>2. Len(log) \in 0 .. Len(log)
  BY <1>1
<1>3. \A k \in 1 .. Len(log) : k \in 1 .. Len(log') /\ k \in 0 .. Len(log)
  BY <1>1
<1>4. AcceptedBy(c, Len(log)) => AcceptedBy(c, Len(log))'
  BY <1>1, CommitShape DEF AcceptedBy
<1>5. \A i \in 1 .. Len(log) : log'[i] = log[i] /\ i - 1 \in 0 .. Len(log)
  BY <1>1, CommitShape
<1>6. LockedBy(c, Len(log)) => LockedBy(c, Len(log))'
  BY <1>3, <1>5, RecordGrows DEF LockedBy
<1>7. \A type \in FrameTypes : EndedBy(c, type, Len(log)) => EndedBy(c, type, Len(log))'
  BY <1>3, <1>5, RecordGrows DEF EndedBy
<1>. QED
  BY <1>4, <1>6, <1>7 DEF Backed, FrameTypes

\* A step of one thread that commits nothing, if its session stays grounded.
LEMMA BackedStill ==
  ASSUME BackedInv, NEW w \in Workers, UNCHANGED <<log, cached>>,
         \A v \in Workers \ {w} : jobs'[v] = jobs[v], Grounded(w)'
  PROVE  BackedInv'
<1>1. StatusBacked'
  BY DEF BackedInv, StatusBacked, Backed, AcceptedBy, LockedBy, EndedBy
<1>2. ASSUME NEW v \in Workers \ {w} PROVE Grounded(v)'
  <2>1. Grounded(v) /\ jobs'[v] = jobs[v]
    BY DEF BackedInv
  <2>. QED
    BY <2>1 DEF Grounded, Backed, AcceptedBy, LockedBy, EndedBy
<1>. QED
  BY <1>1, <1>2 DEF BackedInv

\* A request that has read no contract yet, or is over, rests on nothing.
LEMMA UnreadBacked ==
  ASSUME TypeOK, BackedInv, NEW w \in Workers,
         (\E room \in Rooms : Begin(w, room)) \/ Flush(w) \/ Drop(w)
  PROVE  BackedInv'
<1>1. CASE \E room \in Rooms : Begin(w, room)
  <2>1. /\ UNCHANGED <<log, cached>> /\ \A v \in Workers \ {w} : jobs'[v] = jobs[v]
        /\ jobs'[w].stage = "begun"
    BY <1>1 DEF Begin, TypeOK
  <2>. QED
    BY <2>1, BackedStill DEF Grounded
<1>2. CASE Flush(w)
  <2>1. jobs[w] \in PostingJobs
    BY <1>2, JobShape DEF Flush
  <2>2. /\ UNCHANGED <<log, cached>> /\ \A v \in Workers \ {w} : jobs'[v] = jobs[v]
        /\ jobs'[w].stage = "flushed"
    BY <1>2, <2>1 DEF Flush, TypeOK, PostingJobs
  <2>. QED
    BY <2>2, BackedStill DEF Grounded
<1>3. CASE Drop(w)
  <2>1. /\ UNCHANGED <<log, cached>> /\ \A v \in Workers \ {w} : jobs'[v] = jobs[v]
        /\ jobs'[w].stage = "idle"
    BY <1>3 DEF Drop, TypeOK, Idle
  <2>. QED
    BY <2>1, BackedStill DEF Grounded
<1>. QED
  BY <1>1, <1>2, <1>3

LEMMA LoadBacked ==
  ASSUME TypeOK, BackedInv, NEW w \in Workers, NEW c \in Contracts, Load(w, c)
  PROVE  BackedInv'
<1>1. /\ UNCHANGED <<log, cached>> /\ \A v \in Workers \ {w} : jobs'[v] = jobs[v]
      /\ jobs'[w].stage = "loaded" /\ jobs'[w].contract = c /\ jobs'[w].state = cached[c]
  BY DEF Load, TypeOK
<1>2. Backed(c, cached[c])
  BY DEF BackedInv, StatusBacked
<1>3. Backed(jobs[w].contract, jobs[w].state)'
  BY <1>1, <1>2 DEF Backed, AcceptedBy, LockedBy, EndedBy
<1>. QED
  BY <1>1, <1>3, BackedStill DEF Grounded

LEMMA DecidesBacked ==
  ASSUME TypeOK, BackedInv, NEW w \in Workers, Decides(w)
  PROVE  BackedInv'
<1>1. PICK type \in FrameTypes, about \in Rows, row \in Rows,
           old \in Statuses \cup {"none"}, new \in Statuses \cup {"none"},
           opens \in SUBSET Rooms :
        Decide(w, type, about, row, old, new, opens) /\ Sound(w, type, about, row, old, new)
  BY DecisionsSound
<1>2. /\ jobs[w].stage \in {"flushed", "loaded"}
      /\ UNCHANGED <<log, cached>> /\ \A v \in Workers \ {w} : jobs'[v] = jobs[v]
      /\ jobs'[w].stage = "write" /\ jobs'[w].row = row
      /\ jobs'[w].old = old /\ jobs'[w].new = new
      /\ jobs'[w].entry.type = type /\ jobs'[w].entry.about = about
  <2>1. jobs[w].stage \in {"flushed", "loaded"}
    BY DecisionsSound
  <2>. QED
    BY <1>1, <2>1, DecisionShape
<1>3. ASSUME old # new, row \in Contracts
      PROVE  \/ new = "proposed" /\ AcceptedBy(row, Len(log))
             \/ /\ about = row
                /\ \/ /\ type = "accept" /\ new = "accepted"
                      /\ \E i \in 1 .. Len(log) : log[i].type = "offer"
                   \/ /\ type \notin {"offer", "accept"}
                      /\ <<old, type, new>> \in Machine
                      /\ Backed(row, old)
  <2>1. CASE type = "offer" /\ new = "proposed" /\ old = cached[row] /\ old # "none"
    <3>1. Backed(row, old) /\ old \in Statuses
      BY <1>3, <2>1 DEF BackedInv, StatusBacked
    <3>. QED
      BY <1>3, <2>1, <3>1, StatusAccepted
  <2>2. CASE type = "accept" /\ new = "accepted" /\ row = about /\ Posted("offer", Offer)
    BY <2>2, FrameShape DEF Posted
  <2>3. CASE /\ jobs[w].stage = "loaded" /\ old = jobs[w].state
             /\ row = jobs[w].contract /\ about = row
             /\ <<old, type, new>> \in Machine /\ type \notin {"offer", "accept"}
    BY <2>3 DEF BackedInv, Grounded
  <2>. QED
    BY <1>1, <1>3, <2>1, <2>2, <2>3 DEF Sound
<1>4. Grounded(w)'
  BY <1>2, <1>3 DEF Grounded, Backed, AcceptedBy, LockedBy, EndedBy
<1>. QED
  BY <1>2, <1>4, BackedStill

\* The committed frame is the last one that the new status needs.
LEMMA CommitBacks ==
  ASSUME TypeOK, BackedInv, NEW w \in Workers, Commit(w),
         NEW c \in Contracts, NEW new \in Statuses \cup {"none"},
         jobs[w].row = c, jobs[w].new = new, jobs[w].old # new
  PROVE  Backed(c, new)'
<1>1. PICK L \in Nat : L = Len(log)
  BY FrameShape
<1>2. PICK entry \in Entry : entry = jobs[w].entry
  BY CommitShape DEF WriteJobs
<1>3. /\ Len(log') = L + 1 /\ log'[L + 1] = entry
      /\ \A i \in 1 .. L : log'[i] = log[i]
  BY <1>1, <1>2, CommitShape
<1>4. Grounded(w) /\ jobs[w].stage = "write"
  BY DEF BackedInv, Commit
<1>5. CASE new = "proposed" /\ AcceptedBy(c, Len(log))
  <2>1. AcceptedBy(c, Len(log))'
    BY <1>5, BackedKept
  <2>. QED
    BY <1>5, <2>1 DEF Backed
<1>6. CASE /\ entry.about = c /\ entry.type = "accept" /\ new = "accepted"
           /\ \E i \in 1 .. Len(log) : log[i].type = "offer"
  <2>1. PICK i \in 1 .. L : log'[i].type = "offer"
    BY <1>1, <1>3, <1>6
  <2>2. L + 1 \in 1 .. Len(log') /\ i \in 1 .. (L + 1) - 1
    BY <1>3
  <2>3. AcceptedBy(c, Len(log))'
    BY <1>3, <1>6, <2>1, <2>2 DEF AcceptedBy
  <2>. QED
    BY <1>6, <2>3 DEF Backed
<1>7. CASE /\ entry.about = c /\ <<jobs[w].old, entry.type, new>> \in Machine
           /\ entry.type \notin {"offer", "accept"} /\ Backed(c, jobs[w].old)
  <2>1. L \in 0 .. Len(log) /\ L + 1 \in 1 .. Len(log') /\ (L + 1) - 1 = L
    BY <1>1, <1>3
  <2>2. CASE entry.type = "lock" /\ new = "locked" /\ jobs[w].old = "accepted"
    <3>1. AcceptedBy(c, L)'
      BY <1>1, <1>7, <2>1, <2>2, RecordGrows DEF Backed
    <3>2. AcceptedBy(c, (L + 1) - 1)'
      BY <2>1, <3>1
    <3>3. LockedBy(c, Len(log))'
      BY <1>3, <1>7, <2>1, <2>2, <3>2 DEF LockedBy
    <3>. QED
      BY <2>2, <3>3 DEF Backed
  <2>3. CASE /\ entry.type \in {"reveal", "refund"} /\ jobs[w].old = "locked"
             /\ new = IF entry.type = "reveal" THEN "revealed" ELSE "refunded"
    <3>1. LockedBy(c, L)'
      BY <1>1, <1>7, <2>1, <2>3, RecordGrows DEF Backed
    <3>2. LockedBy(c, (L + 1) - 1)'
      BY <2>1, <3>1
    <3>3. \A type : entry.type = type => EndedBy(c, type, Len(log))'
      BY <1>3, <1>7, <2>1, <3>2 DEF EndedBy
    <3>. QED
      BY <2>3, <3>3 DEF Backed
  <2>. QED
    BY <1>7, <2>2, <2>3 DEF Machine
<1>. QED
  BY <1>1, <1>2, <1>4, <1>5, <1>6, <1>7 DEF Grounded

LEMMA CommitBacked ==
  ASSUME TypeOK, BackedInv, NEW w \in Workers, Commit(w)
  PROVE  BackedInv'
<1>1. /\ jobs'[w].stage = "idle" /\ \A v \in Workers \ {w} : jobs'[v] = jobs[v]
      /\ jobs[w] \in WriteJobs /\ jobs[w].row \in Rows
      /\ jobs[w].new \in Statuses \cup {"none"}
  BY CommitShape DEF Idle, WriteJobs
<1>2. ASSUME NEW c \in Contracts PROVE Backed(c, cached[c])'
  <2>1. PICK status \in Statuses \cup {"none"} : status = cached'[c]
    BY CommitType DEF TypeOK, Rows
  <2>2. \/ status = jobs[w].new /\ jobs[w].row = c /\ jobs[w].old # status
        \/ status = cached[c]
    BY <1>1, <2>1 DEF Commit, TypeOK, Rows
  <2>3. CASE status = jobs[w].new /\ jobs[w].row = c /\ jobs[w].old # status
    <3>1. Backed(c, status)'
      BY <2>3, CommitBacks
    <3>. QED
      BY <2>1, <3>1 DEF Backed
  <2>4. CASE status = cached[c]
    <3>1. Backed(c, status)
      BY <2>4 DEF BackedInv, StatusBacked
    <3>2. Backed(c, status)'
      BY <3>1, BackedKept
    <3>. QED
      BY <2>1, <3>2 DEF Backed
  <2>. QED
    BY <2>2, <2>3, <2>4
<1>3. ASSUME NEW v \in Workers PROVE Grounded(v)'
  <2>1. CASE v = w
    BY <1>1, <2>1 DEF Grounded
  <2>2. CASE v # w
    <3>1. Grounded(v) /\ jobs'[v] = jobs[v]
      BY <1>1, <2>2 DEF BackedInv
    <3>2. ASSUME jobs[v].stage = "loaded"
          PROVE  Backed(jobs[v].contract, jobs[v].state)'
      <4>1. PICK c \in Contracts, status \in Statuses :
              c = jobs[v].contract /\ status = jobs[v].state
        BY <3>2, JobShape DEF LoadedJobs
      <4>2. Backed(c, status)
        BY <3>1, <3>2, <4>1 DEF Grounded
      <4>3. Backed(c, status)'
        BY <4>2, BackedKept
      <4>. QED
        BY <3>1, <4>1, <4>3 DEF Backed
    <3>3. ASSUME jobs[v].stage = "write", jobs[v].row \in Contracts
          PROVE  /\ AcceptedBy(jobs[v].row, Len(log)) => AcceptedBy(jobs[v].row, Len(log))'
                 /\ Backed(jobs[v].row, jobs[v].old) => Backed(jobs[v].row, jobs[v].old)'
      <4>1. PICK c \in Contracts, status \in Statuses \cup {"none"} :
              c = jobs[v].row /\ status = jobs[v].old
        BY <3>3, JobShape DEF WriteJobs
      <4>2. /\ AcceptedBy(c, Len(log)) => AcceptedBy(c, Len(log))'
            /\ Backed(c, status) => Backed(c, status)'
        BY BackedKept
      <4>. QED
        BY <3>1, <4>1, <4>2 DEF Backed, AcceptedBy
    <3>4. (\E i \in 1 .. Len(log) : log[i].type = "offer") =>
            \E i \in 1 .. Len(log') : log'[i].type = "offer"
      BY FrameShape, CommitShape
    <3>. QED
      BY <3>1, <3>2, <3>3, <3>4 DEF Grounded
  <2>. QED
    BY <2>1, <2>2
<1>. QED
  BY <1>2, <1>3 DEF BackedInv, StatusBacked

LEMMA BackedSound == Spec => []BackedInv
<1>1. Init => BackedInv
  BY DEF Init, BackedInv, StatusBacked, Backed, Grounded, Idle, Rows
<1>2. TypeOK /\ BackedInv /\ [Next]_vars => BackedInv'
  <2>. SUFFICES ASSUME TypeOK, BackedInv, [Next]_vars PROVE BackedInv'
    OBVIOUS
  <2>1. ASSUME UNCHANGED <<log, cached, jobs>> PROVE BackedInv'
    BY <2>1 DEF BackedInv, StatusBacked, Grounded, Backed, AcceptedBy, LockedBy, EndedBy
  <2>2. CASE \E room \in Rooms : MakeRoom(room)
    BY <2>1, <2>2 DEF MakeRoom
  <2>3. CASE UNCHANGED vars
    BY <2>1, <2>3 DEF vars
  <2>. QED
    BY <2>2, <2>3, UnreadBacked, LoadBacked, DecidesBacked, CommitBacked DEF Next, Decides
<1>. QED
  BY <1>1, <1>2, TypeCorrect, PTL DEF Spec

(***************************************************************************)
(* The status of a contract is never ahead of the frames on record, for    *)
(* any number of contracts and threads (_advance_protocol): the frames     *)
(* that lead to it are committed, in their order, on both databases.       *)
(***************************************************************************)
THEOREM StatusesBacked == Spec => []StatusBacked
BY BackedSound, PTL DEF BackedInv

-----------------------------------------------------------------------------
(* How a contract moves *)

\* On SQLite one thread holds the write lock.
OneWriter ==
  database = "sqlite" => \A v, w \in Workers : v # w => Held(v) = {} \/ Held(w) = {}

\* A state that was read in a room is the contract's still, or the contract
\* moved in another room.
Current(c, state, room) ==
  state = cached[c] \/ (database = "postgres" /\ MovedElsewhere(c, room))

\* What a thread is about to write, with what it rests on.
Moves(w) ==
  LET job == jobs[w] IN
  \/ job.new = job.old
  \/ job.entry.type = "offer" /\ job.entry.about = Offer /\ job.new = "proposed"
  \/ job.entry.type = "accept" /\ job.entry.about = job.row /\ job.new = "accepted"
  \/ /\ job.entry.type # "offer" /\ job.entry.about = job.row /\ job.row \in Contracts
     /\ <<job.old, job.entry.type, job.new>> \in Machine
     /\ Current(job.row, job.old, job.entry.room)

Fresh(w) ==
  /\ jobs[w].stage = "loaded" => Current(jobs[w].contract, jobs[w].state, jobs[w].room)
  /\ jobs[w].stage = "write" => Moves(w)

FreshInv == OneWriter /\ \A w \in Workers : Fresh(w)

\* Two threads that hold numbers hold them in different rooms.
LEMMA RoomsApart ==
  ASSUME TypeOK, OrderInv, NEW v \in Workers, NEW w \in Workers, v # w,
         NEW g \in Held(v), NEW h \in Held(w)
  PROVE  g[1] # h[1]
<1>. SUFFICES ASSUME g[1] = h[1] PROVE FALSE
  OBVIOUS
<1>1. g \in Rooms \X (Nat \ {0}) /\ h \in Rooms \X (Nat \ {0})
  BY HeldShape
<1>2. /\ Below(g[1], g[2]) /\ Above(g[1], g[2])
      /\ Below(g[1], h[2]) /\ Above(g[1], h[2])
  BY DEF OrderInv, Numbered
<1>3. \A i \in 1 .. Len(log) : log[i].seq \in Nat
  BY FrameShape
<1>4. g[2] = h[2]
  BY <1>1, <1>2, <1>3 DEF Below, Above
<1>5. g = h
  BY <1>1, <1>4
<1>. QED
  BY <1>5 DEF OrderInv, Apart

\* Steps that commit nothing and keep the other threads' jobs.
LEMMA FreshKept ==
  ASSUME FreshInv, NEW w \in Workers, UNCHANGED <<database, log, cached>>,
         \A v \in Workers \ {w} : jobs'[v] = jobs[v],
         Fresh(w)',
         database = "sqlite" => Held(w)' = {} \/ Held(w) # {} \/ \A v \in Workers : Held(v) = {}
  PROVE  FreshInv'
<1>1. \A v \in Workers \ {w} : Held(v)' = Held(v)
  BY DEF Held
<1>2. OneWriter'
  BY <1>1 DEF FreshInv, OneWriter
<1>3. \A v \in Workers \ {w} : Fresh(v)'
  BY DEF FreshInv, Fresh, Moves, Current, MovedElsewhere
<1>. QED
  BY <1>2, <1>3 DEF FreshInv

\* A read, a number taken, a frame inserted, a request given up.
LEMMA UnreadFresh ==
  ASSUME TypeOK, FreshInv, NEW w \in Workers,
         (\E room \in Rooms : Begin(w, room)) \/ Flush(w) \/ Drop(w)
  PROVE  FreshInv'
<1>1. /\ UNCHANGED <<database, log, cached>>
      /\ \A v \in Workers \ {w} : jobs'[v] = jobs[v]
      /\ jobs'[w].stage \in {"begun", "flushed", "idle"}
      /\ Flush(w) \/ jobs'[w].stage # "flushed"
  <2>1. CASE \E room \in Rooms : Begin(w, room)
    <3>1. PICK room \in Rooms : Begin(w, room)
      BY <2>1
    <3>2. PICK n \in 0 .. Len(log) + 1 :
            jobs' = [jobs EXCEPT ![w] =
              [stage |-> "begun", room |-> room, seq |-> n, opens |-> {Offer} \ rooms]]
      BY <3>1 DEF Begin
    <3>. QED
      BY <3>1, <3>2 DEF Begin, TypeOK
  <2>2. CASE Flush(w)
    BY <2>2 DEF Flush, TypeOK
  <2>3. CASE Drop(w)
    BY <2>3 DEF Drop, TypeOK, Idle
  <2>. QED
    BY <2>1, <2>2, <2>3
<1>2. Fresh(w)'
  BY <1>1 DEF Fresh
<1>3. database = "sqlite" => Held(w)' = {} \/ \A v \in Workers : Held(v) = {}
  <2>1. CASE Flush(w)
    BY <2>1 DEF Flush, MayWrite
  <2>2. CASE ~Flush(w)
    BY <1>1, <2>2 DEF Held
  <2>. QED
    BY <2>1, <2>2
<1>. QED
  BY <1>1, <1>2, <1>3, FreshKept

LEMMA LoadFresh ==
  ASSUME TypeOK, FreshInv, NEW w \in Workers, NEW c \in Contracts, Load(w, c)
  PROVE  FreshInv'
<1>1. /\ UNCHANGED <<database, log, cached>>
      /\ \A v \in Workers \ {w} : jobs'[v] = jobs[v]
      /\ jobs[w].stage = "flushed"
      /\ jobs'[w].stage = "loaded" /\ jobs'[w].contract = c /\ jobs'[w].state = cached[c]
  BY DEF Load, TypeOK
<1>2. Fresh(w)' /\ Held(w) # {}
  BY <1>1 DEF Fresh, Current, Held
<1>. QED
  BY <1>1, <1>2, FreshKept

LEMMA DecidesFresh ==
  ASSUME TypeOK, FreshInv, NEW w \in Workers, Decides(w)
  PROVE  FreshInv'
<1>1. PICK type \in FrameTypes, about \in Rows, row \in Rows,
           old \in Statuses \cup {"none"}, new \in Statuses \cup {"none"},
           opens \in SUBSET Rooms :
        Decide(w, type, about, row, old, new, opens) /\ Sound(w, type, about, row, old, new)
  BY DecisionsSound
<1>2. jobs[w].stage \in {"flushed", "loaded"}
  BY DecisionsSound
<1>3. /\ UNCHANGED <<log, cached>> /\ \A v \in Workers \ {w} : jobs'[v] = jobs[v]
      /\ jobs'[w].stage = "write" /\ jobs'[w].row = row
      /\ jobs'[w].old = old /\ jobs'[w].new = new
      /\ jobs'[w].entry.type = type /\ jobs'[w].entry.about = about
      /\ jobs'[w].entry.room = jobs[w].room
  BY <1>1, <1>2, DecisionShape
<1>4. database' = database
  BY <1>1 DEF Decide
<1>5. Held(w) # {}
  BY <1>2 DEF Held
<1>6. \/ new = old
      \/ type = "offer" /\ about = Offer /\ new = "proposed"
      \/ type = "accept" /\ about = row /\ new = "accepted"
      \/ /\ type # "offer" /\ about = row /\ row \in Contracts
         /\ <<old, type, new>> \in Machine
         /\ Current(row, old, jobs[w].room)
  <2>1. jobs[w].stage = "loaded" =>
          jobs[w].contract \in Contracts /\ Current(jobs[w].contract, jobs[w].state, jobs[w].room)
    BY JobShape DEF FreshInv, Fresh, LoadedJobs
  <2>. QED
    BY <1>1, <2>1 DEF Sound
<1>7. Fresh(w)'
  BY <1>3, <1>4, <1>6 DEF Fresh, Moves, Current, MovedElsewhere
<1>. QED
  BY <1>3, <1>4, <1>5, <1>7, FreshKept

\* The commit of another thread leaves what a thread holding a number read,
\* or moves the contract in another room.
LEMMA CurrentStays ==
  ASSUME TypeOK, OrderInv, FreshInv, NEW v \in Workers, Commit(v),
         NEW w \in Workers, v # w, NEW h \in Held(w),
         NEW c \in Contracts, NEW state, Current(c, state, h[1])
  PROVE  Current(c, state, h[1])'
<1>. DEFINE entry == jobs[v].entry
            L == Len(log)
<1>1. /\ jobs[v] \in WriteJobs /\ jobs[v].stage = "write"
      /\ L \in Nat /\ DOMAIN log = 1 .. L /\ DOMAIN log' = 1 .. L + 1
      /\ \A i \in 1 .. L : log'[i] = log[i]
      /\ log'[L + 1] = entry
      /\ database' = database
  <2>1. DOMAIN log' = 1 .. L + 1
    BY CommitShape, CommitType, FrameShape DEF TypeOK
  <2>. QED
    BY <2>1, CommitShape, FrameShape DEF Commit
<1>2. <<entry.room, entry.seq>> \in Held(v)
  BY <1>1 DEF Held
<1>3. entry.room # h[1]
  BY <1>2, RoomsApart
<1>4. database = "postgres"
  <2>1. database \in {"sqlite", "postgres"}
    BY UseAssumption DEF TypeOK
  <2>. QED
    BY <1>2, <2>1 DEF FreshInv, OneWriter
<1>5. CASE entry.about \in {Offer, c}
  BY <1>1, <1>3, <1>4, <1>5 DEF Current, MovedElsewhere
<1>6. CASE entry.about \notin {Offer, c}
  <2>1. cached'[c] = cached[c]
    <3>1. Moves(v)
      BY <1>1 DEF FreshInv, Fresh
    <3>. QED
      BY <1>6, <3>1 DEF Moves, Commit, TypeOK, Rows
  <2>2. MovedElsewhere(c, h[1]) => MovedElsewhere(c, h[1])'
    BY <1>1, <1>6 DEF MovedElsewhere
  <2>. QED
    BY <1>1, <2>1, <2>2 DEF Current
<1>. QED
  BY <1>5, <1>6

LEMMA CommitFresh ==
  ASSUME TypeOK, OrderInv, FreshInv, NEW v \in Workers, Commit(v)
  PROVE  FreshInv'
<1>1. /\ jobs'[v].stage = "idle" /\ database' = database
      /\ \A w \in Workers \ {v} : jobs'[w] = jobs[w]
  <2>1. database' = database
    BY DEF Commit
  <2>2. jobs'[v] = Idle /\ \A w \in Workers \ {v} : jobs'[w] = jobs[w]
    BY CommitShape
  <2>. QED
    BY <2>1, <2>2 DEF Idle
<1>2. /\ Held(v)' = {} /\ \A w \in Workers \ {v} : Held(w)' = Held(w)
  BY <1>1 DEF Held
<1>3. OneWriter'
  BY <1>1, <1>2 DEF FreshInv, OneWriter
<1>4. ASSUME NEW w \in Workers \ {v} PROVE Fresh(w)'
  <2>1. CASE jobs[w].stage = "loaded"
    <3>1. /\ jobs[w].contract \in Contracts
          /\ Current(jobs[w].contract, jobs[w].state, jobs[w].room)
      BY <2>1, JobShape DEF FreshInv, Fresh, LoadedJobs
    <3>2. <<jobs[w].room, jobs[w].seq>> \in Held(w)
      BY <2>1 DEF Held
    <3>. DEFINE h == <<jobs[w].room, jobs[w].seq>>
    <3>3. PICK c \in Contracts, state \in {jobs[w].state}, room \in {jobs[w].room} :
            c = jobs[w].contract
      BY <3>1
    <3>4. Current(c, state, room)'
      <4>1. h \in Held(w) /\ h[1] = room /\ Current(c, state, room)
        BY <3>1, <3>2, <3>3
      <4>2. PICK k \in Held(w) : k[1] = room
        BY <4>1
      <4>. QED
        BY <4>1, <4>2, CurrentStays DEF Current, MovedElsewhere
    <3>. QED
      BY <1>1, <2>1, <3>3, <3>4 DEF Fresh, Current, MovedElsewhere
  <2>2. CASE jobs[w].stage = "write"
    <3>1. Moves(w)
      BY <2>2 DEF FreshInv, Fresh
    <3>2. CASE /\ jobs[w].entry.type # "offer" /\ jobs[w].entry.about = jobs[w].row
               /\ jobs[w].row \in Contracts
               /\ <<jobs[w].old, jobs[w].entry.type, jobs[w].new>> \in Machine
               /\ Current(jobs[w].row, jobs[w].old, jobs[w].entry.room)
      <4>. DEFINE h == <<jobs[w].entry.room, jobs[w].entry.seq>>
      <4>1. h \in Held(w)
        BY <2>2 DEF Held
      <4>2. PICK c \in Contracts, state \in {jobs[w].old}, room \in {jobs[w].entry.room} :
              c = jobs[w].row
        BY <3>2
      <4>3. Current(c, state, room)'
        <5>1. h \in Held(w) /\ h[1] = room /\ Current(c, state, room)
          BY <3>2, <4>1, <4>2
        <5>2. PICK k \in Held(w) : k[1] = room
          BY <5>1
        <5>. QED
          BY <5>1, <5>2, CurrentStays DEF Current, MovedElsewhere
      <4>. QED
        BY <1>1, <2>2, <3>2, <4>2, <4>3 DEF Fresh, Moves, Current, MovedElsewhere
    <3>. QED
      BY <1>1, <2>2, <3>1, <3>2 DEF Fresh, Moves
  <2>3. CASE jobs[w].stage \notin {"loaded", "write"}
    BY <1>1, <2>3 DEF Fresh
  <2>. QED
    BY <2>1, <2>2, <2>3
<1>5. Fresh(v)'
  BY <1>1 DEF Fresh
<1>. QED
  BY <1>3, <1>4, <1>5 DEF FreshInv

LEMMA FreshSound == Spec => []FreshInv
<1>1. Init => FreshInv
  BY DEF Init, FreshInv, OneWriter, Fresh, Held, Idle
<1>2. TypeOK /\ OrderInv /\ FreshInv /\ [Next]_vars => FreshInv'
  <2>. SUFFICES ASSUME TypeOK, OrderInv, FreshInv, [Next]_vars PROVE FreshInv'
    OBVIOUS
  <2>1. ASSUME UNCHANGED <<database, log, cached, jobs>> PROVE FreshInv'
    BY <2>1 DEF FreshInv, OneWriter, Fresh, Held, Moves, Current, MovedElsewhere
  <2>2. CASE \E room \in Rooms : MakeRoom(room)
    BY <2>1, <2>2 DEF MakeRoom
  <2>3. CASE UNCHANGED vars
    BY <2>1, <2>3 DEF vars
  <2>. QED
    BY <2>2, <2>3, UnreadFresh, LoadFresh, DecidesFresh, CommitFresh DEF Next, Decides
<1>. QED
  BY <1>1, <1>2, TypeCorrect, OrderSound, PTL DEF Spec

(***************************************************************************)
(* A contract moves from the status it has, as the machine says, but for   *)
(* an offer or an acceptance posted again and, on Postgres, a frame of the *)
(* contract in another room, for any number of contracts and threads.      *)
(***************************************************************************)
THEOREM MovesAreByMachine == Spec => MovesByMachine
<1>. DEFINE Moved == \A c \in Contracts :
       cached'[c] # cached[c] =>
         \/ \E type \in FrameTypes \ {"offer"} : <<cached[c], type, cached'[c]>> \in Machine
         \/ cached'[c] = "accepted" /\ (cached[c] # "none" => Posted("accept", c))
         \/ cached'[c] = "proposed" /\ log'[Len(log')].type = "offer"
         \/ database = "postgres" /\ MovedElsewhere(c, log'[Len(log')].room)
<1>1. TypeOK /\ BackedInv /\ FreshInv /\ [Next]_vars => [Moved]_cached
  <2>. SUFFICES ASSUME TypeOK, BackedInv, FreshInv, [Next]_vars, NEW c \in Contracts,
                       cached'[c] # cached[c]
                PROVE  \/ \E type \in FrameTypes \ {"offer"} :
                            <<cached[c], type, cached'[c]>> \in Machine
                       \/ cached'[c] = "accepted" /\ (cached[c] # "none" => Posted("accept", c))
                       \/ cached'[c] = "proposed" /\ log'[Len(log')].type = "offer"
                       \/ database = "postgres" /\ MovedElsewhere(c, log'[Len(log')].room)
    OBVIOUS
  <2>1. PICK w \in Workers : Commit(w)
    BY DEF Next, vars, Begin, Flush, KeepFrame, PostOffer, PostAccept, Load, PostStep, Decide,
           Drop, MakeRoom
  <2>2. /\ jobs[w] \in WriteJobs /\ log'[Len(log')] = jobs[w].entry /\ Moves(w)
    BY <2>1, CommitShape DEF FreshInv, Fresh, WriteJobs
  <2>3. jobs[w].new # jobs[w].old /\ jobs[w].row = c /\ cached'[c] = jobs[w].new
    BY <2>1 DEF Commit, TypeOK
  <2>4. cached[c] # "none" => Posted("accept", c)
    <3>1. cached[c] # "none" => AcceptedBy(c, Len(log))
      BY StatusAccepted DEF BackedInv, StatusBacked, TypeOK, Rows
    <3>. QED
      BY <3>1, FrameShape DEF AcceptedBy, Posted
  <2>5. jobs[w].entry.type \in FrameTypes
    BY <2>2 DEF WriteJobs, Entry
  <2>. QED
    BY <2>2, <2>3, <2>4, <2>5 DEF Moves, Current
<1>. QED
  BY <1>1, TypeCorrect, BackedSound, FreshSound, PTL DEF Spec, MovesByMachine

-----------------------------------------------------------------------------
(* Posting is atomic *)

Unstarted == \A row \in Rows : cached[row] = "none"

\* What a thread's commit will do, if anything: rooms and row of its frame.
Plan(w) ==
  LET job == jobs[w] IN
  /\ job.entry.type = "offer" <=> job.entry.about = Offer
  /\ \/ job.old = job.new /\ job.opens \subseteq {Offer}
     \/ /\ job.entry.type = "offer" /\ job.new = "proposed" /\ job.opens \subseteq {Offer}
        /\ job.row = Offer \/ cached[job.row] # "none"
        /\ database = "sqlite" /\ job.row = Offer /\ cached[Offer] = "none" => Unstarted
     \/ /\ job.entry.type = "accept" /\ job.row \in Contracts /\ job.row = job.entry.about
        /\ job.old # job.new /\ job.new = "accepted" /\ job.opens \subseteq {Offer, job.row}
        /\ job.row \in rooms \cup job.opens
        /\ Posted("offer", Offer)
     \/ /\ job.entry.type \notin {"offer", "accept"} /\ job.row = job.entry.about
        /\ cached[job.row] # "none"
        /\ <<job.old, job.entry.type, job.new>> \in Machine /\ job.opens \subseteq {Offer}

\* The frame under way has a room to go to, or makes it.
Housed(w) ==
  /\ jobs[w].stage # "idle" => Offer \in rooms \cup jobs[w].opens
  /\ jobs[w].stage \in {"begun", "flushed", "loaded"} =>
       jobs[w].room \in rooms \cup {Offer} /\ jobs[w].opens \subseteq {Offer}
  /\ jobs[w].stage = "loaded" => cached[jobs[w].contract] # "none"
  /\ jobs[w].stage = "write" => jobs[w].entry.room \in rooms \cup {Offer} /\ Plan(w)

(***************************************************************************)
(* A contract that has a status has its deal room (ensure_deal_room runs   *)
(* in the transaction of the acceptance).                                  *)
(***************************************************************************)
DealRoomOpen == \A c \in Contracts : cached[c] # "none" => c \in rooms

PlanInv == DealRoomOpen /\ \A w \in Workers : Housed(w)

\* Steps that commit nothing: rooms may be made.
LEMMA PlanKept ==
  ASSUME TypeOK, PlanInv, NEW w \in Workers, UNCHANGED <<database, log, cached>>,
         rooms \subseteq rooms', \A v \in Workers \ {w} : jobs'[v] = jobs[v], Housed(w)'
  PROVE  PlanInv'
<1>1. DealRoomOpen'
  BY DEF PlanInv, DealRoomOpen
<1>2. ASSUME NEW v \in Workers \ {w} PROVE Housed(v)'
  <2>1. Housed(v) /\ jobs'[v] = jobs[v]
    BY DEF PlanInv
  <2>2. jobs[v].stage = "write" => Plan(v)'
    <3>1. ASSUME Plan(v) PROVE Plan(v)'
      BY <2>1, <3>1 DEF Plan, Posted, Unstarted
    <3>. QED
      BY <2>1, <3>1 DEF Housed
  <2>. QED
    BY <2>1, <2>2 DEF Housed
<1>. QED
  BY <1>1, <1>2 DEF PlanInv

LEMMA UnreadPlan ==
  ASSUME TypeOK, PlanInv, NEW w \in Workers,
         (\E room \in Rooms : Begin(w, room)) \/ Flush(w) \/ Drop(w)
  PROVE  PlanInv'
<1>1. UNCHANGED <<database, log, cached, rooms>> /\ \A v \in Workers \ {w} : jobs'[v] = jobs[v]
  BY DEF Begin, Flush, Drop, TypeOK
<1>2. CASE \E room \in Rooms : Begin(w, room)
  <2>1. PICK room \in Rooms : Begin(w, room)
    BY <1>2
  <2>2. PICK n \in 0 .. Len(log) + 1 :
          jobs' = [jobs EXCEPT ![w] =
            [stage |-> "begun", room |-> room, seq |-> n, opens |-> {Offer} \ rooms]]
    BY <2>1 DEF Begin
  <2>3. /\ jobs'[w].stage = "begun" /\ jobs'[w].room = room /\ room \in rooms \cup {Offer}
        /\ jobs'[w].opens = {Offer} \ rooms
    BY <2>1, <2>2 DEF Begin, TypeOK
  <2>4. Housed(w)'
    BY <1>1, <2>3 DEF Housed
  <2>. QED
    BY <1>1, <2>4, PlanKept
<1>3. CASE Flush(w)
  <2>1. jobs[w] \in PostingJobs /\ jobs[w].stage = "begun"
    BY <1>3, JobShape DEF Flush
  <2>2. /\ jobs'[w].stage = "flushed" /\ jobs'[w].room = jobs[w].room
        /\ jobs'[w].opens = jobs[w].opens
    BY <1>3, <2>1 DEF Flush, TypeOK, PostingJobs
  <2>3. Housed(w)'
    BY <1>1, <2>1, <2>2 DEF PlanInv, Housed
  <2>. QED
    BY <1>1, <2>3, PlanKept
<1>4. CASE Drop(w)
  <2>1. jobs'[w].stage = "idle"
    BY <1>4 DEF Drop, TypeOK, Idle
  <2>2. Housed(w)'
    BY <2>1 DEF Housed
  <2>. QED
    BY <1>1, <2>2, PlanKept
<1>. QED
  BY <1>2, <1>3, <1>4

LEMMA LoadPlan ==
  ASSUME TypeOK, PlanInv, NEW w \in Workers, NEW c \in Contracts, Load(w, c)
  PROVE  PlanInv'
<1>1. /\ UNCHANGED <<database, log, cached, rooms>> /\ \A v \in Workers \ {w} : jobs'[v] = jobs[v]
      /\ jobs[w].stage = "flushed" /\ jobs'[w].stage = "loaded"
      /\ jobs'[w].room = jobs[w].room /\ jobs'[w].opens = jobs[w].opens
      /\ jobs'[w].contract = c /\ cached[c] # "none"
  BY DEF Load, TypeOK
<1>2. Housed(w)'
  BY <1>1 DEF PlanInv, Housed
<1>. QED
  BY <1>1, <1>2, PlanKept

\* What a decision plans, given what the thread had.
LEMMA DecisionHoused ==
  ASSUME TypeOK, PlanInv, NEW w \in Workers, jobs[w].stage \in {"flushed", "loaded"},
         NEW type \in FrameTypes, NEW about \in Rows, NEW row \in Rows,
         NEW old \in Statuses \cup {"none"}, NEW new \in Statuses \cup {"none"},
         NEW opens \in SUBSET Rooms,
         Decide(w, type, about, row, old, new, opens),
         type = "offer" <=> about = Offer,
         \/ old = new /\ opens = {}
         \/ /\ type = "offer" /\ new = "proposed" /\ opens = {}
            /\ row = Offer \/ cached[row] # "none"
            /\ row = Offer /\ cached[Offer] = "none" => Unstarted
         \/ /\ type = "accept" /\ row \in Contracts /\ row = about
            /\ old = cached[row] /\ new = "accepted"
            /\ opens = {row} \ rooms /\ Posted("offer", Offer)
         \/ /\ type \notin {"offer", "accept"} /\ row = about /\ cached[row] # "none"
            /\ <<old, type, new>> \in Machine /\ opens = {}
  PROVE  PlanInv'
<1>1. /\ UNCHANGED <<database, rooms, log, cached>>
      /\ \A v \in Workers \ {w} : jobs'[v] = jobs[v]
      /\ jobs'[w].stage = "write" /\ jobs'[w].row = row
      /\ jobs'[w].old = old /\ jobs'[w].new = new
      /\ jobs'[w].entry.type = type /\ jobs'[w].entry.about = about
      /\ jobs'[w].entry.room = jobs[w].room
      /\ jobs'[w].opens = jobs[w].opens \cup opens
  BY DecisionShape
<1>2. /\ Offer \in rooms \cup jobs[w].opens /\ jobs[w].room \in rooms \cup {Offer}
      /\ jobs[w].opens \subseteq {Offer}
  BY DEF PlanInv, Housed
<1>3. Posted("offer", Offer)' = Posted("offer", Offer) /\ Unstarted' = Unstarted
  BY <1>1 DEF Posted, Unstarted
<1>4. row \in Contracts /\ old = cached[row] /\ new = "accepted" /\ old = new => row \in rooms
  BY DEF PlanInv, DealRoomOpen
<1>5. Plan(w)'
  BY <1>1, <1>2, <1>3, <1>4 DEF Plan
<1>6. Housed(w)'
  BY <1>1, <1>2, <1>5 DEF Housed
<1>. QED
  BY <1>1, <1>6, PlanKept

LEMMA DecidesPlan ==
  ASSUME TypeOK, PlanInv, NEW w \in Workers, Decides(w)
  PROVE  PlanInv'
<1>1. \A row \in Rows : cached[row] \in Statuses \cup {"none"}
  BY DEF TypeOK
<1>2. {} \in SUBSET Rooms /\ Offer \in Rows /\ Contracts \subseteq Rows
  BY DEF Rows
<1>3. {"offer", "accept"} \subseteq FrameTypes /\ {"proposed", "accepted"} \subseteq Statuses
  BY DEF FrameTypes, Statuses
<1>4. CASE \E type \in FrameTypes, about \in Rows : KeepFrame(w, type, about)
  <2>1. PICK type \in FrameTypes, about \in Rows : KeepFrame(w, type, about)
    BY <1>4
  <2>. QED
    BY <1>2, <2>1, DecisionHoused DEF KeepFrame
<1>5. CASE PostOffer(w)
  <2>1. PICK row \in IF OfferRows = {} THEN {Offer} ELSE OfferRows :
          Decide(w, "offer", Offer, row, cached[row], "proposed", {})
    BY <1>5 DEF PostOffer
  <2>2. row \in Rows /\ (row = Offer \/ cached[row] # "none")
    BY <1>2, <2>1 DEF OfferRows
  <2>3. row = Offer /\ cached[Offer] = "none" => Unstarted
    BY <1>2, <2>1 DEF OfferRows, Unstarted
  <2>. QED
    BY <1>1, <1>2, <1>3, <1>5, <2>1, <2>2, <2>3, DecisionHoused DEF PostOffer
<1>6. CASE \E c \in Contracts : PostAccept(w, c)
  <2>1. PICK c \in Contracts : PostAccept(w, c)
    BY <1>6
  <2>2. c \in Rows /\ c # Offer /\ {c} \ rooms \in SUBSET Rooms
    BY <1>2, OfferAssumption DEF Rooms
  <2>. QED
    BY <1>1, <1>3, <1>2, <2>1, <2>2, DecisionHoused DEF PostAccept
<1>7. CASE \E type \in FrameTypes, new \in Statuses : PostStep(w, type, new)
  <2>1. PICK type \in FrameTypes, new \in Statuses : PostStep(w, type, new)
    BY <1>7
  <2>2. jobs[w].stage = "loaded" /\ jobs[w].contract \in Contracts /\ jobs[w].state \in Statuses
    BY <2>1, JobShape DEF PostStep, LoadedJobs
  <2>3. jobs[w].contract # Offer /\ cached[jobs[w].contract] # "none" /\ jobs[w].contract \in Rows
    BY <1>2, <2>2, OfferAssumption DEF PlanInv, Housed
  <2>. QED
    BY <1>2, <2>1, <2>2, <2>3, DecisionHoused DEF PostStep
<1>. QED
  BY <1>4, <1>5, <1>6, <1>7 DEF Decides

\* A row that has a status keeps one.
LEMMA CommitKeepsRows ==
  ASSUME TypeOK, PlanInv, NEW v \in Workers, Commit(v)
  PROVE  \A row \in Rows : cached[row] # "none" => cached'[row] # "none"
<1>1. Plan(v)
  BY DEF PlanInv, Housed, Commit
<1>2. jobs[v].new # jobs[v].old => jobs[v].new # "none"
  BY <1>1 DEF Plan, Machine
<1>3. jobs[v] \in WriteJobs
  BY JobShape DEF Commit
<1>. QED
  BY <1>2, <1>3 DEF Commit, TypeOK

LEMMA CommitPlan ==
  ASSUME TypeOK, FreshInv, PlanInv, NEW v \in Workers, Commit(v)
  PROVE  PlanInv'
<1>1. /\ jobs[v] \in WriteJobs /\ jobs[v].stage = "write" /\ Plan(v)
      /\ rooms' = rooms \cup jobs[v].opens /\ database' = database
  BY JobShape DEF PlanInv, Housed, Commit
<1>2. jobs'[v].stage = "idle" /\ \A w \in Workers \ {v} : jobs'[w] = jobs[w]
  BY CommitShape DEF Idle
<1>3. DealRoomOpen'
  <2>. SUFFICES ASSUME NEW c \in Contracts, cached'[c] # "none" PROVE c \in rooms'
    BY DEF DealRoomOpen
  <2>1. CASE cached[c] # "none"
    BY <1>1, <2>1 DEF PlanInv, DealRoomOpen
  <2>2. CASE cached[c] = "none"
    <3>1. jobs[v].row = c /\ jobs[v].new # jobs[v].old
      BY <2>2 DEF Commit, TypeOK, Rows
    <3>2. c # Offer
      BY OfferAssumption
    <3>. QED
      BY <1>1, <2>2, <3>1, <3>2 DEF Plan
  <2>. QED
    BY <2>1, <2>2
<1>4. Posted("offer", Offer) => Posted("offer", Offer)'
  BY CommitShape, CommitType, FrameShape DEF Posted
<1>5. ASSUME NEW w \in Workers \ {v} PROVE Housed(w)'
  <2>1. Housed(w) /\ jobs'[w] = jobs[w]
    BY <1>2 DEF PlanInv
  <2>2. \A row \in Rows : cached[row] # "none" => cached'[row] # "none"
    BY CommitKeepsRows
  <2>3. CASE jobs[w].stage = "write"
    <3>1. jobs[w] \in WriteJobs /\ jobs[w].row \in Rows
      BY <2>3, JobShape DEF WriteJobs
    <3>2. database # "sqlite"
      <4>1. Held(v) # {} /\ Held(w) # {}
        BY <1>1, <2>3 DEF Held
      <4>. QED
        BY <4>1 DEF FreshInv, OneWriter
    <3>3. Plan(w)
      BY <2>1, <2>3 DEF Housed
    <3>4. Plan(w)'
      BY <1>1, <1>4, <2>1, <2>2, <3>1, <3>2, <3>3 DEF Plan
    <3>. QED
      BY <1>1, <2>1, <2>3, <3>4 DEF Housed
  <2>4. CASE jobs[w].stage = "loaded"
    <3>1. jobs[w].contract \in Rows
      BY <2>4, JobShape DEF LoadedJobs, Rows
    <3>. QED
      BY <1>1, <2>1, <2>2, <2>4, <3>1 DEF Housed
  <2>5. CASE jobs[w].stage \notin {"loaded", "write"}
    BY <1>1, <2>1, <2>5 DEF Housed
  <2>. QED
    BY <2>3, <2>4, <2>5
<1>6. Housed(v)'
  BY <1>2 DEF Housed
<1>. QED
  BY <1>3, <1>5, <1>6 DEF PlanInv

LEMMA PlanSound == Spec => []PlanInv
<1>1. Init => PlanInv
  BY DEF Init, PlanInv, DealRoomOpen, Housed, Idle, Rows
<1>2. TypeOK /\ FreshInv /\ PlanInv /\ [Next]_vars => PlanInv'
  <2>. SUFFICES ASSUME TypeOK, FreshInv, PlanInv, [Next]_vars PROVE PlanInv'
    OBVIOUS
  <2>1. ASSUME UNCHANGED <<database, log, cached, jobs>>, rooms \subseteq rooms' PROVE PlanInv'
    <3>1. DealRoomOpen'
      BY <2>1 DEF PlanInv, DealRoomOpen
    <3>2. ASSUME NEW w \in Workers PROVE Housed(w)'
      <4>1. Plan(w) => Plan(w)'
        BY <2>1 DEF Plan, Posted, Unstarted
      <4>. QED
        BY <2>1, <4>1 DEF PlanInv, Housed
    <3>. QED
      BY <3>1, <3>2 DEF PlanInv
  <2>2. CASE \E room \in Rooms : MakeRoom(room)
    BY <2>1, <2>2 DEF MakeRoom
  <2>3. CASE UNCHANGED vars
    BY <2>1, <2>3 DEF vars
  <2>. QED
    BY <2>2, <2>3, UnreadPlan, LoadPlan, DecidesPlan, CommitPlan DEF Next, Decides
<1>. QED
  BY <1>1, <1>2, TypeCorrect, FreshSound, PTL DEF Spec

(***************************************************************************)
(* A contract that has a status has its deal room, for any number of       *)
(* contracts and threads: the acceptance that gives the first status makes *)
(* the room in the same transaction (ensure_deal_room), and no session     *)
(* takes either away.                                                      *)
(***************************************************************************)
THEOREM DealRoomsOpen == Spec => []DealRoomOpen
BY PlanSound, PTL DEF PlanInv

\* The frame of a commit is posted as TclkLedger posts it.
LEMMA CommitFrame ==
  ASSUME TypeOK, OrderInv, PlanInv, NEW w \in Workers, Commit(w)
  PROVE  /\ Ledger!Frame(jobs[w].entry.room, jobs[w].entry.type, jobs[w].entry.about)
         /\ jobs[w].entry.room \in Ledger!Named /\ jobs[w].entry.about \in Ledger!Named
         /\ jobs[w].entry.type \in FrameTypes
<1>. DEFINE entry == jobs[w].entry
<1>1. jobs[w] \in WriteJobs /\ jobs[w].stage = "write"
  BY JobShape DEF Commit
<1>2. entry \in Entry
  BY <1>1 DEF WriteJobs
<1>3. /\ entry.room \in rooms \cup {Offer}
      /\ entry.type = "offer" <=> entry.about = Offer
  BY <1>1 DEF PlanInv, Housed, Plan
<1>4. Below(entry.room, entry.seq) /\ Above(entry.room, entry.seq)
  <2>1. <<entry.room, entry.seq>> \in Held(w)
    BY <1>1 DEF Held
  <2>2. \A h \in Held(w) : Below(h[1], h[2]) /\ Above(h[1], h[2])
    BY DEF OrderInv, Numbered
  <2>. QED
    BY <2>1, <2>2
<1>5. entry.seq \in Nat \ {0}
  BY <1>2 DEF Entry
<1>6. Ledger!IsNext(entry.room, entry.seq)
  BY <1>4, FrameShape DEF Below, Above, Ledger!IsNext
<1>7. entry.seq \in Ledger!Numbers
  <2>1. CASE entry.seq = 1
    BY <2>1 DEF Ledger!Numbers
  <2>2. CASE entry.seq # 1
    <3>1. entry.seq - 1 \in 1 .. entry.seq - 1
      BY <1>5, <2>2
    <3>2. PICK i \in 1 .. Len(log) : log[i].seq = entry.seq - 1
      BY <1>4, <3>1 DEF Below
    <3>3. i \in DOMAIN log /\ entry.seq = log[i].seq + 1
      BY <1>5, <3>2, FrameShape
    <3>. QED
      BY <3>3 DEF Ledger!Numbers
  <2>. QED
    BY <2>1, <2>2
<1>8. entry = [room |-> entry.room, seq |-> entry.seq, type |-> entry.type, about |-> entry.about]
  BY <1>2 DEF Entry
<1>9. log' = Append(log, entry) /\ database' = database
  BY DEF Commit
<1>10. Ledger!Frame(entry.room, entry.type, entry.about)
  <2>. HIDE DEF entry
  <2>. QED
    BY <1>3, <1>6, <1>7, <1>8, <1>9 DEF Ledger!Frame
<1>11. entry.room \in Ledger!Named /\ entry.about \in Ledger!Named /\ entry.type \in FrameTypes
  BY <1>2 DEF Entry, Ledger!Named, Rooms, Rows
<1>. QED
  BY <1>10, <1>11

\* And its effect is one of TclkLedger's.
LEMMA CommitEffect ==
  ASSUME TypeOK, FreshInv, PlanInv, NEW w \in Workers, Commit(w)
  PROVE  LET type == jobs[w].entry.type
             about == jobs[w].entry.about
         IN \/ Ledger!Keep
            \/ type = "offer" /\ \E row \in Ledger!Named : Ledger!Open(row)
            \/ type = "accept" /\ Ledger!Accept(about)
            \/ type \notin {"offer", "accept"}
                 /\ Ledger!Advance(jobs[w].entry.room, type, about)
<1>. DEFINE job == jobs[w]
            entry == job.entry
<1>1. /\ job \in WriteJobs /\ Plan(w) /\ Moves(w) /\ Offer \in rooms \cup job.opens
      /\ rooms' = rooms \cup job.opens
      /\ cached' = IF job.new # job.old THEN [cached EXCEPT ![job.row] = job.new] ELSE cached
  BY JobShape DEF Commit, PlanInv, FreshInv, Housed, Fresh
<1>2. job.opens \subseteq {Offer} => rooms' = rooms \cup {Offer}
  BY <1>1
<1>3. CASE job.old = job.new /\ job.opens \subseteq {Offer}
  BY <1>1, <1>2, <1>3 DEF Ledger!Keep
<1>4. CASE /\ entry.type = "offer" /\ job.old # job.new /\ job.new = "proposed"
           /\ job.opens \subseteq {Offer}
           /\ job.row = Offer \/ cached[job.row] # "none"
           /\ database = "sqlite" /\ job.row = Offer /\ cached[Offer] = "none" => Unstarted
  <2>1. job.row \in Ledger!Named
    BY <1>1 DEF WriteJobs, Rows, Ledger!Named
  <2>2. cached' = [cached EXCEPT ![job.row] = "proposed"]
    BY <1>1, <1>4
  <2>3. database = "sqlite" /\ job.row = Offer /\ cached[job.row] = "none" =>
          \A other \in Ledger!Named : cached[other] = "none"
    BY <1>4 DEF Unstarted, Ledger!Named, Rows
  <2>4. Ledger!Open(job.row)
    <3>. HIDE DEF job
    <3>. QED
      BY <1>2, <1>4, <2>2, <2>3 DEF Ledger!Open
  <2>. QED
    BY <1>4, <2>1, <2>4
<1>5. CASE /\ entry.type = "accept" /\ job.row \in Contracts /\ job.row = entry.about
           /\ job.old # job.new /\ job.new = "accepted" /\ job.opens \subseteq {Offer, job.row}
           /\ job.row \in rooms \cup job.opens
           /\ Posted("offer", Offer)
  <2>1. rooms' = rooms \cup {Offer, entry.about}
    BY <1>1, <1>5
  <2>. QED
    BY <1>1, <1>5, <2>1 DEF Ledger!Accept, Posted
<1>6. CASE /\ entry.type \notin {"offer", "accept"} /\ job.row = entry.about
           /\ cached[job.row] # "none"
           /\ <<job.old, entry.type, job.new>> \in Machine /\ job.opens \subseteq {Offer}
  <2>1. job.old # job.new
    BY <1>6 DEF Machine
  <2>2. Current(job.row, job.old, entry.room)
    BY <1>1, <1>6, <2>1 DEF Moves
  <2>3. job.old = cached[entry.about] \/
          (~(database = "sqlite") /\ Ledger!MovedElsewhere(entry.about, entry.room))
    BY <1>6, <2>2 DEF Current, MovedElsewhere, Ledger!MovedElsewhere
  <2>4. cached' = [cached EXCEPT ![entry.about] = job.new] /\ cached[entry.about] # "none"
    BY <1>1, <1>6, <2>1
  <2>5. PICK step \in Machine : step = <<job.old, entry.type, job.new>>
    BY <1>6
  <2>6. step[1] = job.old /\ step[2] = entry.type /\ step[3] = job.new
    BY <2>5
  <2>7. Ledger!Advance(entry.room, entry.type, entry.about)
    <3>. HIDE DEF job, entry
    <3>. QED
      BY <1>2, <1>6, <2>3, <2>4, <2>6 DEF Ledger!Advance
  <2>. QED
    BY <1>6, <2>7
<1>. QED
  BY <1>1, <1>3, <1>4, <1>5, <1>6 DEF Plan

(***************************************************************************)
(* Posting is atomic to whoever reads: every commit is one step of         *)
(* TclkLedger, and every other step shows nothing, or a room that is made  *)
(* (post_frame, _advance_protocol, uq_tclk_room_seq), for any number of    *)
(* contracts, threads and frames, on both databases.                       *)
(***************************************************************************)
THEOREM RoomsImplementLedger == Spec => ImplementsLedger
<1>1. Init => Ledger!Init
  BY DEF Init, Ledger!Init, Rows, Ledger!Named
<1>2. TypeOK /\ OrderInv /\ FreshInv /\ PlanInv /\ [Next]_vars => [Ledger!Next]_(Ledger!vars)
  <2>. SUFFICES ASSUME TypeOK, OrderInv, FreshInv, PlanInv, [Next]_vars
                PROVE  [Ledger!Next]_(Ledger!vars)
    OBVIOUS
  <2>1. ASSUME UNCHANGED <<database, rooms, log, cached>> PROVE UNCHANGED Ledger!vars
    BY <2>1 DEF Ledger!vars
  <2>2. ASSUME NEW w \in Workers, Commit(w) PROVE Ledger!Next
    BY <2>2, CommitFrame, CommitEffect DEF Ledger!Next
  <2>3. ASSUME NEW room \in Rooms, MakeRoom(room) PROVE Ledger!Next
    BY <2>3 DEF MakeRoom, Ledger!Next, Ledger!MakeRoom, Ledger!Named, Rooms
  <2>4. CASE \E w \in Workers : ((\E room \in Rooms : Begin(w, room)) \/ Flush(w) \/ Drop(w))
    BY <2>1, <2>4 DEF Begin, Flush, Drop
  <2>5. CASE \E w \in Workers : \E c \in Contracts : PostAccept(w, c) \/ Load(w, c)
    BY <2>1, <2>5 DEF PostAccept, Load, Decide
  <2>6. CASE \E w \in Workers : \E type \in FrameTypes :
               \/ \E about \in Rows : KeepFrame(w, type, about)
               \/ \E new \in Statuses : PostStep(w, type, new)
    BY <2>1, <2>6 DEF KeepFrame, PostStep, Decide
  <2>7. CASE \E w \in Workers : PostOffer(w)
    BY <2>1, <2>7 DEF PostOffer, Decide
  <2>8. CASE UNCHANGED vars
    BY <2>1, <2>8 DEF vars
  <2>. QED
    BY <2>2, <2>3, <2>4, <2>5, <2>6, <2>7, <2>8 DEF Next
<1>. QED
  BY <1>1, <1>2, TypeCorrect, OrderSound, FreshSound, PlanSound, PTL
     DEF Spec, ImplementsLedger, Ledger!Spec
=============================================================================
