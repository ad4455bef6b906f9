------------------------- MODULE RateLimiter_proof -------------------------
(***************************************************************************)
(* The limit of RateLimiter, and that nobody is refused below it, for any  *)
(* number of clients, any limit, window and set-back of the clock.         *)
(***************************************************************************)
EXTENDS RateLimiter, SequenceTheorems, FiniteSetTheorems, TLAPS

(***************************************************************************)
(* The deque of a client is the tail of its history, with clock readings   *)
(* for real times: the clock has been set back since by no less than when  *)
(* a request came, so a reading is never too old for its request.  And the *)
(* requests that were popped are older than the window.                    *)
(***************************************************************************)
DequeFollows(c) ==
  LET popped == Len(served[c]) - Len(hits[c]) IN
  /\ popped >= 0
  /\ \A i \in DOMAIN hits[c] : hits[c][i] + behind >= served[c][popped + i]
  /\ \A i \in 1 .. popped : now - served[c][i] > Window

Limited(c) ==
  \A i \in DOMAIN served[c] :
    i > per_minute => served[c][i] - served[c][i - per_minute] > Window

LimitInv == TypeOK /\ \A c \in Clients : DequeFollows(c) /\ Limited(c)

LEMMA PrunedProperties ==
  ASSUME NEW w \in Seq(Int), NEW cutoff \in Int, NEW r \in Pruned(w, cutoff)
  PROVE  \E n \in 0 .. Len(w) :
           /\ r \in Seq(Int) /\ Len(r) = Len(w) - n
           /\ \A i \in 1 .. Len(r) : r[i] = w[n + i]
           /\ \A j \in 1 .. n : w[j] < cutoff
<1>1. PICK n \in 0 .. Len(w) :
             r = SubSeq(w, n + 1, Len(w)) /\ \A j \in 1 .. n : w[j] < cutoff
  BY DEF Pruned
<1>2. Len(w) \in Nat /\ \A i \in n + 1 .. Len(w) : w[i] \in Int
  BY <1>1
<1>3. /\ r \in Seq(Int)
      /\ Len(r) = IF n + 1 <= Len(w) THEN Len(w) - (n + 1) + 1 ELSE 0
      /\ \A i \in 1 .. Len(w) - (n + 1) + 1 : r[i] = w[(n + 1) + i - 1]
  BY <1>1, <1>2, SubSeqProperties
<1>4. Len(r) = Len(w) - n
  BY <1>1, <1>2, <1>3
<1>5. \A i \in 1 .. Len(r) : r[i] = w[n + i]
  BY <1>1, <1>2, <1>3, <1>4
<1>. QED
  BY <1>1, <1>3, <1>4, <1>5

LEMMA HistoryTyped ==
  ASSUME TypeOK, NEW c \in Clients
  PROVE  /\ hits[c] \in Seq(Int) /\ Len(hits[c]) \in Nat /\ DOMAIN hits[c] = 1 .. Len(hits[c])
         /\ served[c] \in Seq(Int) /\ Len(served[c]) \in Nat
         /\ DOMAIN served[c] = 1 .. Len(served[c])
         /\ \A i \in DOMAIN hits[c] : hits[c][i] \in Int
         /\ \A i \in DOMAIN served[c] : served[c][i] \in Int
         /\ now \in Int /\ behind \in Int /\ clock \in Int
         /\ Window \in Int /\ per_minute \in Int
BY LimiterAssumption DEF TypeOK, clock

\* The deque that dispatch() finds after pruning still follows the history.
LEMMA PrunedFollows ==
  ASSUME TypeOK, NEW c \in Clients, DequeFollows(c),
         NEW r \in Pruned(hits[c], clock - Window)
  PROVE  LET popped == Len(served[c]) - Len(r) IN
         /\ r \in Seq(Int) /\ Len(r) \in Nat /\ DOMAIN r = 1 .. Len(r)
         /\ popped >= 0
         /\ \A i \in 1 .. Len(r) : r[i] + behind >= served[c][popped + i]
         /\ \A i \in 1 .. popped : now - served[c][i] > Window
<1>. DEFINE h == hits[c]
            s == served[c]
            before == Len(s) - Len(h)
            popped == Len(s) - Len(r)
<1>1. PICK n \in 0 .. Len(h) :
           /\ r \in Seq(Int) /\ Len(r) = Len(h) - n
           /\ \A i \in 1 .. Len(r) : r[i] = h[n + i]
           /\ \A j \in 1 .. n : h[j] < clock - Window
  <2>1. h \in Seq(Int) /\ clock - Window \in Int
    BY HistoryTyped
  <2>. QED
    BY <2>1, PrunedProperties
<1>2. /\ Len(h) \in Nat /\ Len(s) \in Nat /\ n \in Nat /\ Len(r) \in Nat
      /\ before \in Int /\ popped \in Int /\ before >= 0 /\ popped = before + n
      /\ before + Len(h) = Len(s)
  BY <1>1, HistoryTyped DEF DequeFollows
<1>3. /\ \A i \in 1 .. Len(h) : h[i] + behind >= s[before + i] /\ h[i] \in Int
      /\ \A i \in 1 .. before : now - s[i] > Window
      /\ \A i \in 1 .. Len(s) : s[i] \in Int
      /\ now \in Int /\ behind \in Int /\ Window \in Int /\ clock = now - behind
  BY HistoryTyped DEF DequeFollows, clock
<1>. HIDE DEF h, s, before, popped
<1>4. ASSUME NEW i \in 1 .. Len(r) PROVE r[i] + behind >= s[popped + i]
  <2>1. n + i \in 1 .. Len(h)
    BY <1>1, <1>2
  <2>2. before + (n + i) = popped + i
    BY <1>2
  <2>3. h[n + i] + behind >= s[before + (n + i)]
    BY <1>3, <2>1
  <2>. QED
    BY <1>1, <2>2, <2>3
<1>5. ASSUME NEW i \in 1 .. popped PROVE now - s[i] > Window
  <2>1. CASE i <= before
    BY <1>2, <1>3, <2>1
  <2>2. CASE i > before
    <3>1. /\ i - before \in 1 .. n /\ i - before \in 1 .. Len(h)
          /\ before + (i - before) = i /\ i \in 1 .. Len(s)
      BY <1>1, <1>2, <2>2
    <3>2. h[i - before] + behind >= s[i] /\ h[i - before] < clock - Window
      BY <1>1, <1>3, <3>1
    <3>3. h[i - before] \in Int /\ s[i] \in Int
      BY <1>3, <3>1
    <3>. QED
      BY <1>3, <3>2, <3>3
  <2>. QED
    BY <1>2, <2>1, <2>2
<1>6. DOMAIN r = 1 .. Len(r)
  BY <1>1
<1>7. popped >= 0
  BY <1>2
<1>. QED
  BY <1>1, <1>2, <1>4, <1>5, <1>6, <1>7 DEF s, popped

LEMMA LetThroughLimited ==
  ASSUME LimitInv, NEW c \in Clients, LetThrough(c)
  PROVE  TypeOK' /\ DequeFollows(c)' /\ Limited(c)'
<1>. DEFINE s == served[c]
            N == Len(s)
<1>1. TypeOK /\ DequeFollows(c) /\ Limited(c)
  BY DEF LimitInv
<1>2. PICK r \in Pruned(hits[c], clock - Window) :
        Len(r) < per_minute /\ hits' = [hits EXCEPT ![c] = Append(r, clock)]
  BY DEF LetThrough
<1>. DEFINE popped == N - Len(r)
<1>3. /\ r \in Seq(Int) /\ Len(r) \in Nat /\ DOMAIN r = 1 .. Len(r)
      /\ popped >= 0
      /\ \A i \in 1 .. Len(r) : r[i] + behind >= s[popped + i]
      /\ \A i \in 1 .. popped : now - s[i] > Window
  BY <1>1, <1>2, PrunedFollows
<1>4. s \in Seq(Int) /\ N \in Nat /\ now \in Int /\ clock \in Int /\ behind \in Int
  BY <1>1, HistoryTyped
<1>5. hits'[c] = Append(r, clock) /\ served'[c] = Append(s, now)
  BY <1>1, <1>2 DEF LetThrough, TypeOK
<1>6. /\ served'[c] \in Seq(Int) /\ Len(served'[c]) = N + 1
      /\ DOMAIN served'[c] = 1 .. N + 1
      /\ \A i \in 1 .. N : served'[c][i] = s[i]
      /\ served'[c][N + 1] = now
  BY <1>4, <1>5
<1>7. /\ hits'[c] \in Seq(Int) /\ Len(hits'[c]) = Len(r) + 1
      /\ DOMAIN hits'[c] = 1 .. Len(r) + 1
      /\ \A i \in 1 .. Len(r) : hits'[c][i] = r[i]
      /\ hits'[c][Len(r) + 1] = clock
  BY <1>3, <1>4, <1>5
<1>8. UNCHANGED <<now, behind>> /\ clock + behind = now
  BY <1>4, <1>1 DEF LetThrough, clock, TypeOK
<1>8a. popped \in Int /\ popped + Len(r) = N
  BY <1>3, <1>4
<1>9. Len(served'[c]) - Len(hits'[c]) = popped
  BY <1>3, <1>4, <1>6, <1>7
<1>10. TypeOK'
  <2>1. hits' \in [Clients -> Seq(Int)] /\ served' \in [Clients -> Seq(Int)]
    BY <1>1, <1>2, <1>5, <1>6, <1>7 DEF LetThrough, TypeOK
  <2>. QED
    BY <1>1, <2>1 DEF LetThrough, Answer, TypeOK
<1>11. DequeFollows(c)'
  <2>. HIDE DEF popped, N, s
  <2>1. ASSUME NEW i \in 1 .. Len(r) + 1
        PROVE  hits'[c][i] + behind >= served'[c][popped + i]
    <3>1. CASE i = Len(r) + 1
      <4>1. popped + i = N + 1
        BY <1>3, <1>4, <1>8a, <3>1
      <4>2. hits'[c][i] = clock /\ served'[c][popped + i] = now
        BY <1>6, <1>7, <3>1, <4>1
      <4>. QED
        BY <1>4, <1>8, <4>2
    <3>2. CASE i # Len(r) + 1
      <4>1. i \in 1 .. Len(r) /\ popped + i \in 1 .. N
        BY <1>3, <1>4, <1>8a, <3>2
      <4>. QED
        BY <1>3, <1>6, <1>7, <4>1
    <3>. QED
      BY <3>1, <3>2
  <2>2. ASSUME NEW i \in 1 .. popped PROVE now - served'[c][i] > Window
    <3>1. i \in 1 .. N
      BY <1>3, <1>4, <1>8a
    <3>. QED
      BY <1>3, <1>6, <3>1
  <2>. QED
    BY <1>3, <1>7, <1>8, <1>9, <2>1, <2>2 DEF DequeFollows, popped
<1>12. Limited(c)'
  <2>. SUFFICES ASSUME NEW i \in 1 .. N + 1, i > per_minute
                PROVE  served'[c][i] - served'[c][i - per_minute] > Window
    BY <1>6 DEF Limited
  <2>0. per_minute \in Nat \ {0}
    BY <1>2, <1>3, LimiterAssumption
  <2>1. i - per_minute \in 1 .. N
    BY <1>4, <2>0
  <2>2. CASE i \in 1 .. N
    <3>1. i \in DOMAIN s
      BY <1>4, <2>2
    <3>2. s[i] - s[i - per_minute] > Window
      BY <1>1, <3>1 DEF Limited
    <3>. QED
      BY <1>6, <2>1, <2>2, <3>2
  <2>3. CASE i = N + 1
    <3>. HIDE DEF popped, N, s
    <3>1. i - per_minute \in 1 .. popped
      BY <1>2, <1>3, <1>4, <1>8a, <2>0, <2>1, <2>3
    <3>. QED
      BY <1>3, <1>6, <2>1, <2>3, <3>1
  <2>. QED
    BY <1>4, <2>2, <2>3
<1>. QED
  BY <1>10, <1>11, <1>12

LEMMA InitLimited == Init => LimitInv
<1>1. <<>> \in Seq(Int) /\ Len(<<>>) = 0 /\ DOMAIN <<>> = {}
  BY EmptySeq
<1>2. Init => TypeOK
  BY <1>1 DEF Init, TypeOK, NoAnswer
<1>3. Init => \A c \in Clients : DequeFollows(c) /\ Limited(c)
  BY <1>1 DEF Init, DequeFollows, Limited
<1>. QED
  BY <1>2, <1>3 DEF LimitInv

LEMMA StepLimited == LimitInv /\ [Next]_vars => LimitInv'
<1>. SUFFICES ASSUME LimitInv, [Next]_vars PROVE LimitInv'
  OBVIOUS
<1>. USE DEF LimitInv
<1>1. CASE UNCHANGED <<now, behind, hits, served>> /\ TypeOK'
  BY <1>1 DEF DequeFollows, Limited
<1>2. ASSUME NEW c \in Clients, Refuse(c) PROVE LimitInv'
  <2>1. TypeOK'
    BY <1>2 DEF Refuse, Answer, TypeOK
  <2>. QED
    BY <1>1, <1>2, <2>1 DEF Refuse
<1>3. ASSUME NEW c \in Clients, LetThrough(c) PROVE LimitInv'
  <2>1. TypeOK' /\ DequeFollows(c)' /\ Limited(c)'
    BY <1>3, LetThroughLimited
  <2>2. ASSUME NEW d \in Clients, d # c PROVE DequeFollows(d)' /\ Limited(d)'
    <3>1. UNCHANGED <<now, behind, hits[d], served[d]>>
      BY <1>3, <2>2 DEF LetThrough, TypeOK
    <3>. QED
      BY <3>1 DEF DequeFollows, Limited
  <2>. QED
    BY <2>1, <2>2
<1>4. ASSUME NEW c \in Clients, Limit(c) PROVE LimitInv'
  <2>1. PICK r \in Pruned(hits[c], clock - Window) : hits' = [hits EXCEPT ![c] = r]
    BY <1>4 DEF Limit
  <2>2. LET popped == Len(served[c]) - Len(r) IN
        /\ r \in Seq(Int) /\ Len(r) \in Nat /\ DOMAIN r = 1 .. Len(r)
        /\ popped >= 0
        /\ \A i \in 1 .. Len(r) : r[i] + behind >= served[c][popped + i]
        /\ \A i \in 1 .. popped : now - served[c][i] > Window
    BY PrunedFollows
  <2>3. hits'[c] = r /\ UNCHANGED <<now, behind, served>>
    BY <1>4, <2>1 DEF Limit, TypeOK
  <2>4. TypeOK'
    BY <1>4, <2>1, <2>2 DEF Limit, Answer, TypeOK
  <2>5. DequeFollows(c)'
    BY <2>2, <2>3 DEF DequeFollows
  <2>6. ASSUME NEW d \in Clients, d # c PROVE DequeFollows(d)'
    <3>1. UNCHANGED <<now, behind, hits[d], served[d]>>
      BY <2>1, <2>3, <2>6 DEF TypeOK
    <3>. QED
      BY <3>1 DEF DequeFollows
  <2>7. \A d \in Clients : Limited(d)'
    BY <2>3 DEF Limited
  <2>. QED
    BY <2>4, <2>5, <2>6, <2>7
<1>5. CASE Tick
  <2>1. TypeOK'
    BY <1>5 DEF Tick, NoAnswer, TypeOK
  <2>2. ASSUME NEW c \in Clients PROVE DequeFollows(c)' /\ Limited(c)'
    <3>1. ASSUME NEW i \in 1 .. Len(served[c]) - Len(hits[c])
          PROVE  now' - served[c][i] > Window
      <4>1. now - served[c][i] > Window /\ now' = now + 1
        BY <1>5 DEF Tick, DequeFollows
      <4>2. i \in DOMAIN served[c]
        BY HistoryTyped
      <4>. QED
        BY <4>1, <4>2, HistoryTyped
    <3>. QED
      BY <1>5, <3>1 DEF Tick, DequeFollows, Limited
  <2>. QED
    BY <2>1, <2>2
<1>6. CASE SetBack
  <2>1. TypeOK'
    BY <1>6 DEF SetBack, NoAnswer, TypeOK
  <2>2. ASSUME NEW c \in Clients PROVE DequeFollows(c)' /\ Limited(c)'
    <3>1. ASSUME NEW i \in DOMAIN hits[c]
          PROVE  hits[c][i] + behind' >= served[c][Len(served[c]) - Len(hits[c]) + i]
      <4>. DEFINE k == Len(served[c]) - Len(hits[c]) + i
      <4>1. hits[c][i] + behind >= served[c][k] /\ behind' = behind + 1
        BY <1>6 DEF SetBack, DequeFollows
      <4>2. k \in DOMAIN served[c]
        <5>1. /\ Len(served[c]) \in Nat /\ Len(hits[c]) \in Nat /\ i \in 1 .. Len(hits[c])
              /\ DOMAIN served[c] = 1 .. Len(served[c])
          BY HistoryTyped
        <5>2. Len(served[c]) - Len(hits[c]) >= 0
          BY DEF DequeFollows
        <5>3. \A m, n \in Nat : \A x \in 1 .. n : m - n >= 0 => m - n + x \in 1 .. m
          OBVIOUS
        <5>4. k \in 1 .. Len(served[c])
          BY <5>1, <5>2, <5>3
        <5>. QED
          BY <5>1, <5>4
      <4>3. served[c][k] \in Int /\ hits[c][i] \in Int /\ behind \in Int
        BY <4>2, HistoryTyped
      <4>. HIDE DEF k
      <4>4. hits[c][i] + behind' >= served[c][k]
        BY <4>1, <4>3
      <4>. QED
        BY <4>4 DEF k
    <3>. QED
      BY <1>6, <3>1 DEF SetBack, DequeFollows, Limited
  <2>. QED
    BY <2>1, <2>2
<1>7. CASE Restart
  <2>1. <<>> \in Seq(Int) /\ Len(<<>>) = 0 /\ DOMAIN <<>> = {}
    BY EmptySeq
  <2>2. TypeOK'
    BY <1>7, <2>1 DEF Restart, NoAnswer, TypeOK
  <2>3. ASSUME NEW c \in Clients PROVE hits'[c] = <<>> /\ served'[c] = <<>>
    BY <1>7 DEF Restart
  <2>4. \A c \in Clients : DequeFollows(c)' /\ Limited(c)'
    BY <2>1, <2>3 DEF DequeFollows, Limited
  <2>. QED
    BY <2>2, <2>4
<1>8. CASE UNCHANGED vars
  BY <1>1, <1>8 DEF vars, TypeOK
<1>. QED
  BY <1>2, <1>3, <1>4, <1>5, <1>6, <1>7, <1>8 DEF Next

(***************************************************************************)
(* The limit holds in real time for every client, however the clock is set *)
(* back: of any per_minute + 1 requests let through in a row, the last is  *)
(* more than a window after the first.                                     *)
(***************************************************************************)
THEOREM LimitHolds == Spec => []WindowLimit
<1>1. LimitInv => WindowLimit
  BY DEF LimitInv, Limited, WindowLimit
<1>. QED
  BY InitLimited, StepLimited, <1>1, PTL DEF Spec

(***************************************************************************)
(* Type correctness: the deque of every client stays a sequence of clock   *)
(* readings, through every request, restart and set-back.                  *)
(***************************************************************************)
THEOREM TypeCorrect == Spec => []TypeOK
<1>1. LimitInv => TypeOK
  BY DEF LimitInv
<1>. QED
  BY InitLimited, StepLimited, <1>1, PTL DEF Spec

-----------------------------------------------------------------------------
(***************************************************************************)
(* The other direction.  A clock that is only ever set back reads no later *)
(* than real time, so a request whose reading is young is young; and the   *)
(* history is in order, so the requests after the oldest one kept are      *)
(* young too.                                                              *)
(***************************************************************************)
HistoryOrdered(c) ==
  /\ \A i, j \in DOMAIN served[c] : i <= j => served[c][i] <= served[c][j]
  /\ \A i \in DOMAIN served[c] : served[c][i] <= now
  /\ \A i \in DOMAIN hits[c] : hits[c][i] <= served[c][Len(served[c]) - Len(hits[c]) + i]

RefusedInv == LimitInv /\ (\A c \in Clients : HistoryOrdered(c)) /\ RefusedWhenFull

Young(c) == {i \in DOMAIN served[c] : now - served[c][i] <= Window + behind}

\* Pruning keeps the readings in step with the history, and stops at a young one.
LEMMA PrunedOrdered ==
  ASSUME LimitInv, NEW c \in Clients, HistoryOrdered(c),
         NEW r \in Pruned(hits[c], clock - Window)
  PROVE  LET popped == Len(served[c]) - Len(r) IN
         /\ Len(r) \in Nat
         /\ popped \in Nat
         /\ \A i \in 1 .. Len(r) : r[i] <= served[c][popped + i] /\ r[i] \in Int
         /\ Len(r) > 0 => r[1] >= clock - Window
<1>. DEFINE h == hits[c]
            s == served[c]
            before == Len(s) - Len(h)
            popped == Len(s) - Len(r)
<1>1. /\ h \in Seq(Int) /\ Len(h) \in Nat /\ Len(s) \in Nat
      /\ \A i \in 1 .. Len(h) : h[i] \in Int /\ h[i] <= s[before + i]
      /\ before >= 0
      /\ clock - Window \in Int
  <2>1. TypeOK /\ DequeFollows(c)
    BY DEF LimitInv
  <2>2. before >= 0 /\ \A i \in DOMAIN h : h[i] <= s[before + i]
    BY <2>1 DEF DequeFollows, HistoryOrdered
  <2>3. /\ h \in Seq(Int) /\ Len(h) \in Nat /\ Len(s) \in Nat /\ DOMAIN h = 1 .. Len(h)
        /\ (\A i \in DOMAIN h : h[i] \in Int) /\ clock \in Int /\ Window \in Int
    BY <2>1, HistoryTyped
  <2>4. clock - Window \in Int
    BY <2>3
  <2>. HIDE DEF before, h, s
  <2>5. \A i \in 1 .. Len(h) : h[i] \in Int /\ h[i] <= s[before + i]
    BY <2>2, <2>3
  <2>. QED
    BY <2>2, <2>3, <2>4, <2>5
<1>2. PICK n \in 0 .. Len(h) :
             /\ r = SubSeq(h, n + 1, Len(h))
             /\ n < Len(h) => h[n + 1] >= clock - Window
  BY DEF Pruned
<1>3. /\ r \in Seq(Int)
      /\ Len(r) = IF n + 1 <= Len(h) THEN Len(h) - (n + 1) + 1 ELSE 0
      /\ \A i \in 1 .. Len(h) - (n + 1) + 1 : r[i] = h[(n + 1) + i - 1]
  <2>1. \A i \in n + 1 .. Len(h) : h[i] \in Int
    BY <1>1, <1>2
  <2>. QED
    BY <1>1, <1>2, <2>1, SubSeqProperties
<1>4. Len(r) = Len(h) - n /\ popped = before + n /\ popped \in Nat /\ Len(r) \in Nat
  <2>1. Len(r) = Len(h) - n /\ n \in Nat
    BY <1>1, <1>2, <1>3
  <2>2. Len(r) \in Nat
    BY <1>1, <1>2, <2>1
  <2>3. popped = before + n /\ before \in Nat
    BY <1>1, <2>1
  <2>. HIDE DEF before, popped
  <2>4. popped \in Nat
    BY <2>1, <2>3
  <2>. QED
    BY <2>1, <2>2, <2>3, <2>4
<1>. HIDE DEF before, popped, h, s
<1>5. ASSUME NEW i \in 1 .. Len(r) PROVE r[i] <= s[popped + i] /\ r[i] \in Int
  <2>1. n + i \in 1 .. Len(h) /\ before + (n + i) = popped + i /\ r[i] = h[n + i]
    BY <1>1, <1>2, <1>3, <1>4 DEF before
  <2>. QED
    BY <1>1, <2>1
<1>6. Len(r) > 0 => r[1] >= clock - Window
  BY <1>1, <1>2, <1>3, <1>4
<1>. QED
  BY <1>4, <1>5, <1>6 DEF s, popped

LEMMA FullWhenLimited ==
  ASSUME LimitInv, NEW c \in Clients, HistoryOrdered(c),
         NEW r \in Pruned(hits[c], clock - Window), Len(r) >= per_minute
  PROVE  Cardinality(Young(c)) >= per_minute
<1>. DEFINE s == served[c]
            N == Len(s)
            popped == N - Len(r)
<1>1. /\ Len(r) \in Nat /\ popped \in Nat
      /\ \A i \in 1 .. Len(r) : r[i] <= s[popped + i] /\ r[i] \in Int
      /\ Len(r) > 0 => r[1] >= clock - Window
  BY PrunedOrdered
<1>2. /\ N \in Nat /\ DOMAIN s = 1 .. N /\ \A i \in 1 .. N : s[i] \in Int
      /\ now \in Int /\ behind \in Nat /\ clock = now - behind /\ Window \in Int /\ per_minute \in Int
      /\ \A i, j \in 1 .. N : i <= j => s[i] <= s[j]
  BY HistoryTyped DEF LimitInv, TypeOK, HistoryOrdered, clock
<1>3. Young(c) = {i \in 1 .. N : now - s[i] <= Window + behind}
  BY <1>2 DEF Young
<1>. HIDE DEF s
<1>4. N - popped = Len(r) /\ popped <= N
  BY <1>1, <1>2
<1>. HIDE DEF N, popped
<1>5. popped + 1 .. N \subseteq Young(c)
  <2>. SUFFICES ASSUME NEW i \in popped + 1 .. N PROVE now - s[i] <= Window + behind /\ i \in 1 .. N
    BY <1>3
  <2>1. i \in 1 .. N /\ popped + 1 \in 1 .. N /\ popped + 1 <= i /\ Len(r) > 0 /\ 1 \in 1 .. Len(r)
    BY <1>1, <1>2, <1>4
  <2>2. r[1] <= s[popped + 1] /\ s[popped + 1] <= s[i] /\ r[1] \in Int
    BY <1>1, <1>2, <2>1
  <2>3. r[1] >= clock - Window /\ s[popped + 1] \in Int /\ s[i] \in Int
    BY <1>1, <1>2, <2>1
  <2>. QED
    BY <1>2, <2>1, <2>2, <2>3
<1>6. IsFiniteSet(1 .. N) /\ Young(c) \subseteq 1 .. N
  BY <1>2, <1>3, FS_Interval
<1>7. IsFiniteSet(Young(c))
  BY <1>6, FS_Subset
<1>8. /\ Cardinality(popped + 1 .. N) <= Cardinality(Young(c))
      /\ Cardinality(popped + 1 .. N) \in Nat /\ Cardinality(Young(c)) \in Nat
  BY <1>5, <1>7, FS_Subset, FS_CardinalityType
<1>9. Cardinality(popped + 1 .. N) = Len(r)
  <2>1. Cardinality(popped + 1 .. N) = IF popped + 1 > N THEN 0 ELSE N - (popped + 1) + 1
    BY <1>1, <1>2, FS_Interval
  <2>. QED
    BY <1>1, <1>2, <1>4, <2>1
<1>. QED
  BY <1>1, <1>2, <1>8, <1>9

LEMMA LetThroughOrdered ==
  ASSUME LimitInv, NEW c \in Clients, HistoryOrdered(c), LetThrough(c)
  PROVE  HistoryOrdered(c)'
<1>. DEFINE s == served[c]
            N == Len(s)
<1>1. PICK r \in Pruned(hits[c], clock - Window) : hits' = [hits EXCEPT ![c] = Append(r, clock)]
  BY DEF LetThrough
<1>. DEFINE popped == N - Len(r)
<1>2. /\ Len(r) \in Nat /\ popped \in Nat
      /\ \A i \in 1 .. Len(r) : r[i] <= s[popped + i] /\ r[i] \in Int
  BY <1>1, PrunedOrdered
<1>3. r \in Seq(Int)
  BY <1>1, PrunedFollows DEF LimitInv
<1>4. /\ s \in Seq(Int) /\ N \in Nat /\ DOMAIN s = 1 .. N /\ \A i \in 1 .. N : s[i] \in Int
      /\ now \in Int /\ behind \in Nat /\ clock = now - behind /\ clock \in Int
      /\ \A i, j \in 1 .. N : i <= j => s[i] <= s[j]
      /\ \A i \in 1 .. N : s[i] <= now
  BY HistoryTyped DEF LimitInv, TypeOK, HistoryOrdered, clock
<1>5. hits'[c] = Append(r, clock) /\ served'[c] = Append(s, now) /\ now' = now
  BY <1>1 DEF LetThrough, LimitInv, TypeOK
<1>. HIDE DEF s
<1>6. /\ Len(served'[c]) = N + 1 /\ DOMAIN served'[c] = 1 .. N + 1
      /\ \A i \in 1 .. N : served'[c][i] = s[i]
      /\ served'[c][N + 1] = now
  BY <1>4, <1>5
<1>7. /\ Len(hits'[c]) = Len(r) + 1 /\ DOMAIN hits'[c] = 1 .. Len(r) + 1
      /\ \A i \in 1 .. Len(r) : hits'[c][i] = r[i]
      /\ hits'[c][Len(r) + 1] = clock
  BY <1>3, <1>4, <1>5
<1>8. popped + Len(r) = N /\ Len(served'[c]) - Len(hits'[c]) = popped
  BY <1>2, <1>4, <1>6, <1>7
<1>. HIDE DEF N, popped
<1>9. ASSUME NEW i \in 1 .. N + 1 PROVE served'[c][i] <= now'
  <2>1. CASE i \in 1 .. N
    BY <1>4, <1>5, <1>6, <2>1
  <2>2. CASE i = N + 1
    BY <1>4, <1>5, <1>6, <2>2
  <2>. QED
    BY <1>4, <2>1, <2>2
<1>10. ASSUME NEW i \in 1 .. N + 1, NEW j \in 1 .. N + 1, i <= j
       PROVE  served'[c][i] <= served'[c][j]
  <2>1. CASE j \in 1 .. N
    <3>1. i \in 1 .. N
      BY <1>4, <1>10, <2>1
    <3>. QED
      BY <1>4, <1>6, <1>10, <2>1, <3>1
  <2>2. CASE j = N + 1
    BY <1>5, <1>6, <1>9, <2>2
  <2>. QED
    BY <1>4, <2>1, <2>2
<1>11. ASSUME NEW i \in 1 .. Len(r) + 1 PROVE hits'[c][i] <= served'[c][popped + i]
  <2>1. CASE i \in 1 .. Len(r)
    <3>1. popped + i \in 1 .. N
      BY <1>2, <1>4, <1>8, <2>1
    <3>. QED
      BY <1>2, <1>6, <1>7, <2>1, <3>1
  <2>2. CASE i = Len(r) + 1
    <3>1. popped + i = N + 1
      BY <1>2, <1>4, <1>8, <2>2
    <3>. QED
      BY <1>4, <1>6, <1>7, <2>2, <3>1
  <2>. QED
    BY <1>2, <2>1, <2>2
<1>. QED
  BY <1>6, <1>7, <1>8, <1>9, <1>10, <1>11 DEF HistoryOrdered

(***************************************************************************)
(* Nobody is refused for more than it was given: whoever is told 429 had   *)
(* per_minute requests let through in the last window, stretched by the    *)
(* set-back of the clock.                                                  *)
(***************************************************************************)
THEOREM RefusalEarned == Spec => []RefusedWhenFull
<1>1. Init => RefusedInv
  <2>1. DOMAIN <<>> = {}
    BY EmptySeq
  <2>2. Init => \A c \in Clients : HistoryOrdered(c)
    BY <2>1 DEF Init, HistoryOrdered
  <2>3. Init => RefusedWhenFull
    BY DEF Init, NoAnswer, RefusedWhenFull
  <2>. QED
    BY InitLimited, <2>2, <2>3 DEF RefusedInv
<1>2. RefusedInv /\ [Next]_vars => RefusedInv'
  <2>. SUFFICES ASSUME RefusedInv, [Next]_vars PROVE RefusedInv'
    OBVIOUS
  <2>0. LimitInv /\ TypeOK /\ LimitInv' /\ RefusedWhenFull /\ \A c \in Clients : HistoryOrdered(c)
    BY StepLimited DEF RefusedInv, LimitInv
  <2>. SUFFICES (\A c \in Clients : HistoryOrdered(c)') /\ RefusedWhenFull'
    BY <2>0 DEF RefusedInv
  <2>1. ASSUME NEW c \in Clients, Refuse(c)
        PROVE  (\A d \in Clients : HistoryOrdered(d)') /\ RefusedWhenFull'
    <3>1. answer'.status # 429
      BY <2>1 DEF Refuse, Answer
    <3>. QED
      BY <2>0, <2>1, <3>1 DEF Refuse, HistoryOrdered, RefusedWhenFull
  <2>2. ASSUME NEW c \in Clients, LetThrough(c)
        PROVE  (\A d \in Clients : HistoryOrdered(d)') /\ RefusedWhenFull'
    <3>1. answer'.status # 429
      BY <2>2 DEF LetThrough, Answer
    <3>2. HistoryOrdered(c)'
      BY <2>0, <2>2, LetThroughOrdered
    <3>3. ASSUME NEW d \in Clients, d # c PROVE HistoryOrdered(d)'
      <4>1. UNCHANGED <<now, behind, hits[d], served[d]>>
        BY <2>0, <2>2, <3>3 DEF LetThrough, TypeOK
      <4>. QED
        BY <2>0, <4>1 DEF HistoryOrdered
    <3>. QED
      BY <3>1, <3>2, <3>3 DEF RefusedWhenFull
  <2>3. ASSUME NEW c \in Clients, Limit(c)
        PROVE  (\A d \in Clients : HistoryOrdered(d)') /\ RefusedWhenFull'
    <3>1. PICK r \in Pruned(hits[c], clock - Window) :
                 Len(r) >= per_minute /\ hits' = [hits EXCEPT ![c] = r]
      BY <2>3 DEF Limit
    <3>2. LET popped == Len(served[c]) - Len(r) IN
          \A i \in 1 .. Len(r) : r[i] <= served[c][popped + i]
      BY <2>0, <3>1, PrunedOrdered
    <3>3. DOMAIN r = 1 .. Len(r)
      BY <2>0, <3>1, PrunedFollows DEF LimitInv
    <3>4. hits'[c] = r /\ UNCHANGED <<now, behind, served>> /\ answer'.client = {c}
      BY <2>0, <2>3, <3>1 DEF Limit, Answer, TypeOK
    <3>5. HistoryOrdered(c)'
      BY <2>0, <3>2, <3>3, <3>4 DEF HistoryOrdered
    <3>6. ASSUME NEW d \in Clients, d # c PROVE HistoryOrdered(d)'
      <4>1. UNCHANGED <<now, behind, hits[d], served[d]>>
        BY <2>0, <3>1, <3>4, <3>6 DEF TypeOK
      <4>. QED
        BY <2>0, <4>1 DEF HistoryOrdered
    <3>7. Cardinality(Young(c)) >= per_minute
      BY <2>0, <3>1, FullWhenLimited
    <3>8. RefusedWhenFull'
      BY <3>4, <3>7 DEF RefusedWhenFull, Young
    <3>. QED
      BY <3>5, <3>6, <3>8
  <2>4. CASE Tick
    <3>1. RefusedWhenFull'
      BY <2>4 DEF Tick, NoAnswer, RefusedWhenFull
    <3>2. ASSUME NEW c \in Clients PROVE HistoryOrdered(c)'
      <4>1. ASSUME NEW i \in DOMAIN served[c] PROVE served[c][i] <= now'
        <5>1. served[c][i] <= now /\ now' = now + 1 /\ served[c][i] \in Int /\ now \in Int
          BY <2>0, <2>4, HistoryTyped DEF Tick, HistoryOrdered
        <5>. QED
          BY <5>1
      <4>. QED
        BY <2>0, <2>4, <4>1 DEF Tick, HistoryOrdered
    <3>. QED
      BY <3>1, <3>2
  <2>5. CASE SetBack
    BY <2>0, <2>5 DEF SetBack, NoAnswer, RefusedWhenFull, HistoryOrdered
  <2>6. CASE Restart
    <3>1. RefusedWhenFull'
      BY <2>6 DEF Restart, NoAnswer, RefusedWhenFull
    <3>2. ASSUME NEW c \in Clients PROVE hits'[c] = <<>> /\ served'[c] = <<>>
      BY <2>6 DEF Restart
    <3>3. DOMAIN <<>> = {}
      BY EmptySeq
    <3>. QED
      BY <3>1, <3>2, <3>3 DEF HistoryOrdered
  <2>7. CASE UNCHANGED vars
    <3>1. /\ now' = now /\ behind' = behind /\ hits' = hits
          /\ served' = served /\ answer' = answer
      BY <2>7 DEF vars
    <3>2. RefusedWhenFull'
      BY <2>0, <3>1 DEF RefusedWhenFull
    <3>. QED
      BY <2>0, <3>1, <3>2 DEF HistoryOrdered
  <2>. QED
    BY <2>1, <2>2, <2>3, <2>4, <2>5, <2>6, <2>7 DEF Next
<1>3. RefusedInv => RefusedWhenFull
  BY DEF RefusedInv
<1>. QED
  BY <1>1, <1>2, <1>3, PTL DEF Spec
=============================================================================
