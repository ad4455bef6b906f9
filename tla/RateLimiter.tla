----------------------------- MODULE RateLimiter -----------------------------
(***************************************************************************)
(* The request limiter in front of every route (RequestLimitMiddleware of  *)
(* security.py): per client address, a deque of the times of the requests  *)
(* it let through, from which those older than the window are popped.      *)
(* dispatch() awaits nothing before it has decided, so on the event loop a *)
(* decision is one step.  The deques live in the memory of one process.    *)
(*                                                                         *)
(* The code reads time.time(), a wall clock that may be set back; what the *)
(* limit means is a matter of real time.  Both are kept: the clock shows   *)
(* now - behind.  A clock set forward is not modelled.                     *)
(***************************************************************************)
EXTENDS Integers, Sequences, FiniteSets

CONSTANTS
  Clients,     \* client addresses
  per_minute,  \* requests let through per window
  Window,      \* the window: 60 seconds in the code
  MaxTime,     \* bound on time
  MaxBehind    \* bound on how far the clock is set back, in all

ASSUME LimiterAssumption ==
  /\ per_minute \in Int /\ Window \in Nat
  /\ MaxTime \in Nat /\ MaxBehind \in Nat

VARIABLES
  now,     \* real time
  behind,  \* by how much the clock has been set back so far
  hits,    \* client -> the clock readings in its deque (_hits)
  served,  \* client -> the real times this process let it through: history
  answer   \* the client answered last at this time, and how

vars == <<now, behind, hits, served, answer>>

clock == now - behind

NoAnswer == [client |-> {}, status |-> 0]

TypeOK ==
  /\ now \in Nat
  /\ behind \in Nat
  /\ hits \in [Clients -> Seq(Int)]
  /\ served \in [Clients -> Seq(Int)]
  /\ answer \in [client : SUBSET Clients, status : {0, 200, 400, 413, 429}]

Init ==
  /\ now = 0
  /\ behind = 0
  /\ hits = [c \in Clients |-> <<>>]
  /\ served = [c \in Clients |-> <<>>]
  /\ answer = NoAnswer

-----------------------------------------------------------------------------

PrunedInclusive(window, cutoff) ==   \* mutated: a request as old as the window is forgotten
  {SubSeq(window, n + 1, Len(window)) :
     n \in {m \in 0 .. Len(window) :
              /\ \A j \in 1 .. m : window[j] <= cutoff
              /\ m < Len(window) => window[m + 1] > cutoff}}

\* while window and window[0] < cutoff: window.popleft()
\* What is left of the deque, the only element of this set: n requests are
\* popped, the next one is young enough.
Pruned(window, cutoff) ==
  {SubSeq(window, n + 1, Len(window)) :
     n \in {m \in 0 .. Len(window) :
              /\ \A j \in 1 .. m : window[j] < cutoff
              /\ m < Len(window) => window[m + 1] >= cutoff}}

Answer(c, status) == answer' = [client |-> {c}, status |-> status]

\* A body too long, or a Content-Length that is no number: not counted.
Refuse(c) ==
  /\ \E status \in {400, 413} : Answer(c, status)
  /\ UNCHANGED <<now, behind, hits, served>>

\* The request goes on to its route and is counted.
LetThrough(c) ==
  /\ \E window \in Pruned(hits[c], clock - Window) :
       /\ Len(window) < per_minute
       /\ hits' = [hits EXCEPT ![c] = Append(window, clock)]
  /\ served' = [served EXCEPT ![c] = Append(@, now)]
  /\ Answer(c, 200)
  /\ UNCHANGED <<now, behind>>

LimitCounted(c) ==   \* mutated: a refused request is counted too
  /\ \E window \in Pruned(hits[c], clock - Window) :
       /\ Len(window) >= per_minute
       /\ hits' = [hits EXCEPT ![c] = Append(window, clock)]
  /\ Answer(c, 429)
  /\ UNCHANGED <<now, behind, served>>

\* rate_limited: not counted, but the deque stays pruned.
Limit(c) ==
  /\ \E window \in Pruned(hits[c], clock - Window) :
       /\ Len(window) >= per_minute
       /\ hits' = [hits EXCEPT ![c] = window]
  /\ Answer(c, 429)
  /\ UNCHANGED <<now, behind, served>>

Tick ==
  /\ now < MaxTime
  /\ now' = now + 1
  /\ answer' = NoAnswer
  /\ UNCHANGED <<behind, hits, served>>

\* The clock is corrected; what the deques hold is then ahead of it.
SetBack ==
  /\ behind < MaxBehind
  /\ behind' = behind + 1
  /\ answer' = NoAnswer
  /\ UNCHANGED <<now, hits, served>>

RestartNoDefault ==   \* mutated: a deque is not made on demand
  /\ hits' = [c \in {} |-> <<>>]
  /\ served' = [c \in Clients |-> <<>>]
  /\ answer' = NoAnswer
  /\ UNCHANGED <<now, behind>>

\* The process starts over with empty deques, and so does the history.
Restart ==
  /\ hits' = [c \in Clients |-> <<>>]
  /\ served' = [c \in Clients |-> <<>>]
  /\ answer' = NoAnswer
  /\ UNCHANGED <<now, behind>>

Next ==
  \/ \E c \in Clients : Refuse(c) \/ LetThrough(c) \/ Limit(c)
  \/ Tick
  \/ SetBack
  \/ Restart

Spec == Init /\ [][Next]_vars

-----------------------------------------------------------------------------
(* Properties *)

(***************************************************************************)
(* In real time, and whatever is done to the clock by setting it back, a   *)
(* process never lets more than per_minute requests of a client through in *)
(* a window: of any per_minute + 1 in a row, the last comes later than a   *)
(* full window after the first (dispatch(); a request exactly as old as    *)
(* the window still counts).                                               *)
(***************************************************************************)
WindowLimit ==
  \A c \in Clients : \A i \in DOMAIN served[c] :
    i > per_minute => served[c][i] - served[c][i - per_minute] > Window

(***************************************************************************)
(* No client is refused for more than it was given: when it is told 429,   *)
(* this process let per_minute of its requests through in the last window, *)
(* stretched by what the clock was set back; refused requests, and those   *)
(* of other clients, do not count against it.                              *)
(***************************************************************************)
RefusedWhenFull ==
  answer.status = 429 =>
    \A c \in answer.client :
      Cardinality({i \in DOMAIN served[c] : now - served[c][i] <= Window + behind}) >= per_minute
=============================================================================
