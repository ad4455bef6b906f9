-------------------------- MODULE MCSignedMessages --------------------------
(* Two agents, two keys and one demo identifier; one client, two threads. *)
EXTENDS SignedMessages, TLC

CONSTANTS a1, a2, k1, k2, e1, w1, w2, c1, m1

Symmetry == Permutations(Keys) \cup Permutations(Workers)

\* Bound: the threads' requests overlap only before the client begins.
OverlapFirst ==
  (\A w \in Workers : jobs[w] # Idle) => \A c \in Clients : sessions[c] = NoRequest
=============================================================================
