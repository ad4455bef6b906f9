---------------------------- MODULE MCCredence ----------------------------
(* Credence on small instances: agents, capabilities and threads are       *)
(* interchangeable model values.                                           *)
EXTENDS Credence

\* Bound: of an agent that was registered again, fewer records, and after a
\* second replacement of claims only what is going on.
ShortAgain ==
  \A a \in Agents :
    /\ deletes > 0 => Len(records[a]) < 3
    /\ puts > 1 => Len(records[a]) < 2 /\ deletes = 0

Symmetry == Permutations(Agents) \cup Permutations(Caps) \cup Permutations(Workers)
=============================================================================
