--------------------------- MODULE MCTaskWorkflow ---------------------------
(***************************************************************************)
(* TaskWorkflow on small instances.  Agents, message ids and threads are   *)
(* interchangeable model values.                                           *)
(***************************************************************************)
EXTENDS TaskWorkflow, TLC

Symmetry ==
  Permutations(Agents) \cup Permutations(MessageIds) \cup Permutations(Workers)
    \cup Permutations(Tasks)

(***************************************************************************)
(* Bound of the postgres run: once an agent was changed, at most one       *)
(* session has read and not written, and at most one has written and not   *)
(* committed.  A commit that meets one stale session stays in.             *)
(***************************************************************************)
OneStale ==
  churn > 0 => \A stage \in {"read", "write"} :
    Cardinality({w \in Workers : jobs[w].stage = stage}) <= 1
=============================================================================
