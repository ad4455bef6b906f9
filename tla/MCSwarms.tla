------------------------------ MODULE MCSwarms ------------------------------
(* Three agents and two capabilities, profiles that tie and that differ. *)
EXTENDS Swarms

CONSTANTS x, y, s1, w1, w2

MCProfile(caps, status, verification, protocols, evidence) ==
  [caps |-> caps, status |-> status, verification |-> verification,
   protocols |-> protocols, evidence |-> evidence]

MCProfiles ==
  {MCProfile({x}, "unknown", "vouched", {"http"}, TRUE),
   MCProfile({x, y}, "online", "claimed", {}, FALSE),
   MCProfile({y}, "offline", "disputed", {"http"}, FALSE)}

\* Bound: one contribution in all, logged or about to be.
Logging == {w \in Workers : jobs[w].stage = "write" /\ jobs[w].credits # {}}

OneContribution == Cardinality(credits) + Cardinality(Logging) <= 1

Symmetry == Permutations(Workers)
=============================================================================
