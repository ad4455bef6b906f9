------------------------------ MODULE MCStartup -----------------------------
(* Three processes start on what some earlier release left, or on nothing. *)
EXTENDS Startup

CONSTANTS p1, p2, p3, agents, tasks, capabilities, public_key, accepted_at, did, status, k1

MCAdded == {<<agents, public_key>>, <<tasks, accepted_at>>}

MCIndexes == {<<agents, did>>, <<tasks, status>>}

MCUnique == {<<agents, did>>}
=============================================================================
