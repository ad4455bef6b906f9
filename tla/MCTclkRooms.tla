---------------------------- MODULE MCTclkRooms ----------------------------
(* TclkRooms on a small instance: the threads are interchangeable. *)
EXTENDS TclkRooms, TLC

Symmetry == Permutations(Workers)
=============================================================================
