--------------------------- MODULE MCRateLimiter ---------------------------
(* RateLimiter on a small instance: the clients are interchangeable. *)
EXTENDS RateLimiter, TLC

Symmetry == Permutations(Clients)
=============================================================================
