---------------------------- MODULE MCRateLimiter ----------------------------
(* RateLimiter on small instances.                                           *)
EXTENDS RateLimiter, TLC

Symmetry == Permutations(Callers)
=============================================================================
