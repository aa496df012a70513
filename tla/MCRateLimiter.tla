--------------------------- MODULE MCRateLimiter ---------------------------
(* RateLimiter for TLC: interchangeable request goroutines.                *)
EXTENDS RateLimiter, TLC

Perms == Permutations(Requests)
=============================================================================
