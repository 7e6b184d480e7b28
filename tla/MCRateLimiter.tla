--------------------------- MODULE MCRateLimiter ---------------------------
(* Small instances of RateLimiter. *)
EXTENDS RateLimiter, TLC

CONSTANTS a1, a2

MCAddresses2 == {a1, a2}
Symmetric == Permutations(MCAddresses2)
=============================================================================
