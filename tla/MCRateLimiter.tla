---------------------------- MODULE MCRateLimiter ----------------------------
(* Instances of RateLimiter for TLC. *)
EXTENDS RateLimiter, TLC

CONSTANTS k1, r1, r2, r3

OneClient == {k1}
ThreeReqs == {r1, r2, r3}

Interchangeable == Permutations(Req)
=============================================================================
