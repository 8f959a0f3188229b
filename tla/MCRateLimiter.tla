---------------------------- MODULE MCRateLimiter ----------------------------
(* RateLimiter for TLC.  Threads are interchangeable; the first two keys    *)
(* have the same limit and are interchangeable too.                        *)
EXTENDS RateLimiter, TLC

CONSTANTS k1, k2, k3

MCLimit == [k \in Keys |-> IF k = k3 THEN 1 ELSE 2]
Interchangeable == Permutations(Threads) \cup Permutations({k1, k2})
=============================================================================
