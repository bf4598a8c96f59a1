---------------------------- MODULE MCRateLimiter ----------------------------
(* Instances of RateLimiter for TLC. *)
EXTENDS RateLimiter

CONSTANTS k1, k2, c1, c2

\* c1 serves one visitor, c2 two, one of them c1's.
Shared == [c \in {c1, c2} |-> IF c = c1 THEN {k1} ELSE {k1, k2}]
=============================================================================
