------------------------------- MODULE MCVisit -------------------------------
(* An instance of Visit for TLC. *)
EXTENDS Visit

CONSTANTS q1, q2, q3, short, r1, r2, none, m

\* q2 continues q1, and q3 has no hits, though q2's would match it.
SomeHits == [q \in {q1, q2, q3} |-> CASE q = q1 -> {r1, r2} [] q = q2 -> {r2} [] q = q3 -> {}]
SomeMatches == [q \in {q1, q2, q3} |-> IF q = q1 THEN {r1, r2} ELSE {r2}]
=============================================================================
