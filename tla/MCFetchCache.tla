---------------------------- MODULE MCFetchCache ----------------------------
(* Instances of FetchCache for TLC. *)
EXTENDS FetchCache

CONSTANTS i1, c1, c2

OneInstance == [c \in {c1, c2} |-> i1]
=============================================================================
