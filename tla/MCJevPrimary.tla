---------------------------- MODULE MCJevPrimary ----------------------------
(* Instances of JevPrimary for TLC. *)
EXTENDS JevPrimary

CONSTANTS c1, c2, c3, k1

OneKey == [c \in Calls |-> k1]
=============================================================================
