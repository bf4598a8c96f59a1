---------------------------- MODULE MCScanStore -----------------------------
(* An instance of ScanStore for TLC. *)
EXTENDS ScanStore

CONSTANTS c1, c2, c3
=============================================================================
