------------------------------ MODULE ScanJobs ------------------------------
(***************************************************************************)
(* What the artifact scan queue promises to the rest of the program: an    *)
(* asset identity is inspected at most MaxAttempts times; it ends either   *)
(* with evidence from its most recent attempt or, only after the last      *)
(* attempt, as exhausted; neither ending is ever taken back.  Leases,      *)
(* workers, clocks and the store are not visible here.                     *)
(***************************************************************************)
EXTENDS Naturals

CONSTANTS
  Keys,         \* asset identities (hash of version, URL, id, size, digest, ...)
  MaxAttempts   \* total inspection attempts of one identity

VARIABLES
  status,       \* status[k]: where the job of identity k stands
  tries,        \* tries[k]: attempts charged to k so far
  evidence      \* evidence[k]: number of the attempt whose result is served, 0 if none

vars == <<status, tries, evidence>>

Init ==
  /\ status = [k \in Keys |-> "none"]
  /\ tries = [k \in Keys |-> 0]
  /\ evidence = [k \in Keys |-> 0]

Submit(k) ==
  /\ status[k] = "none"
  /\ status' = [status EXCEPT ![k] = "waiting"]
  /\ UNCHANGED <<tries, evidence>>

\* A waiting job is tried, or a running one tried again after its worker vanished.
Try(k) ==
  /\ status[k] \in {"waiting", "running"}
  /\ tries[k] < MaxAttempts
  /\ status' = [status EXCEPT ![k] = "running"]
  /\ tries' = [tries EXCEPT ![k] = @ + 1]
  /\ UNCHANGED evidence

PutBack(k) ==
  /\ status[k] = "running"
  /\ tries[k] < MaxAttempts
  /\ status' = [status EXCEPT ![k] = "waiting"]
  /\ UNCHANGED <<tries, evidence>>

Exhaust(k) ==
  /\ status[k] = "running"
  /\ tries[k] = MaxAttempts
  /\ status' = [status EXCEPT ![k] = "error"]
  /\ UNCHANGED <<tries, evidence>>

Succeed(k) ==
  /\ status[k] = "running"
  /\ status' = [status EXCEPT ![k] = "complete"]
  /\ evidence' = [evidence EXCEPT ![k] = tries[k]]
  /\ UNCHANGED tries

Advance(k) == Try(k) \/ PutBack(k) \/ Exhaust(k) \/ Succeed(k)

Next == \E k \in Keys : Submit(k) \/ Advance(k)

Spec == Init /\ [][Next]_vars
=============================================================================
