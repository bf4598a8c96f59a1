---------------------------- MODULE AtomicRecord ----------------------------
(***************************************************************************)
(* What a store of scan records promises of Store.mutate: each call takes  *)
(* effect at one moment, on the value of that moment, or not at all; what  *)
(* it answers is what it did, except that a failed call may or may not     *)
(* have taken effect, and may even take effect after it was given up.      *)
(* Workers find the record among the jobs exactly while it is unsettled.   *)
(***************************************************************************)
EXTENDS Sequences

CONSTANTS
  Calls,     \* mutate calls on one record
  Settlers   \* those that leave a record no later call changes

VARIABLES
  value,     \* the calls that made the stored record, in order
  listed,    \* whether the record is among the jobs that workers look through
  effect,    \* effect[c]: what call c did
  reply      \* reply[c]: what its caller was told

vars == <<value, listed, effect, reply>>

Settled(v) == v # <<>> /\ v[Len(v)] \in Settlers

Init ==
  /\ value = <<>>
  /\ listed = FALSE
  /\ effect = [c \in Calls |-> "none"]
  /\ reply = [c \in Calls |-> "none"]

Apply(c) ==
  /\ effect[c] = "none" /\ reply[c] \in {"none", "failed"}
  /\ ~Settled(value)
  /\ value' = Append(value, c)
  /\ listed' = (c \notin Settlers)
  /\ effect' = [effect EXCEPT ![c] = "written"]
  /\ UNCHANGED reply

Keep(c) ==
  /\ effect[c] = "none" /\ reply[c] = "none"
  /\ Settled(value)
  /\ effect' = [effect EXCEPT ![c] = "kept"]
  /\ UNCHANGED <<value, listed, reply>>

Answer(c) ==
  /\ reply[c] = "none" /\ effect[c] # "none"
  /\ reply' = [reply EXCEPT ![c] = effect[c]]
  /\ UNCHANGED <<value, listed, effect>>

Fail(c) ==
  /\ reply[c] = "none"
  /\ reply' = [reply EXCEPT ![c] = "failed"]
  /\ UNCHANGED <<value, listed, effect>>

Next == \E c \in Calls : Apply(c) \/ Keep(c) \/ Answer(c) \/ Fail(c)

Spec == Init /\ [][Next]_vars
=============================================================================
