----------------------------- MODULE ScanStore ------------------------------
(***************************************************************************)
(* Store.mutate of backend/artifactscan, the one way a scan record is      *)
(* written, in its two backends: a Redis transaction (WATCH, GET, change,  *)
(* MULTI/EXEC, repeated after a conflict) and a file (lock, read, change,  *)
(* rename, sync of the directory).                                         *)
(*                                                                         *)
(* One record is modelled.  Its contents are the calls whose change it     *)
(* carries, in order; a change either adds to the record or, once it is    *)
(* settled, leaves it alone, as the changes of Enqueue, claim and finish   *)
(* do.  Calls fail at any point: the process dies, a timeout of 300 ms     *)
(* passes, a connection breaks.  The Redis client does not resend          *)
(* (MaxRetries -1), but a transaction it gave up on may still be executed. *)
(***************************************************************************)
EXTENDS Integers, FiniteSets, SequencesExt

CONSTANTS
  Calls,      \* concurrent mutate calls on the record
  Settlers,   \* those whose change settles it
  MaxTries,   \* transactions one call attempts, 16 in the code
  Nobody      \* the holder of a lock that is free

ASSUME StoreConstants ==
  /\ Settlers \subseteq Calls
  /\ MaxTries \in Nat \ {0}
  /\ Nobody \notin Calls

VARIABLES
  backend,   \* the backend OpenFromEnv opened
  rec,       \* the stored record
  index,     \* Redis: whether the record is a member of the due set
  pc,        \* pc[c]: the last step of call c
  seen,      \* seen[c]: the record c read
  dirty,     \* Redis: dirty[c], the watched record was written since c's WATCH
  tries,     \* tries[c]: transactions c has started
  lock,      \* file: the holder of the lock file
  reply      \* reply[c]: what the caller was told

vars == <<backend, rec, index, pc, seen, dirty, tries, lock, reply>>

Settled(r) == r # <<>> /\ Last(r) \in Settlers

\* A record with a due time: queued, running or waiting for a retry.
HasDue(r) == r # <<>> /\ ~Settled(r)

Init ==
  /\ backend \in {"redis", "file"}
  /\ rec = <<>>
  /\ index = FALSE
  /\ pc = [c \in Calls |-> "start"]
  /\ seen = [c \in Calls |-> <<>>]
  /\ dirty = [c \in Calls |-> FALSE]
  /\ tries = [c \in Calls |-> 0]
  /\ lock = Nobody
  /\ reply = [c \in Calls |-> "none"]

-----------------------------------------------------------------------------
(* The Redis transaction *)

\* Mutant: what an earlier WATCH of the connection saw is still held against it.
WatchKeepsDirty(c) ==
  /\ backend = "redis" /\ pc[c] = "start"
  /\ pc' = [pc EXCEPT ![c] = "watched"]
  /\ tries' = [tries EXCEPT ![c] = @ + 1]
  /\ UNCHANGED <<backend, rec, index, seen, dirty, lock, reply>>

Watch(c) ==
  /\ backend = "redis" /\ pc[c] = "start"
  /\ pc' = [pc EXCEPT ![c] = "watched"]
  /\ dirty' = [dirty EXCEPT ![c] = FALSE]
  /\ tries' = [tries EXCEPT ![c] = @ + 1]
  /\ UNCHANGED <<backend, rec, index, seen, lock, reply>>

\* The change is computed from what was read; a settled record is left alone.
Get(c) ==
  /\ backend = "redis" /\ pc[c] = "watched"
  /\ seen' = [seen EXCEPT ![c] = rec]
  /\ pc' = [pc EXCEPT ![c] = IF Settled(rec) THEN "kept" ELSE "exec"]
  /\ UNCHANGED <<backend, rec, index, dirty, tries, lock, reply>>

\* The callers whose WATCH is in force when another's EXEC writes the record.
Watching(c) == pc[c] \in {"watched", "exec"}

\* The transaction sets the record's membership of the due set with the record.
IndexAfter(r) == HasDue(r)

\* Mutant: the transaction is not conditional on the watched record.
ExecUnwatched(c) == TRUE

Unchanged(c) == ~dirty[c]

Commit(c) ==
  /\ backend = "redis" /\ pc[c] = "exec"
  /\ Unchanged(c)
  /\ rec' = Append(seen[c], c)
  /\ index' = IndexAfter(rec')
  /\ dirty' = [d \in Calls |-> dirty[d] \/ (d # c /\ Watching(d))]
  /\ pc' = [pc EXCEPT ![c] = "written"]
  /\ UNCHANGED <<backend, seen, tries, lock, reply>>

\* Mutant: a call that keeps losing never gives up.
TriesUnbounded(c) == FALSE

TriesUsedUp(c) == tries[c] = MaxTries

\* EXEC finds the record written since WATCH (TxFailedErr): the next try, the end of
\* the tries, or nothing, if the caller is gone.
Conflict(c) ==
  /\ backend = "redis" /\ pc[c] = "exec"
  /\ dirty[c]
  /\ pc' = [pc EXCEPT ![c] = IF reply[c] = "failed" THEN "over"
                             ELSE IF TriesUsedUp(c) THEN "busy" ELSE "start"]
  /\ UNCHANGED <<backend, rec, index, seen, dirty, tries, lock, reply>>

-----------------------------------------------------------------------------
(* The locked file *)

LockFile(c) ==
  /\ backend = "file" /\ pc[c] = "start"
  /\ lock = Nobody
  /\ lock' = c
  /\ pc' = [pc EXCEPT ![c] = "locked"]
  /\ UNCHANGED <<backend, rec, index, seen, dirty, tries, reply>>

ReadFile(c) ==
  /\ backend = "file" /\ pc[c] = "locked"
  /\ seen' = [seen EXCEPT ![c] = rec]
  /\ pc' = [pc EXCEPT ![c] = IF Settled(rec) THEN "kept" ELSE "writing"]
  /\ UNCHANGED <<backend, rec, index, dirty, tries, lock, reply>>

\* The temporary file is complete and synced before the rename; a reader without the
\* lock (Lookup, the scan for candidates) sees the old or the new record whole.
Rename(c) ==
  /\ backend = "file" /\ pc[c] = "writing"
  /\ rec' = Append(seen[c], c)
  /\ pc' = [pc EXCEPT ![c] = "syncing"]
  /\ UNCHANGED <<backend, index, seen, dirty, tries, lock, reply>>

\* The sync of the directory succeeds; that it fails after the rename is Fail.
SyncDir(c) ==
  /\ backend = "file" /\ pc[c] = "syncing"
  /\ pc' = [pc EXCEPT ![c] = "written"]
  /\ UNCHANGED <<backend, rec, index, seen, dirty, tries, lock, reply>>

-----------------------------------------------------------------------------
(* Return of a call *)

\* Mutant: a call that changes nothing returns without unlocking.
UnlockAfterWrite(c) == IF lock = c /\ pc[c] # "kept" THEN Nobody ELSE lock

\* The deferred unlock; the kernel does the same for a process that died.
Unlock(c) == IF lock = c THEN Nobody ELSE lock

Return(c) ==
  /\ pc[c] \in {"written", "kept", "busy"} /\ reply[c] = "none"
  /\ reply' = [reply EXCEPT ![c] = pc[c]]
  /\ lock' = Unlock(c)
  /\ UNCHANGED <<backend, rec, index, pc, seen, dirty, tries>>

\* Mutant: the client sends a transaction again when its reply is lost.
AfterFailureResent(c) == IF pc[c] = "written" /\ backend = "redis" THEN {"exec"} ELSE {pc[c]}

\* Where a call is left when its caller gives up: a transaction that was sent may
\* still be executed.
AfterFailure(c) ==
  IF pc[c] = "exec" THEN {"exec", "over"}
  ELSE IF pc[c] \in {"written", "kept"} THEN {pc[c]} ELSE {"over"}

Fail(c) ==
  /\ reply[c] = "none"
  /\ reply' = [reply EXCEPT ![c] = "failed"]
  /\ \E p \in AfterFailure(c) : pc' = [pc EXCEPT ![c] = p]
  /\ lock' = Unlock(c)
  /\ UNCHANGED <<backend, rec, index, seen, dirty, tries>>

Step(c) ==
  \/ Watch(c) \/ Get(c) \/ Commit(c) \/ Conflict(c)
  \/ LockFile(c) \/ ReadFile(c) \/ Rename(c) \/ SyncDir(c)
  \/ Return(c)

Next == \E c \in Calls : Step(c) \/ Fail(c)

Spec == Init /\ [][Next]_vars

-----------------------------------------------------------------------------
(* Safety *)

TypeOK ==
  /\ backend \in {"redis", "file"}
  /\ rec \in Seq(Calls)
  /\ index \in BOOLEAN
  /\ pc \in [Calls -> {"start", "watched", "exec", "locked", "writing", "syncing",
                      "written", "kept", "busy", "over"}]
  /\ seen \in [Calls -> Seq(Calls)]
  /\ dirty \in [Calls -> BOOLEAN]
  /\ tries \in [Calls -> 0 .. MaxTries]
  /\ lock \in Calls \cup {Nobody}
  /\ reply \in [Calls -> {"none", "written", "kept", "busy", "failed"}]

\* No change is lost or made twice: a call that answers "written" is in the record
\* once, one that failed at most once, and one that kept the record or was refused as
\* busy not at all.
EveryChangeOnce ==
  \A c \in Calls :
    LET n == Cardinality({i \in 1 .. Len(rec) : rec[i] = c})
    IN  /\ n <= 1
        /\ reply[c] = "written" => n = 1
        /\ reply[c] \in {"kept", "busy"} => n = 0

\* A call is refused as busy only if as many other calls wrote the record as it tried
\* transactions: the store as a whole made progress each time.
BusyMeansOthersWrote == \A c \in Calls : pc[c] = "busy" => Len(rec) >= MaxTries

-----------------------------------------------------------------------------
(* The atomic record, as a refinement *)

EffectOf(c) ==
  IF c \in Range(rec) THEN "written" ELSE IF pc[c] = "kept" THEN "kept" ELSE "none"

ReplyOf(c) == IF reply[c] = "busy" THEN "failed" ELSE reply[c]

\* Workers read Redis's due set, or all records of the directory.
Listed == IF backend = "redis" THEN index ELSE HasDue(rec)

Atomic == INSTANCE AtomicRecord WITH
  value  <- rec,
  listed <- Listed,
  effect <- [c \in Calls |-> EffectOf(c)],
  reply  <- [c \in Calls |-> ReplyOf(c)]

\* Each call of mutate is one atomic step on the record and its place among the jobs, in
\* both backends: at its EXEC or rename if it writes, at its read if it does not.
ImplementsAtomicRecord == Atomic!Spec

-----------------------------------------------------------------------------
(* Liveness *)

\* Redis and the caller's goroutine keep going.  Nothing is assumed of Fail.
FairSpec == Spec /\ \A c \in Calls : WF_vars(Step(c))

\* Every call returns: no lock is left behind by a call that failed, kept the record
\* or died, and conflicts do not repeat for ever.
CallReturns == \A c \in Calls : <>(reply[c] # "none")
=============================================================================
