-------------------------- MODULE ScanStore_proofs --------------------------
(***************************************************************************)
(* Proofs about Store.mutate, for every set of calls and every number of   *)
(* tries, in both backends.                                                *)
(***************************************************************************)
EXTENDS ScanStore, FiniteSetTheorems, TLAPS

\* The record carries the change of c.
Made(c) == \E i \in 1 .. Len(rec) : rec[i] = c

\* No call's change is in the record twice.
NoRepeats == \A i, j \in 1 .. Len(rec) : rec[i] = rec[j] => i = j

\* The place a call has reached says whether its change was made and what it answered.
PlaceTellsEffect ==
  \A c \in Calls :
    /\ Made(c) => pc[c] \in {"syncing", "written", "over"}
    /\ pc[c] \in {"syncing", "written"} => Made(c)
    /\ reply[c] \in {"written", "kept", "busy"} => pc[c] = reply[c]
    /\ pc[c] \notin {"exec", "written", "kept", "busy", "over"} => reply[c] = "none"
    /\ reply[c] = "busy" => pc[c] = "busy"
    /\ pc[c] = "exec" => reply[c] \in {"none", "failed"}
    /\ pc[c] = "over" => reply[c] = "failed"

\* Redis: a transaction about to be executed either was told of a write since its
\* WATCH, or has read the record as it is.
WatchedIsCurrent ==
  \A c \in Calls : pc[c] = "exec" =>
    backend = "redis" /\ ~Settled(seen[c]) /\ (~dirty[c] => seen[c] = rec)

\* File: who reads and writes holds the lock, and what it read is the record.
LockedIsCurrent ==
  \A c \in Calls :
    /\ pc[c] \in {"locked", "writing", "syncing"} => backend = "file" /\ lock = c
    /\ pc[c] = "writing" => ~Settled(rec) /\ seen[c] = rec

\* Every lost try was paid for by a write of another call.
TriesPaidFor ==
  \A c \in Calls :
    /\ pc[c] \in {"watched", "exec"} => /\ tries[c] > 0
                                        /\ Len(rec) >= tries[c] - 1
                                        /\ dirty[c] => Len(rec) >= tries[c]
    /\ pc[c] = "start" => tries[c] < MaxTries /\ Len(rec) >= tries[c]
    /\ pc[c] = "busy" => Len(rec) >= MaxTries
    /\ pc[c] = "watched" => backend = "redis"

\* Redis: the due set holds the record exactly while it has a due time.
IndexFollowsRecord == backend = "redis" => (index <=> HasDue(rec))

StoreInv ==
  /\ TypeOK
  /\ NoRepeats
  /\ PlaceTellsEffect
  /\ WatchedIsCurrent
  /\ LockedIsCurrent
  /\ TriesPaidFor
  /\ IndexFollowsRecord

-----------------------------------------------------------------------------
(* One step preserves the invariant *)

\* Appending a call to a record it is not in yet keeps the record a sequence without
\* repeats, adds that call alone and makes the record longer: the write of mutate.
LEMMA AppendFacts ==
  ASSUME TypeOK, NEW c \in Calls, ~Made(c), NoRepeats, rec' = Append(rec, c)
  PROVE  /\ rec' \in Seq(Calls) /\ Len(rec') = Len(rec) + 1
         /\ NoRepeats'
         /\ Made(c)'
         /\ \A d \in Calls \ {c} : Made(d)' <=> Made(d)
<1>1. rec \in Seq(Calls) /\ Len(rec) \in Nat
  BY DEF TypeOK
<1>2. /\ rec' \in Seq(Calls) /\ Len(rec') = Len(rec) + 1
      /\ rec'[Len(rec) + 1] = c
      /\ \A i \in 1 .. Len(rec) : rec'[i] = rec[i]
  BY <1>1
<1>. QED
  BY <1>1, <1>2 DEF NoRepeats, Made

LEMMA InitInv == Init => StoreInv
<1>. SUFFICES ASSUME Init PROVE StoreInv
  OBVIOUS
<1>1. rec \in Seq(Calls) /\ Len(rec) = 0
  BY DEF Init
<1>2. TypeOK
  <2>1. <<>> \in Seq(Calls)
    OBVIOUS
  <2>2. seen \in [Calls -> Seq(Calls)] /\ tries \in [Calls -> 0 .. MaxTries]
    BY <2>1, StoreConstants DEF Init
  <2>. QED
    BY <1>1, <2>2 DEF Init, TypeOK
<1>3. NoRepeats /\ \A c \in Calls : ~Made(c)
  BY <1>1 DEF NoRepeats, Made
<1>4. PlaceTellsEffect /\ WatchedIsCurrent /\ LockedIsCurrent
  BY <1>3 DEF Init, PlaceTellsEffect, WatchedIsCurrent, LockedIsCurrent
<1>5. TriesPaidFor
  BY <1>1, StoreConstants DEF Init, TriesPaidFor
<1>6. IndexFollowsRecord
  BY DEF Init, IndexFollowsRecord, HasDue
<1>. QED
  BY <1>2, <1>3, <1>4, <1>5, <1>6 DEF StoreInv

\* A step that leaves the record alone keeps what depends on the record alone.
LEMMA RecordUntouched ==
  ASSUME NoRepeats, IndexFollowsRecord, UNCHANGED <<backend, rec, index>>
  PROVE  /\ NoRepeats' /\ IndexFollowsRecord'
         /\ \A c \in Calls : Made(c)' <=> Made(c)
  BY DEF NoRepeats, IndexFollowsRecord, Made, HasDue, Settled

LEMMA WatchKeepsInv ==
  ASSUME StoreInv, NEW c \in Calls, Watch(c)
  PROVE  StoreInv'
<1>1. NoRepeats' /\ IndexFollowsRecord' /\ \A d \in Calls : Made(d)' <=> Made(d)
  BY RecordUntouched DEF StoreInv, Watch
<1>2. TypeOK'
  BY StoreConstants DEF StoreInv, TypeOK, Watch, TriesPaidFor
<1>3. PlaceTellsEffect'
  BY <1>1 DEF StoreInv, TypeOK, Watch, PlaceTellsEffect
<1>4. WatchedIsCurrent' /\ LockedIsCurrent'
  BY DEF StoreInv, TypeOK, Watch, WatchedIsCurrent, LockedIsCurrent, Settled
<1>5. TriesPaidFor'
  BY StoreConstants DEF StoreInv, TypeOK, Watch, TriesPaidFor
<1>. QED
  BY <1>1, <1>2, <1>3, <1>4, <1>5 DEF StoreInv

LEMMA GetKeepsInv ==
  ASSUME StoreInv, NEW c \in Calls, Get(c)
  PROVE  StoreInv'
<1>1. NoRepeats' /\ IndexFollowsRecord' /\ \A d \in Calls : Made(d)' <=> Made(d)
  BY RecordUntouched DEF StoreInv, Get
<1>2. TypeOK'
  BY DEF StoreInv, TypeOK, Get
<1>3. PlaceTellsEffect'
  BY <1>1 DEF StoreInv, TypeOK, Get, PlaceTellsEffect
<1>4. WatchedIsCurrent' /\ LockedIsCurrent'
  BY DEF StoreInv, TypeOK, Get, WatchedIsCurrent, LockedIsCurrent, Settled
<1>5. TriesPaidFor'
  BY DEF StoreInv, TypeOK, Get, TriesPaidFor
<1>. QED
  BY <1>1, <1>2, <1>3, <1>4, <1>5 DEF StoreInv

\* An EXEC that goes through appends to the record as it is.
LEMMA CommitAppends ==
  ASSUME StoreInv, NEW c \in Calls, Commit(c)
  PROVE  ~Settled(rec) /\ ~Made(c) /\ rec' = Append(rec, c)
  BY DEF StoreInv, WatchedIsCurrent, PlaceTellsEffect, Commit, Unchanged

LEMMA CommitKeepsInv ==
  ASSUME StoreInv, NEW c \in Calls, Commit(c)
  PROVE  StoreInv'
<1>1. /\ rec' \in Seq(Calls) /\ Len(rec') = Len(rec) + 1 /\ NoRepeats' /\ Made(c)'
      /\ \A d \in Calls \ {c} : Made(d)' <=> Made(d)
  BY CommitAppends, AppendFacts DEF StoreInv
<1>2. TypeOK'
  BY <1>1 DEF StoreInv, TypeOK, Commit, IndexAfter, HasDue
<1>3. PlaceTellsEffect'
  BY <1>1 DEF StoreInv, TypeOK, Commit, PlaceTellsEffect
<1>4. WatchedIsCurrent'
  BY DEF StoreInv, TypeOK, Commit, WatchedIsCurrent, Watching, Settled
<1>5. LockedIsCurrent'
  BY DEF StoreInv, TypeOK, Commit, LockedIsCurrent
<1>6. TriesPaidFor'
  <2>1. Len(rec) \in Nat /\ MaxTries \in Nat
    BY StoreConstants DEF StoreInv, TypeOK
  <2>2. ASSUME NEW d \in Calls \ {c}
        PROVE  pc'[d] = pc[d] /\ tries'[d] = tries[d] /\ backend' = backend
               /\ (dirty'[d] => dirty[d] \/ pc[d] \in {"watched", "exec"})
    BY DEF StoreInv, TypeOK, Commit, Watching
  <2>3. pc'[c] \in {"written", "syncing"}
    BY DEF StoreInv, TypeOK, Commit
  <2>4. ASSUME NEW d \in Calls
        PROVE  /\ tries[d] \in Nat
               /\ pc[d] \in {"watched", "exec"} => tries[d] > 0 /\ Len(rec) >= tries[d] - 1
               /\ pc[d] = "start" => tries[d] < MaxTries /\ Len(rec) >= tries[d]
               /\ pc[d] = "busy" => Len(rec) >= MaxTries
               /\ pc[d] = "watched" => backend = "redis"
    BY StoreConstants DEF StoreInv, TypeOK, TriesPaidFor
  <2>5. ASSUME NEW d \in Calls \ {c}
        PROVE  /\ pc'[d] \in {"watched", "exec"} => tries'[d] > 0 /\ Len(rec') >= tries'[d]
               /\ pc'[d] = "start" => tries'[d] < MaxTries /\ Len(rec') >= tries'[d]
               /\ pc'[d] = "busy" => Len(rec') >= MaxTries
               /\ pc'[d] = "watched" => backend' = "redis"
    BY <1>1, <2>1, <2>2, <2>4
  <2>6. \A d \in Calls : tries'[d] \in Nat
    BY <2>4 DEF Commit
  <2>. QED
    BY <1>1, <2>1, <2>3, <2>5, <2>6 DEF TriesPaidFor
<1>7. IndexFollowsRecord'
  BY DEF Commit, IndexFollowsRecord, IndexAfter, HasDue, Settled
<1>. QED
  BY <1>1, <1>2, <1>3, <1>4, <1>5, <1>6, <1>7 DEF StoreInv

LEMMA ConflictKeepsInv ==
  ASSUME StoreInv, NEW c \in Calls, Conflict(c)
  PROVE  StoreInv'
<1>1. NoRepeats' /\ IndexFollowsRecord' /\ \A d \in Calls : Made(d)' <=> Made(d)
  BY RecordUntouched DEF StoreInv, Conflict
<1>2. TypeOK'
  BY DEF StoreInv, TypeOK, Conflict
<1>3. PlaceTellsEffect'
  BY <1>1 DEF StoreInv, TypeOK, Conflict, PlaceTellsEffect
<1>4. WatchedIsCurrent' /\ LockedIsCurrent'
  BY DEF StoreInv, TypeOK, Conflict, WatchedIsCurrent, LockedIsCurrent, Settled
<1>5. TriesPaidFor'
  BY StoreConstants DEF StoreInv, TypeOK, Conflict, TriesPaidFor, TriesUsedUp
<1>. QED
  BY <1>1, <1>2, <1>3, <1>4, <1>5 DEF StoreInv

LEMMA LockFileKeepsInv ==
  ASSUME StoreInv, NEW c \in Calls, LockFile(c)
  PROVE  StoreInv'
<1>1. NoRepeats' /\ IndexFollowsRecord' /\ \A d \in Calls : Made(d)' <=> Made(d)
  BY RecordUntouched DEF StoreInv, LockFile
<1>2. TypeOK'
  BY DEF StoreInv, TypeOK, LockFile
<1>3. PlaceTellsEffect'
  BY <1>1 DEF StoreInv, TypeOK, LockFile, PlaceTellsEffect
<1>4. WatchedIsCurrent' /\ LockedIsCurrent'
  BY StoreConstants DEF StoreInv, TypeOK, LockFile, WatchedIsCurrent, LockedIsCurrent, Settled
<1>5. TriesPaidFor'
  BY DEF StoreInv, TypeOK, LockFile, TriesPaidFor
<1>. QED
  BY <1>1, <1>2, <1>3, <1>4, <1>5 DEF StoreInv

LEMMA ReadFileKeepsInv ==
  ASSUME StoreInv, NEW c \in Calls, ReadFile(c)
  PROVE  StoreInv'
<1>1. NoRepeats' /\ IndexFollowsRecord' /\ \A d \in Calls : Made(d)' <=> Made(d)
  BY RecordUntouched DEF StoreInv, ReadFile
<1>2. TypeOK'
  BY DEF StoreInv, TypeOK, ReadFile
<1>3. PlaceTellsEffect'
  BY <1>1 DEF StoreInv, TypeOK, ReadFile, PlaceTellsEffect
<1>4. WatchedIsCurrent' /\ LockedIsCurrent'
  BY DEF StoreInv, TypeOK, ReadFile, WatchedIsCurrent, LockedIsCurrent, Settled
<1>5. TriesPaidFor'
  BY DEF StoreInv, TypeOK, ReadFile, TriesPaidFor
<1>. QED
  BY <1>1, <1>2, <1>3, <1>4, <1>5 DEF StoreInv

\* A rename puts a record in place that extends the one it replaces.
LEMMA RenameAppends ==
  ASSUME StoreInv, NEW c \in Calls, Rename(c)
  PROVE  ~Settled(rec) /\ ~Made(c) /\ rec' = Append(rec, c)
  BY DEF StoreInv, LockedIsCurrent, PlaceTellsEffect, Rename

LEMMA RenameKeepsInv ==
  ASSUME StoreInv, NEW c \in Calls, Rename(c)
  PROVE  StoreInv'
<1>1. /\ rec' \in Seq(Calls) /\ Len(rec') = Len(rec) + 1 /\ NoRepeats' /\ Made(c)'
      /\ \A d \in Calls \ {c} : Made(d)' <=> Made(d)
  BY RenameAppends, AppendFacts DEF StoreInv
<1>2. TypeOK'
  BY <1>1 DEF StoreInv, TypeOK, Rename
<1>3. PlaceTellsEffect'
  BY <1>1 DEF StoreInv, TypeOK, Rename, PlaceTellsEffect
<1>4. WatchedIsCurrent' /\ LockedIsCurrent'
  BY DEF StoreInv, TypeOK, Rename, WatchedIsCurrent, LockedIsCurrent
<1>5. TriesPaidFor'
  <2>1. Len(rec) \in Nat /\ MaxTries \in Nat
    BY StoreConstants DEF StoreInv, TypeOK
  <2>2. ASSUME NEW d \in Calls \ {c}
        PROVE  pc'[d] = pc[d] /\ tries'[d] = tries[d] /\ backend' = backend
               /\ (dirty'[d] => dirty[d] \/ pc[d] \in {"watched", "exec"})
    BY DEF StoreInv, TypeOK, Rename
  <2>3. pc'[c] \in {"written", "syncing"}
    BY DEF StoreInv, TypeOK, Rename
  <2>4. ASSUME NEW d \in Calls
        PROVE  /\ tries[d] \in Nat
               /\ pc[d] \in {"watched", "exec"} => tries[d] > 0 /\ Len(rec) >= tries[d] - 1
               /\ pc[d] = "start" => tries[d] < MaxTries /\ Len(rec) >= tries[d]
               /\ pc[d] = "busy" => Len(rec) >= MaxTries
               /\ pc[d] = "watched" => backend = "redis"
    BY StoreConstants DEF StoreInv, TypeOK, TriesPaidFor
  <2>5. ASSUME NEW d \in Calls \ {c}
        PROVE  /\ pc'[d] \in {"watched", "exec"} => tries'[d] > 0 /\ Len(rec') >= tries'[d]
               /\ pc'[d] = "start" => tries'[d] < MaxTries /\ Len(rec') >= tries'[d]
               /\ pc'[d] = "busy" => Len(rec') >= MaxTries
               /\ pc'[d] = "watched" => backend' = "redis"
    BY <1>1, <2>1, <2>2, <2>4
  <2>6. \A d \in Calls : tries'[d] \in Nat
    BY <2>4 DEF Rename
  <2>. QED
    BY <1>1, <2>1, <2>3, <2>5, <2>6 DEF TriesPaidFor
<1>6. IndexFollowsRecord'
  BY DEF Rename, IndexFollowsRecord
<1>. QED
  BY <1>1, <1>2, <1>3, <1>4, <1>5, <1>6 DEF StoreInv

LEMMA SyncDirKeepsInv ==
  ASSUME StoreInv, NEW c \in Calls, SyncDir(c)
  PROVE  StoreInv'
<1>1. NoRepeats' /\ IndexFollowsRecord' /\ \A d \in Calls : Made(d)' <=> Made(d)
  BY RecordUntouched DEF StoreInv, SyncDir
<1>2. TypeOK'
  BY DEF StoreInv, TypeOK, SyncDir
<1>3. PlaceTellsEffect'
  BY <1>1 DEF StoreInv, TypeOK, SyncDir, PlaceTellsEffect
<1>4. WatchedIsCurrent' /\ LockedIsCurrent'
  BY DEF StoreInv, TypeOK, SyncDir, WatchedIsCurrent, LockedIsCurrent, Settled
<1>5. TriesPaidFor'
  BY DEF StoreInv, TypeOK, SyncDir, TriesPaidFor
<1>. QED
  BY <1>1, <1>2, <1>3, <1>4, <1>5 DEF StoreInv

LEMMA ReturnKeepsInv ==
  ASSUME StoreInv, NEW c \in Calls, Return(c)
  PROVE  StoreInv'
<1>1. NoRepeats' /\ IndexFollowsRecord' /\ \A d \in Calls : Made(d)' <=> Made(d)
  BY RecordUntouched DEF StoreInv, Return
<1>2. TypeOK'
  BY DEF StoreInv, TypeOK, Return, Unlock
<1>3. PlaceTellsEffect'
  BY <1>1 DEF StoreInv, TypeOK, Return, PlaceTellsEffect
<1>4. WatchedIsCurrent' /\ LockedIsCurrent'
  BY DEF StoreInv, TypeOK, Return, Unlock, WatchedIsCurrent, LockedIsCurrent, Settled
<1>5. TriesPaidFor'
  BY DEF StoreInv, TypeOK, Return, TriesPaidFor
<1>. QED
  BY <1>1, <1>2, <1>3, <1>4, <1>5 DEF StoreInv

LEMMA FailKeepsInv ==
  ASSUME StoreInv, NEW c \in Calls, Fail(c)
  PROVE  StoreInv'
<1>1. NoRepeats' /\ IndexFollowsRecord' /\ \A d \in Calls : Made(d)' <=> Made(d)
  BY RecordUntouched DEF StoreInv, Fail
<1>2. TypeOK'
  BY DEF StoreInv, TypeOK, Fail, AfterFailure, Unlock
<1>3. PlaceTellsEffect'
  BY <1>1 DEF StoreInv, TypeOK, Fail, AfterFailure, PlaceTellsEffect
<1>4. WatchedIsCurrent' /\ LockedIsCurrent'
  BY DEF StoreInv, TypeOK, Fail, AfterFailure, Unlock, WatchedIsCurrent, LockedIsCurrent, Settled
<1>5. TriesPaidFor'
  BY DEF StoreInv, TypeOK, Fail, AfterFailure, TriesPaidFor
<1>. QED
  BY <1>1, <1>2, <1>3, <1>4, <1>5 DEF StoreInv

LEMMA StutterKeepsInv == StoreInv /\ UNCHANGED vars => StoreInv'
  BY DEF vars, StoreInv, TypeOK, NoRepeats, PlaceTellsEffect, WatchedIsCurrent,
     LockedIsCurrent, TriesPaidFor, IndexFollowsRecord, Made, HasDue, Settled

LEMMA NextKeepsInv == StoreInv /\ [Next]_vars => StoreInv'
<1>. SUFFICES ASSUME StoreInv, Next PROVE StoreInv'
  BY StutterKeepsInv
<1>. PICK c \in Calls : Step(c) \/ Fail(c)
  BY DEF Next
<1>. QED
  BY WatchKeepsInv, GetKeepsInv, CommitKeepsInv, ConflictKeepsInv, LockFileKeepsInv,
     ReadFileKeepsInv, RenameKeepsInv, SyncDirKeepsInv, ReturnKeepsInv, FailKeepsInv DEF Step

\* Whatever the calls, their failures and conflicts: the invariant of Store.mutate.
THEOREM StoreInvHolds == Spec => []StoreInv
  BY InitInv, NextKeepsInv, PTL DEF Spec

-----------------------------------------------------------------------------
(* What follows *)

\* The variables of mutate keep their types; tries stay within their bound.
THEOREM StoreTypes == Spec => []TypeOK
<1>1. StoreInv => TypeOK
  BY DEF StoreInv
<1>. QED
  BY <1>1, StoreInvHolds, PTL

LEMMA OccurrencesOf ==
  ASSUME StoreInv, NEW c \in Calls
  PROVE  LET n == Cardinality({i \in 1 .. Len(rec) : rec[i] = c})
         IN  (Made(c) => n = 1) /\ (~Made(c) => n = 0)
<1>. DEFINE S == {i \in 1 .. Len(rec) : rec[i] = c}
<1>1. CASE Made(c)
  <2>1. PICK i \in 1 .. Len(rec) : rec[i] = c
    BY <1>1 DEF Made
  <2>2. S = {i}
    BY <2>1 DEF StoreInv, NoRepeats
  <2>. QED
    BY <1>1, <2>2, FS_Singleton
<1>2. CASE ~Made(c)
  <2>1. S = {}
    BY <1>2 DEF Made
  <2>. QED
    BY <1>2, <2>1, FS_EmptySet
<1>. QED
  BY <1>1, <1>2

\* No change that mutate reports is lost, none is made twice, and none is made by a
\* call that said it made none.
THEOREM ChangesMadeOnce == Spec => []EveryChangeOnce
<1>1. StoreInv => EveryChangeOnce
  <2>. SUFFICES ASSUME StoreInv, NEW c \in Calls
                PROVE  LET n == Cardinality({i \in 1 .. Len(rec) : rec[i] = c})
                       IN  /\ n <= 1
                           /\ reply[c] = "written" => n = 1
                           /\ reply[c] \in {"kept", "busy"} => n = 0
    BY DEF EveryChangeOnce
  <2>1. /\ reply[c] = "written" => Made(c)
        /\ reply[c] \in {"kept", "busy"} => ~Made(c)
    BY DEF StoreInv, PlaceTellsEffect
  <2>. QED
    BY <2>1, OccurrencesOf
<1>. QED
  BY <1>1, StoreInvHolds, PTL

\* A call is refused as busy only after as many writes of others as it has tries.
THEOREM BusyIsEarned == Spec => []BusyMeansOthersWrote
<1>1. StoreInv => BusyMeansOthersWrote
  BY DEF StoreInv, TriesPaidFor, BusyMeansOthersWrote
<1>. QED
  BY <1>1, StoreInvHolds, PTL

-----------------------------------------------------------------------------
(* The refinement *)

LEMMA EffectIs ==
  ASSUME StoreInv, NEW c \in Calls
  PROVE  EffectOf(c) = IF Made(c) THEN "written" ELSE IF pc[c] = "kept" THEN "kept" ELSE "none"
  BY DEF StoreInv, TypeOK, EffectOf, Made, Range

LEMMA SettledIs ==
  ASSUME TypeOK
  PROVE  Settled(rec) <=> Atomic!Settled(rec)
  BY DEF TypeOK, Settled, Atomic!Settled, Last

LEMMA InitMaps == Init => Atomic!Init
  BY DEF Init, Atomic!Init, EffectOf, ReplyOf, Range, Listed, HasDue

LEMMA ListedStays ==
  ASSUME UNCHANGED <<backend, rec, index>>
  PROVE  Listed' = Listed
  BY DEF Listed, HasDue, Settled

\* A write is the moment at which the call takes effect.
LEMMA WriteMaps ==
  ASSUME StoreInv, StoreInv', NEW c \in Calls, Commit(c) \/ Rename(c)
  PROVE  Atomic!Apply(c)
<1>1. ~Settled(rec) /\ ~Made(c) /\ rec' = Append(rec, c)
  BY CommitAppends, RenameAppends
<1>2. Made(c)' /\ \A d \in Calls \ {c} : Made(d)' <=> Made(d)
  BY <1>1, AppendFacts DEF StoreInv
<1>3. EffectOf(c) = "none" /\ EffectOf(c)' = "written"
  <2>1. EffectOf(c)' = "written"
    BY <1>2 DEF EffectOf, Made, Range, StoreInv, TypeOK
  <2>. QED
    BY <1>1, <2>1, EffectIs DEF Commit, Rename
<1>4. \A d \in Calls \ {c} : EffectOf(d)' = EffectOf(d)
  <2>. SUFFICES ASSUME NEW d \in Calls \ {c} PROVE EffectOf(d)' = EffectOf(d)
    OBVIOUS
  <2>1. rec' \in Seq(Calls)
    BY DEF StoreInv, TypeOK
  <2>3. d \in Range(rec') <=> Made(d)'
    BY <2>1 DEF Made, Range
  <2>4. EffectOf(d)' = IF Made(d)' THEN "written" ELSE IF pc'[d] = "kept" THEN "kept" ELSE "none"
    BY <2>3 DEF EffectOf
  <2>2. pc'[d] = pc[d]
    BY DEF StoreInv, TypeOK, Commit, Rename
  <2>. QED
    BY <1>2, <2>2, <2>4, EffectIs
<1>5. ReplyOf(c) \in {"none", "failed"} /\ \A d \in Calls : ReplyOf(d)' = ReplyOf(d)
  BY DEF StoreInv, PlaceTellsEffect, Commit, Rename, ReplyOf
<1>6. Listed' = (c \notin Settlers)
  <2>1. rec \in Seq(Calls)
    BY DEF StoreInv, TypeOK
  <2>2. rec' # <<>> /\ Len(rec') = Len(rec) + 1 /\ rec'[Len(rec) + 1] = c
    BY <1>1, <2>1
  <2>3. Last(rec') = c
    BY <2>2 DEF Last
  <2>4. HasDue(rec)' <=> c \notin Settlers
    BY <2>2, <2>3 DEF HasDue, Settled
  <2>5. Listed' \in BOOLEAN /\ (Listed' <=> HasDue(rec)')
    <3>1. index' \in BOOLEAN /\ (backend' = "redis" => (index' <=> HasDue(rec)'))
      BY DEF StoreInv, TypeOK, IndexFollowsRecord
    <3>2. HasDue(rec)' \in BOOLEAN
      BY DEF HasDue
    <3>. QED
      BY <3>1, <3>2, Zenon DEF Listed
  <2>. QED
    BY <2>4, <2>5
<1>. QED
  BY <1>1, <1>3, <1>4, <1>5, <1>6, SettledIs DEF StoreInv, Atomic!Apply

\* A read of a settled record is the moment at which the call decides to keep it; any
\* other read is a step inside the call.
LEMMA ReadMaps ==
  ASSUME StoreInv, StoreInv', NEW c \in Calls, Get(c) \/ ReadFile(c)
  PROVE  Atomic!Keep(c) \/ UNCHANGED Atomic!vars
<1>1. ~Made(c) /\ pc[c] # "kept" /\ reply[c] = "none"
  BY DEF StoreInv, PlaceTellsEffect, Get, ReadFile
<1>2. /\ rec' = rec /\ reply' = reply /\ \A d \in Calls : ReplyOf(d)' = ReplyOf(d)
      /\ Listed' = Listed
  BY ListedStays DEF Get, ReadFile, ReplyOf
<1>3. \A d \in Calls \ {c} : EffectOf(d)' = EffectOf(d)
  BY DEF StoreInv, TypeOK, Get, ReadFile, EffectOf
<1>4. EffectOf(c) = "none" /\ EffectOf(c)' = IF Settled(rec) THEN "kept" ELSE "none"
  BY <1>1, EffectIs DEF StoreInv, TypeOK, Get, ReadFile, EffectOf, Made, Range
<1>. QED
  BY <1>1, <1>2, <1>3, <1>4, SettledIs DEF StoreInv, Atomic!Keep, Atomic!vars, ReplyOf

\* The other steps on the way change nothing a caller could see.
LEMMA InnerStepMaps ==
  ASSUME StoreInv, NEW c \in Calls, Watch(c) \/ Conflict(c) \/ LockFile(c) \/ SyncDir(c)
  PROVE  UNCHANGED Atomic!vars
<1>1. rec' = rec /\ Listed' = Listed /\ \A d \in Calls : ReplyOf(d)' = ReplyOf(d)
  BY ListedStays DEF Watch, Conflict, LockFile, SyncDir, ReplyOf
<1>2. \A d \in Calls : EffectOf(d)' = EffectOf(d)
  BY DEF StoreInv, TypeOK, PlaceTellsEffect, Watch, Conflict, LockFile, SyncDir, EffectOf
<1>. QED
  BY <1>1, <1>2 DEF Atomic!vars

\* A return answers what the call did; "busy" is a failure.
LEMMA ReturnMaps ==
  ASSUME StoreInv, NEW c \in Calls, Return(c)
  PROVE  Atomic!Answer(c) \/ Atomic!Fail(c)
<1>1. rec' = rec /\ Listed' = Listed /\ \A d \in Calls : EffectOf(d)' = EffectOf(d)
  BY ListedStays DEF Return, EffectOf
<1>2. \A d \in Calls \ {c} : ReplyOf(d)' = ReplyOf(d)
  BY DEF StoreInv, TypeOK, Return, ReplyOf
<1>3. ReplyOf(c) = "none" /\ ReplyOf(c)' = IF pc[c] = "busy" THEN "failed" ELSE pc[c]
  BY DEF StoreInv, TypeOK, Return, ReplyOf
<1>4. pc[c] # "busy" => EffectOf(c) = pc[c] /\ EffectOf(c) # "none"
  BY EffectIs DEF StoreInv, PlaceTellsEffect, Return
<1>. QED
  BY <1>1, <1>2, <1>3, <1>4 DEF Return, Atomic!Answer, Atomic!Fail

LEMMA FailMaps ==
  ASSUME StoreInv, NEW c \in Calls, Fail(c)
  PROVE  Atomic!Fail(c)
<1>1. rec' = rec /\ Listed' = Listed /\ \A d \in Calls : EffectOf(d)' = EffectOf(d)
  BY ListedStays DEF StoreInv, TypeOK, Fail, AfterFailure, EffectOf
<1>2. ReplyOf(c) = "none" /\ ReplyOf(c)' = "failed" /\ \A d \in Calls \ {c} : ReplyOf(d)' = ReplyOf(d)
  BY DEF StoreInv, TypeOK, Fail, ReplyOf
<1>. QED
  BY <1>1, <1>2 DEF Atomic!Fail

LEMMA NextMaps == StoreInv /\ StoreInv' /\ [Next]_vars => [Atomic!Next]_(Atomic!vars)
<1>. SUFFICES ASSUME StoreInv, StoreInv', [Next]_vars PROVE [Atomic!Next]_(Atomic!vars)
  OBVIOUS
<1>1. CASE UNCHANGED vars
  BY <1>1, ListedStays DEF vars, Atomic!vars, EffectOf, ReplyOf
<1>2. CASE Next
  <2>. PICK c \in Calls : Step(c) \/ Fail(c)
    BY <1>2 DEF Next
  <2>1. \/ Atomic!Apply(c) \/ Atomic!Keep(c) \/ Atomic!Answer(c) \/ Atomic!Fail(c)
        \/ UNCHANGED Atomic!vars
    BY WriteMaps, ReadMaps, InnerStepMaps, ReturnMaps, FailMaps DEF Step
  <2>. QED
    BY <2>1 DEF Atomic!Next
<1>. QED
  BY <1>1, <1>2

\* Every call of mutate, in either backend, is one atomic step on the record.
THEOREM StoreImplementsAtomicRecord == Spec => ImplementsAtomicRecord
  BY InitMaps, NextMaps, StoreInvHolds, PTL DEF Spec, ImplementsAtomicRecord, Atomic!Spec

-----------------------------------------------------------------------------
(* Why every call returns: the safety half of CallReturns *)

\* The steps that a place leaves a call at most, besides its answer: a lost
\* transaction goes back to the start, and costs a try.
Ahead(place) ==
  CASE place = "watched" -> 6 [] place = "exec" -> 5 [] place = "start" -> 4
    [] place = "locked" -> 3 [] place = "writing" -> 2 [] place = "syncing" -> 1 [] OTHER -> 0

StepsLeft(c) ==
  3 * (MaxTries - tries[c]) + Ahead(pc[c]) + IF reply[c] = "none" THEN 1 ELSE 0

\* Each step of a call takes one of the finitely many it has left, and no other's.
Spends(c) ==
  /\ StepsLeft(c)' < StepsLeft(c)
  /\ \A d \in Calls \ {c} : StepsLeft(d)' = StepsLeft(d)

\* The guards of Step.
CanGo(c) ==
  \/ backend = "redis" /\ pc[c] \in {"start", "watched", "exec"}
  \/ backend = "file" /\ pc[c] = "start" /\ lock = Nobody
  \/ backend = "file" /\ pc[c] \in {"locked", "writing", "syncing"}
  \/ pc[c] \in {"written", "kept", "busy"} /\ reply[c] = "none"

\* A call without an answer goes on, or waits for the lock of one that does.
NobodyIsStuck ==
  \A c \in Calls : reply[c] = "none" =>
    CanGo(c) \/ (lock \in Calls \ {c} /\ reply[lock] = "none" /\ CanGo(lock))

\* The lock file is held by a call on its way to an answer, and by none on Redis.
HolderLives ==
  \A c \in Calls : lock = c =>
    backend = "file" /\ reply[c] = "none" /\ pc[c] \in {"locked", "writing", "syncing", "written", "kept"}

\* A call that fails or returns lets go of the lock in the same step.
LEMMA HolderStaysAlive ==
  ASSUME StoreInv, HolderLives, [Next]_vars
  PROVE  HolderLives'
<1>1. CASE UNCHANGED vars
  BY <1>1 DEF vars, HolderLives
<1>2. ASSUME NEW c \in Calls, Watch(c) \/ Get(c) \/ Commit(c) \/ Conflict(c) PROVE HolderLives'
  BY <1>2 DEF Watch, Get, Commit, Conflict, HolderLives, StoreInv, TypeOK
<1>3. ASSUME NEW c \in Calls, LockFile(c) \/ ReadFile(c) \/ Rename(c) \/ SyncDir(c) PROVE HolderLives'
  BY <1>3 DEF LockFile, ReadFile, Rename, SyncDir, HolderLives, StoreInv, TypeOK, PlaceTellsEffect
<1>4. ASSUME NEW c \in Calls, Return(c) \/ Fail(c) PROVE HolderLives'
  <2>1. lock' # c /\ (lock' # Nobody => lock' = lock)
    BY <1>4, StoreConstants DEF Return, Fail, Unlock
  <2>2. backend' = backend /\ \A d \in Calls \ {c} : pc'[d] = pc[d] /\ reply'[d] = reply[d]
    BY <1>4 DEF Return, Fail, StoreInv, TypeOK
  <2>. QED
    BY <2>1, <2>2, StoreConstants DEF HolderLives
<1>. QED
  BY <1>1, <1>2, <1>3, <1>4 DEF Next, Step

\* Whatever fails, and however often calls of any number conflict: while one has no
\* answer, it or the holder of the lock that it waits for can go on.
THEOREM SomebodyGoesOn == Spec => []NobodyIsStuck
<1>1. Init => HolderLives
  BY StoreConstants DEF Init, HolderLives
<1>2. StoreInv /\ HolderLives => NobodyIsStuck
  <2>. SUFFICES ASSUME StoreInv, HolderLives, NEW c \in Calls, reply[c] = "none"
                PROVE  CanGo(c) \/ (lock \in Calls \ {c} /\ reply[lock] = "none" /\ CanGo(lock))
    BY DEF NobodyIsStuck
  <2>1. /\ pc[c] \in {"start", "watched", "exec", "locked", "writing", "syncing", "written", "kept", "busy"}
        /\ backend \in {"redis", "file"} /\ lock \in Calls \cup {Nobody}
        /\ pc[c] \in {"watched", "exec"} => backend = "redis"
        /\ pc[c] \in {"locked", "writing", "syncing"} => backend = "file"
    BY DEF StoreInv, TypeOK, PlaceTellsEffect, WatchedIsCurrent, LockedIsCurrent, TriesPaidFor
  <2>2. CASE pc[c] # "start"
    BY <2>1, <2>2 DEF CanGo
  <2>3. CASE pc[c] = "start" /\ (backend = "redis" \/ lock = Nobody)
    BY <2>1, <2>3 DEF CanGo
  <2>4. CASE pc[c] = "start" /\ lock \in Calls
    <3>1. /\ backend = "file" /\ reply[lock] = "none"
          /\ pc[lock] \in {"locked", "writing", "syncing", "written", "kept"}
      BY <2>4 DEF HolderLives
    <3>. QED
      BY <2>4, <3>1 DEF CanGo
  <2>. QED
    BY <2>1, <2>2, <2>3, <2>4
<1>3. StoreInv /\ HolderLives /\ [Next]_vars => HolderLives'
  BY HolderStaysAlive
<1>. QED
  BY <1>1, <1>2, <1>3, StoreInvHolds, PTL DEF Spec

LEMMA AheadBound == \A place : Ahead(place) \in 0 .. 6
  BY DEF Ahead

\* Only the place, the tries and the answer of the call itself count for what it has left.
LEMMA OthersKeepTheirs ==
  ASSUME StoreInv, NEW c \in Calls, NEW d \in Calls \ {c}, Step(c) \/ Fail(c)
  PROVE  StepsLeft(d)' = StepsLeft(d)
<1>1. pc'[d] = pc[d] /\ tries'[d] = tries[d] /\ reply'[d] = reply[d]
  BY DEF Step, Watch, Get, Commit, Conflict, LockFile, ReadFile, Rename, SyncDir, Return, Fail,
         StoreInv, TypeOK
<1>. QED
  BY <1>1 DEF StepsLeft

\* No call of mutate goes on for ever: each of its steps spends one of at most
\* 3 * MaxTries + 5, so that neither conflicts nor a lock are waited for without end.
THEOREM CallsAreFinite ==
  Spec => /\ [](\A c \in Calls : StepsLeft(c) \in 0 .. 3 * MaxTries + 5)
          /\ [][\A c \in Calls : Step(c) \/ Fail(c) => Spends(c)]_vars
<1>1. ASSUME StoreInv, NEW c \in Calls PROVE StepsLeft(c) \in 0 .. 3 * MaxTries + 5
  <2>1. /\ tries[c] \in 0 .. MaxTries /\ MaxTries \in Nat
        /\ pc[c] \in {"watched", "exec"} => tries[c] > 0
    BY <1>1, StoreConstants DEF StoreInv, TypeOK, TriesPaidFor
  <2>2. Ahead(pc[c]) \in 0 .. 6 /\ (pc[c] \notin {"watched", "exec"} => Ahead(pc[c]) <= 4)
    BY AheadBound DEF Ahead
  <2>. QED
    BY <2>1, <2>2 DEF StepsLeft
<1>2. ASSUME StoreInv, NEW c \in Calls, Step(c) \/ Fail(c) PROVE StepsLeft(c)' < StepsLeft(c)
  <2>1. /\ tries[c] \in 0 .. MaxTries /\ MaxTries \in Nat
        /\ pc[c] = "start" => tries[c] < MaxTries
        /\ pc \in [Calls -> {"start", "watched", "exec", "locked", "writing", "syncing",
                             "written", "kept", "busy", "over"}]
        /\ reply \in [Calls -> {"none", "written", "kept", "busy", "failed"}]
        /\ tries \in [Calls -> 0 .. MaxTries]
    BY <1>2, StoreConstants DEF StoreInv, TypeOK, TriesPaidFor
  <2>2. CASE Watch(c)
    BY <2>1, <2>2 DEF Watch, StepsLeft, Ahead
  <2>3. CASE Get(c) \/ Commit(c) \/ Conflict(c)
    BY <2>1, <2>3 DEF Get, Commit, Conflict, StepsLeft, Ahead
  <2>4. CASE LockFile(c) \/ ReadFile(c) \/ Rename(c) \/ SyncDir(c)
    BY <2>1, <2>4 DEF LockFile, ReadFile, Rename, SyncDir, StepsLeft, Ahead
  <2>5. CASE Return(c)
    BY <2>1, <2>5, AheadBound DEF Return, StepsLeft
  <2>6. CASE Fail(c)
    BY <2>1, <2>6 DEF Fail, AfterFailure, StepsLeft, Ahead
  <2>. QED
    BY <1>2, <2>2, <2>3, <2>4, <2>5, <2>6 DEF Step
<1>3. StoreInv => \A c \in Calls : StepsLeft(c) \in 0 .. 3 * MaxTries + 5
  BY <1>1
<1>4. StoreInv => (\A c \in Calls : Step(c) \/ Fail(c) => Spends(c))
  BY <1>2, OthersKeepTheirs DEF Spends
<1>. QED
  BY <1>3, <1>4, StoreInvHolds, PTL DEF Spec
=============================================================================
