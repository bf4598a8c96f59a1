---------------------------- MODULE ArtifactScan ----------------------------
(***************************************************************************)
(* The durable inspection queue of backend/artifactscan: records, leases,  *)
(* the web process that enqueues, and the workers that claim a due record, *)
(* inspect its asset and write back the result.                            *)
(*                                                                         *)
(* Store.mutate is one atomic step here, as it is under the file lock of   *)
(* the local store; ScanStore shows the same of the WATCH transaction.     *)
(*                                                                         *)
(* Times are kept as time to go: a record's due time is `left` ticks away  *)
(* on the slowest clock and is compared with the reader's own clock, which *)
(* runs Skew[p] ticks ahead.  Due times that are past are kept as 0, since *)
(* the code only asks whether they are past.                               *)
(*                                                                         *)
(* A store call that fails, or that commits and whose reply is lost, ends  *)
(* the worker process (Run returns the error), so it is the step without   *)
(* effect or the committed step, followed by Stop.                         *)
(***************************************************************************)
EXTENDS Integers, FiniteSets, FiniteSetsExt

CONSTANTS
  Keys,            \* asset identities
  Workers,         \* worker processes
  OnceWorkers,     \* those started as `worker -once`
  Web,             \* the process that enqueues
  Skew,            \* Skew[p]: how far p's clock is ahead of the slowest clock
  LeaseDuration,
  AttemptTimeout,
  StoreTime,       \* time a healthy worker spends in the store around an attempt
  RetryDelay,
  MaxAttempts,
  Batch            \* due keys one scan returns, 32 in the code

Processes == Workers \cup {Web}

ASSUME ScanConstants ==
  /\ OnceWorkers \subseteq Workers
  /\ Skew \in [Processes -> Nat]
  /\ LeaseDuration \in Nat
  /\ AttemptTimeout \in Nat
  /\ StoreTime \in Nat
  /\ RetryDelay \in Nat
  /\ MaxAttempts \in Nat \ {0}
  /\ Batch \in Nat \ {0}
  /\ \A n \in 1 .. MaxAttempts : 2 ^ (n - 1) \in Nat

\* Lease, timeout and clocks leave a margin: the lease of 15 minutes outlasts the
\* attempt of 10 and its store calls as long as clocks differ by less than the rest.
ASSUME LeaseMargin ==
  \A p, q \in Workers : Skew[q] - Skew[p] < LeaseDuration - AttemptTimeout - StoreTime

VARIABLES
  rec,      \* rec[k]: the stored record of identity k
  issued,   \* number of lease tokens drawn so far
  pc,       \* pc[w]: where worker w is in ProcessNext
  cand,     \* cand[w]: due keys of w's scan that it has not tried yet
  att       \* att[w]: the attempt w has in hand

vars == <<rec, issued, pc, cand, att>>

-----------------------------------------------------------------------------
(* Records *)

Absent == [state |-> "absent"]
NoMeta == [by |-> 0, status |-> "none"]
NoToken == 0

Outcomes == {"inspected", "malformed", "failed"}
Metadata == [by : 0 .. MaxAttempts, status : {"none", "inspected", "failed"}]
Record == [state : {"queued", "running", "retry", "complete", "error"},
           attempts : 0 .. MaxAttempts, left : Nat, token : Nat, meta : Metadata]

NoAttempt == [key |-> "none"]
Attempt == [key : Keys, token : Nat, number : 1 .. MaxAttempts, healthy : BOOLEAN,
            elapsed : Nat, outcome : Outcomes \cup {"none"}]

\* Mutant: the last attempt is counted once too often.
AttemptsLeftByOne(r) == r.attempts > MaxAttempts

OutOfAttempts(r) == r.attempts >= MaxAttempts

Terminal(r) == r.state \in {"complete", "error"}

\* Mutant: a running record is never due again, so nobody takes over a dead worker's.
DueUnlessRunning(r, p) == r.state \in {"queued", "retry"} /\ r.left <= Skew[p]

\* The record still has a due time, and it is past on p's clock.
Due(r, p) ==
  /\ r.state \in {"queued", "retry", "running"}
  /\ r.left <= Skew[p]

NewRecord(p) ==
  [state |-> "queued", attempts |-> 0, left |-> Skew[p], token |-> NoToken, meta |-> NoMeta]

\* Mutant: the lease lasts no longer than the attempt.
ClaimedForAttempt(r, w, t) ==
  [state |-> "running", attempts |-> r.attempts + 1, left |-> AttemptTimeout + Skew[w],
   token |-> t, meta |-> NoMeta]

Claimed(r, w, t) ==
  [state |-> "running", attempts |-> r.attempts + 1, left |-> LeaseDuration + Skew[w],
   token |-> t, meta |-> NoMeta]

Exhausted(r) ==
  [state |-> "error", attempts |-> r.attempts, left |-> 0, token |-> NoToken, meta |-> NoMeta]

PutBack(r, w) ==
  [state |-> "retry", attempts |-> r.attempts,
   left |-> RetryDelay * 2 ^ (r.attempts - 1) + Skew[w], token |-> NoToken, meta |-> NoMeta]

\* Malformed contents are an answer about the file, not a failure of the attempt.
Completed(r, a) ==
  [state |-> "complete", attempts |-> r.attempts, left |-> 0, token |-> NoToken,
   meta |-> [by |-> a.number,
             status |-> IF a.outcome = "malformed" THEN "failed" ELSE a.outcome]]

\* Mutant: any operational failure settles the job.
FinishedWithoutRetry(r, a, w) ==
  IF a.outcome # "failed" THEN Completed(r, a) ELSE Exhausted(r)

\* What finish writes back for an attempt that still holds the lease.
Finished(r, a, w) ==
  IF a.outcome # "failed" THEN Completed(r, a)
  ELSE IF OutOfAttempts(r) THEN Exhausted(r)
  ELSE PutBack(r, w)

\* Mutant: the token is not compared, so a late worker overwrites its replacement.
HoldsLeaseByState(r, a) == r.state = "running"

HoldsLease(r, a) == r.state = "running" /\ r.token = a.token

-----------------------------------------------------------------------------
Init ==
  /\ rec = [k \in Keys |-> Absent]
  /\ issued = 0
  /\ pc = [w \in Workers |-> "idle"]
  /\ cand = [w \in Workers |-> {}]
  /\ att = [w \in Workers |-> NoAttempt]

\* Mutant: enqueueing a settled identity starts it over.
EnqueueAgain(k) ==
  /\ rec[k].state \in {"absent", "complete", "error"}
  /\ rec' = [rec EXCEPT ![k] = NewRecord(Web)]
  /\ UNCHANGED <<issued, pc, cand, att>>

\* Enqueue saves a new identity once; any record already there stays as it is.
Enqueue(k) ==
  /\ rec[k] = Absent
  /\ rec' = [rec EXCEPT ![k] = NewRecord(Web)]
  /\ UNCHANGED <<issued, pc, cand, att>>

\* Where ProcessNext's caller goes when no job was worked on, or the lease was lost:
\* Run polls again, `worker -once` ends.
AfterNothing(w) == IF w \in OnceWorkers THEN "exited" ELSE "idle"

DueKeys(w) == {k \in Keys : Due(rec[k], w)}

Scan(w) ==
  /\ pc[w] = "idle"
  /\ \E c \in SUBSET DueKeys(w) :
       /\ Cardinality(c) = Min({Batch, Cardinality(DueKeys(w))})
       /\ c # {}
       /\ cand' = [cand EXCEPT ![w] = c]
  /\ pc' = [pc EXCEPT ![w] = "claiming"]
  /\ UNCHANGED <<rec, issued, att>>

\* Mutant: `worker -once` polls on like Run.
ScanNothingPolls(w) == pc[w] = "idle" /\ DueKeys(w) = {} /\ UNCHANGED vars

\* A `worker -once` whose scan finds nothing due ends; Run sleeps and polls again.
ScanNothing(w) ==
  /\ pc[w] = "idle"
  /\ w \in OnceWorkers
  /\ DueKeys(w) = {}
  /\ pc' = [pc EXCEPT ![w] = "exited"]
  /\ UNCHANGED <<rec, issued, cand, att>>

\* The candidate was taken, settled or given a later due time since the scan.
SkipKey(w, k) ==
  /\ pc[w] = "claiming"
  /\ k \in cand[w]
  /\ ~Due(rec[k], w)
  /\ cand' = [cand EXCEPT ![w] = @ \ {k}]
  /\ pc' = [pc EXCEPT ![w] = IF cand[w] = {k} THEN AfterNothing(w) ELSE @]
  /\ UNCHANGED <<rec, issued, att>>

\* Mutant: the token does not tell one claim from another.
SameToken == 1

NextToken == issued + 1

Claim(w, k) ==
  /\ pc[w] = "claiming"
  /\ k \in cand[w]
  /\ Due(rec[k], w)
  /\ ~OutOfAttempts(rec[k])
  /\ issued' = NextToken
  /\ rec' = [rec EXCEPT ![k] = Claimed(rec[k], w, NextToken)]
  /\ att' = [att EXCEPT ![w] = [key |-> k, token |-> NextToken,
                                number |-> rec[k].attempts + 1, healthy |-> TRUE,
                                elapsed |-> 0, outcome |-> "none"]]
  /\ pc' = [pc EXCEPT ![w] = "inspecting"]
  /\ cand' = [cand EXCEPT ![w] = {}]

\* The final attempt's lease expired: the job is settled without another inspection.
GiveUp(w, k) ==
  /\ pc[w] = "claiming"
  /\ k \in cand[w]
  /\ Due(rec[k], w)
  /\ OutOfAttempts(rec[k])
  /\ rec' = [rec EXCEPT ![k] = Exhausted(rec[k])]
  /\ pc' = [pc EXCEPT ![w] = "idle"]
  /\ cand' = [cand EXCEPT ![w] = {}]
  /\ UNCHANGED <<issued, att>>

\* The inspector returns: evidence, malformed contents, or a failure, which includes
\* its own timeout and the cancellation of a worker that is shutting down.
Inspect(w) ==
  /\ pc[w] = "inspecting"
  /\ \E o \in Outcomes : att' = [att EXCEPT ![w].outcome = o]
  /\ pc' = [pc EXCEPT ![w] = "finishing"]
  /\ UNCHANGED <<rec, issued, cand>>

Finish(w) ==
  /\ pc[w] = "finishing"
  /\ HoldsLease(rec[att[w].key], att[w])
  /\ rec' = [rec EXCEPT ![att[w].key] = Finished(@, att[w], w)]
  /\ pc' = [pc EXCEPT ![w] = "idle"]
  /\ att' = [att EXCEPT ![w] = NoAttempt]
  /\ UNCHANGED <<issued, cand>>

LeaseLost(w) ==
  /\ pc[w] = "finishing"
  /\ ~HoldsLease(rec[att[w].key], att[w])
  /\ pc' = [pc EXCEPT ![w] = AfterNothing(w)]
  /\ att' = [att EXCEPT ![w] = NoAttempt]
  /\ UNCHANGED <<rec, issued, cand>>

\* The process is killed, told to stop between jobs, or ended by a store error.
Stop(w) ==
  /\ pc[w] \notin {"down", "exited"}
  /\ pc' = [pc EXCEPT ![w] = "down"]
  /\ cand' = [cand EXCEPT ![w] = {}]
  /\ att' = [att EXCEPT ![w] = NoAttempt]
  /\ UNCHANGED <<rec, issued>>

Start(w) ==
  /\ pc[w] \in {"down", "exited"}
  /\ pc' = [pc EXCEPT ![w] = "idle"]
  /\ UNCHANGED <<rec, issued, cand, att>>

Busy(w) == pc[w] \in {"inspecting", "finishing"}
Healthy(w) == Busy(w) /\ att[w].healthy

\* The attempt overruns: the process is suspended, or its inspector does not return
\* when its context ends.  From here on nothing bounds how late it finishes.
Stall(w) ==
  /\ Healthy(w)
  /\ att' = [att EXCEPT ![w].healthy = FALSE, ![w].elapsed = 0]
  /\ UNCHANGED <<rec, issued, pc, cand>>

Later(r) == IF r = Absent \/ r.left = 0 THEN r ELSE [r EXCEPT !.left = @ - 1]

\* Time passes, but never beyond the point where a healthy attempt has been timed out
\* (context.WithTimeout) and its result saved.
Tick ==
  /\ \A w \in Workers : Healthy(w) => att[w].elapsed < AttemptTimeout + StoreTime
  /\ rec' = [k \in Keys |-> Later(rec[k])]
  /\ att' = [w \in Workers |-> IF Healthy(w) THEN [att[w] EXCEPT !.elapsed = @ + 1]
                               ELSE att[w]]
  /\ UNCHANGED <<issued, pc, cand>>

ClaimStep(w) == \E k \in Keys : SkipKey(w, k) \/ Claim(w, k) \/ GiveUp(w, k)

WorkerStep(w) ==
  \/ Scan(w) \/ ScanNothing(w) \/ ClaimStep(w)
  \/ Inspect(w) \/ Finish(w) \/ LeaseLost(w)
  \/ Stop(w) \/ Start(w) \/ Stall(w)

Next ==
  \/ \E k \in Keys : Enqueue(k)
  \/ \E w \in Workers : WorkerStep(w)
  \/ Tick

Spec == Init /\ [][Next]_vars

-----------------------------------------------------------------------------
(* Safety *)

TypeOK ==
  /\ rec \in [Keys -> Record \cup {Absent}]
  /\ issued \in Nat
  /\ pc \in [Workers -> {"idle", "claiming", "inspecting", "finishing", "down", "exited"}]
  /\ cand \in [Workers -> SUBSET Keys]
  /\ att \in [Workers -> Attempt \cup {NoAttempt}]

\* No two workers ever hold the lease of the same record, however often leases
\* expire, workers overrun and processes die: a claim's token is never another's.
OneLeaseHolder ==
  \A v, w \in Workers :
    /\ Busy(v) /\ Busy(w)
    /\ att[v].key = att[w].key
    /\ HoldsLease(rec[att[v].key], att[v])
    /\ HoldsLease(rec[att[w].key], att[w])
    => v = w

\* The evidence the web process serves was produced by the most recent claim of the
\* record: a worker whose lease was replaced never writes over its replacement.
EvidenceFromLastAttempt ==
  \A k \in Keys :
    rec[k].state = "complete" =>
      rec[k].meta.by = rec[k].attempts /\ rec[k].meta.status # "none"

\* A record is settled as exhausted only after the last attempt was really made, and
\* it then serves no evidence.
ExhaustedOnlyAfterLastAttempt ==
  \A k \in Keys :
    rec[k].state = "error" => rec[k].attempts = MaxAttempts /\ rec[k].meta = NoMeta

\* An attempt that keeps to its timeout cannot lose its lease to a worker whose clock
\* is ahead by less than the margin: its result is always accepted.
HealthyAttemptKeepsLease ==
  \A w \in Workers : Healthy(w) => HoldsLease(rec[att[w].key], att[w])

\* `worker -once` drains the due jobs: when it ends after an attempt, none is due.
OnceDrains ==
  [][\A w \in OnceWorkers :
       pc[w] = "finishing" /\ pc'[w] = "exited" => DueKeys(w) = {}]_vars

-----------------------------------------------------------------------------
(* The inductive invariant behind the four above *)

\* What each state of a record implies for its token, attempts and evidence.
RecordsCoherent ==
  \A k \in Keys : rec[k] # Absent =>
    /\ rec[k].token <= issued
    /\ rec[k].state = "queued" => rec[k].attempts = 0
    /\ rec[k].state = "running" => rec[k].attempts > 0
    /\ rec[k].state = "retry" => rec[k].attempts < MaxAttempts
    /\ rec[k].state = "error" => rec[k].attempts = MaxAttempts
    /\ IF rec[k].state = "complete"
         THEN rec[k].meta.by = rec[k].attempts /\ rec[k].meta.status # "none"
         ELSE rec[k].meta = NoMeta

\* An attempt in hand has a token that was drawn, and while it holds the lease it is
\* the record's latest attempt.
AttemptsCoherent ==
  \A w \in Workers : Busy(w) =>
    /\ att[w] \in Attempt
    /\ att[w].token \in 1 .. issued
    /\ pc[w] = "finishing" => att[w].outcome # "none"
    /\ HoldsLease(rec[att[w].key], att[w]) => rec[att[w].key].attempts = att[w].number

TokensDiffer ==
  \A v, w \in Workers : Busy(v) /\ Busy(w) /\ v # w => att[v].token # att[w].token

\* A healthy attempt's lease has run down by no more than the time it has taken.
LeaseCoversAttempt ==
  \A w \in Workers : Healthy(w) =>
    /\ HoldsLease(rec[att[w].key], att[w])
    /\ att[w].elapsed <= AttemptTimeout + StoreTime
    /\ rec[att[w].key].left >= LeaseDuration + Skew[w] - att[w].elapsed

IndInv ==
  TypeOK /\ RecordsCoherent /\ AttemptsCoherent /\ TokensDiffer /\ LeaseCoversAttempt

-----------------------------------------------------------------------------
(* What the queue promises, as a refinement *)

StatusOf(r) ==
  CASE r.state = "absent"              -> "none"
    [] r.state \in {"queued", "retry"} -> "waiting"
    [] OTHER                           -> r.state

TriesOf(r) == IF r = Absent THEN 0 ELSE r.attempts
EvidenceOf(r) == IF r = Absent THEN 0 ELSE r.meta.by

JobStatus == [k \in Keys |-> StatusOf(rec[k])]
JobTries == [k \in Keys |-> TriesOf(rec[k])]
JobEvidence == [k \in Keys |-> EvidenceOf(rec[k])]

Jobs == INSTANCE ScanJobs WITH
  status <- JobStatus, tries <- JobTries, evidence <- JobEvidence

\* Every step of the queue is a step of the job life cycle: a settled job never moves
\* again, whatever is enqueued, claimed or finished late, and attempts are counted.
ImplementsJobs == Jobs!Spec

-----------------------------------------------------------------------------
(* Liveness *)

\* Run's workers keep polling, a dead worker is restarted, the inspector returns and
\* the store answers often enough: a scan and a claim that can be made again and
\* again are made (SF), since each restart may end in another failure before them.
Fairness ==
  /\ WF_vars(Tick)
  /\ \A w \in Workers :
       /\ WF_vars(Inspect(w))
       /\ WF_vars(Finish(w))
       /\ WF_vars(LeaseLost(w))
       /\ WF_vars(ScanNothing(w))
       /\ WF_vars(w \notin OnceWorkers /\ Start(w))
       /\ SF_vars(Scan(w))
       /\ SF_vars(ClaimStep(w))

FairSpec == Spec /\ Fairness

\* Every enqueued job is settled in the end, with evidence or as exhausted, although
\* workers die at any point and attempts overrun.
EveryJobSettles == \A k \in Keys : rec[k] # Absent ~> Terminal(rec[k])

\* `worker -once` ends: it does not wait for retries and is not kept busy for ever.
OnceEnds ==
  \A w \in OnceWorkers : pc[w] = "idle" ~> pc[w] \in {"exited", "down"}
=============================================================================
