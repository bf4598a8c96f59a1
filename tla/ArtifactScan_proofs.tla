------------------------ MODULE ArtifactScan_proofs ------------------------
(***************************************************************************)
(* Proofs about the artifact scan queue, for every set of identities and   *)
(* workers and every value of the time constants with a lease margin.      *)
(***************************************************************************)
EXTENDS ArtifactScan, TLAPS

\* Facts about the constants in the form the steps below use.
LEMMA ConstantFacts ==
  /\ \A p \in Workers : Skew[p] \in Nat
  /\ Skew[Web] \in Nat
  /\ LeaseDuration \in Nat /\ AttemptTimeout \in Nat /\ StoreTime \in Nat
  /\ RetryDelay \in Nat /\ MaxAttempts \in Nat \ {0}
  BY ScanConstants DEF Processes

\* A record written by any operation of the store is a record: NewRecord, Claimed,
\* Exhausted and Finished keep the types the fields have in store.go.
LEMMA BackoffIsNat ==
  ASSUME NEW n \in 1 .. MaxAttempts
  PROVE  RetryDelay * 2 ^ (n - 1) \in Nat
<1>1. 2 ^ (n - 1) \in Nat
  BY ScanConstants
<1>. DEFINE b == 2 ^ (n - 1)
<1>2. b \in Nat
  BY <1>1
<1>. HIDE DEF b
<1>3. RetryDelay * b \in Nat
  BY <1>2, ConstantFacts
<1>. QED
  BY <1>3 DEF b

LEMMA NewRecordType == NewRecord(Web) \in Record
  BY ConstantFacts DEF NewRecord, Record, NoToken, NoMeta, Metadata

LEMMA ClaimedType ==
  ASSUME NEW r \in Record, r.attempts < MaxAttempts, NEW w \in Workers, NEW t \in Nat
  PROVE  Claimed(r, w, t) \in Record
  BY ConstantFacts DEF Claimed, Record, NoMeta, Metadata

LEMMA ExhaustedType ==
  ASSUME NEW r \in Record
  PROVE  Exhausted(r) \in Record
  BY ConstantFacts DEF Exhausted, Record, NoToken, NoMeta, Metadata

LEMMA FinishedType ==
  ASSUME NEW r \in Record, r.attempts > 0, NEW w \in Workers,
         NEW a \in Attempt, a.outcome # "none"
  PROVE  Finished(r, a, w) \in Record
<1>1. Completed(r, a) \in Record \/ a.outcome = "failed"
  BY ConstantFacts DEF Completed, Record, NoToken, Metadata, Attempt, Outcomes
<1>2. Exhausted(r) \in Record
  BY ExhaustedType
<1>3. PutBack(r, w) \in Record
  <2>1. r.attempts \in 1 .. MaxAttempts
    BY ConstantFacts DEF Record
  <2>2. RetryDelay * 2 ^ (r.attempts - 1) + Skew[w] \in Nat
    BY <2>1, BackoffIsNat, ConstantFacts
  <2>. QED
    BY <2>1, <2>2, ConstantFacts DEF PutBack, Record, NoToken, NoMeta, Metadata
<1>. QED
  BY <1>1, <1>2, <1>3 DEF Finished

-----------------------------------------------------------------------------
(* The inductive invariant *)

\* Nothing is stored, issued or in hand at the start.
LEMMA InitEstablishesIndInv == Init => IndInv
  BY DEF Init, IndInv, TypeOK, RecordsCoherent, AttemptsCoherent, TokensDiffer,
         LeaseCoversAttempt, Healthy, Busy

\* Enqueue: no attempt is about a record that was absent.
LEMMA EnqueueKeepsIndInv ==
  ASSUME IndInv, NEW k \in Keys, Enqueue(k)
  PROVE  IndInv'
<1>. USE DEF Enqueue, IndInv, Busy, Healthy
<1>1. TypeOK'
  BY NewRecordType DEF TypeOK
<1>2. rec'[k] = NewRecord(Web) /\ \A j \in Keys : j # k => rec'[j] = rec[j]
  BY DEF TypeOK
<1>3. RecordsCoherent'
  BY <1>1, <1>2 DEF RecordsCoherent, NewRecord, NoMeta, NoToken, TypeOK
<1>4. \A w \in Workers : Busy(w) => ~HoldsLease(rec'[k], att[w])
  BY <1>2 DEF HoldsLease, NewRecord
<1>5. \A w \in Workers : Healthy(w) => att[w].key # k /\ att[w].key \in Keys
  BY DEF LeaseCoversAttempt, AttemptsCoherent, HoldsLease, Absent, Attempt
<1>6. AttemptsCoherent'
  BY <1>2, <1>4 DEF AttemptsCoherent, Attempt
<1>7. TokensDiffer' /\ LeaseCoversAttempt'
  BY <1>2, <1>5 DEF TokensDiffer, LeaseCoversAttempt
<1>. QED
  BY <1>1, <1>3, <1>6, <1>7

\* Scans and skipped candidates touch no record and no attempt.
LEMMA ScanKeepsIndInv ==
  ASSUME IndInv, NEW w \in Workers,
         Scan(w) \/ ScanNothing(w) \/ \E k \in Keys : SkipKey(w, k)
  PROVE  IndInv'
<1>. USE DEF IndInv
<1>1. TypeOK'
  BY DEF TypeOK, Scan, ScanNothing, SkipKey, DueKeys, AfterNothing
<1>2. UNCHANGED <<rec, issued, att>>
  BY DEF Scan, ScanNothing, SkipKey
<1>3. \A v \in Workers : Busy(v)' => Busy(v) /\ pc'[v] = pc[v]
  BY DEF Scan, ScanNothing, SkipKey, Busy, AfterNothing, TypeOK
<1>. QED
  BY <1>1, <1>2, <1>3
     DEF RecordsCoherent, AttemptsCoherent, TokensDiffer, LeaseCoversAttempt, Healthy

\* While a healthy attempt is in hand no worker finds its record due: the lease has
\* run down by at most the time the attempt may take, and the margin covers clocks.
LEMMA HealthyRecordNotDue ==
  ASSUME IndInv, NEW v \in Workers, Healthy(v), NEW w \in Workers
  PROVE  ~Due(rec[att[v].key], w)
<1>1. rec[att[v].key] \in Record
  BY DEF IndInv, LeaseCoversAttempt, AttemptsCoherent, Healthy, TypeOK, HoldsLease,
         Absent, Attempt
<1>2. att[v].elapsed \in Nat
  BY DEF IndInv, AttemptsCoherent, Healthy, Attempt
<1>3. /\ rec[att[v].key].left >= LeaseDuration + Skew[v] - att[v].elapsed
      /\ att[v].elapsed <= AttemptTimeout + StoreTime
  BY DEF IndInv, LeaseCoversAttempt
<1>4. Skew[w] - Skew[v] < LeaseDuration - AttemptTimeout - StoreTime
  BY LeaseMargin
<1>5. rec[att[v].key].left \in Nat
  BY <1>1 DEF Record
<1>. QED
  BY <1>2, <1>3, <1>4, <1>5, ConstantFacts DEF Due

\* Claim: the new token was never drawn before, the record it replaces is not one a
\* healthy attempt is working on, and the claimer starts with a full lease.
LEMMA ClaimKeepsIndInv ==
  ASSUME IndInv, NEW w \in Workers, NEW k \in Keys, Claim(w, k)
  PROVE  IndInv'
<1>. USE DEF IndInv
<1>1. /\ rec[k] \in Record
      /\ rec[k].attempts \in Nat /\ rec[k].attempts < MaxAttempts
      /\ issued \in Nat
  <2>1. rec[k] \in Record /\ issued \in Nat
    BY DEF Claim, NextToken, TypeOK, Due, Absent
  <2>. QED
    BY <2>1, ConstantFacts DEF Claim, NextToken, OutOfAttempts, Record
<1>. DEFINE a == [key |-> k, token |-> issued + 1, number |-> rec[k].attempts + 1,
                  healthy |-> TRUE, elapsed |-> 0, outcome |-> "none"]
            r == Claimed(rec[k], w, issued + 1)
<1>2. a \in Attempt
  BY <1>1, ConstantFacts DEF Attempt
<1>3. r \in Record
  BY <1>1, ClaimedType
<1>4. /\ rec'[k] = r /\ \A j \in Keys : j # k => rec'[j] = rec[j]
      /\ att'[w] = a /\ \A v \in Workers : v # w => att'[v] = att[v]
      /\ pc'[w] = "inspecting" /\ \A v \in Workers : v # w => pc'[v] = pc[v]
      /\ issued' = issued + 1
  BY DEF Claim, NextToken, TypeOK
<1>5. r.state = "running" /\ r.token = issued + 1 /\ r.attempts = rec[k].attempts + 1
      /\ r.left = LeaseDuration + Skew[w] /\ r.meta = NoMeta
  BY DEF Claimed
<1>. HIDE DEF a, r
<1>6. TypeOK'
  BY <1>1, <1>2, <1>3 DEF TypeOK, Claim, NextToken, a, r
<1>7. RecordsCoherent'
  BY <1>1, <1>4, <1>5 DEF RecordsCoherent, TypeOK, Record, Absent
<1>8. \A v \in Workers : v # w /\ Busy(v)' =>
        Busy(v) /\ att[v].token \in 1 .. issued /\ att[v] \in Attempt
  BY <1>4 DEF Busy, AttemptsCoherent
<1>9. \A v \in Workers : v # w /\ Busy(v)' => ~HoldsLease(r, att[v])
  BY <1>1, <1>5, <1>8 DEF HoldsLease
<1>10. a.key = k /\ a.token = issued + 1 /\ a.number = rec[k].attempts + 1
       /\ a.elapsed = 0 /\ a.healthy = TRUE
  BY DEF a
<1>11. AttemptsCoherent'
  <2>. SUFFICES ASSUME NEW v \in Workers, Busy(v)'
                PROVE  /\ att'[v] \in Attempt
                       /\ att'[v].token \in 1 .. issued'
                       /\ pc'[v] = "finishing" => att'[v].outcome # "none"
                       /\ HoldsLease(rec'[att'[v].key], att'[v])
                            => rec'[att'[v].key].attempts = att'[v].number
    BY DEF AttemptsCoherent
  <2>1. CASE v = w
    BY <2>1, <1>1, <1>2, <1>4, <1>5, <1>10 DEF HoldsLease
  <2>2. CASE v # w /\ att[v].key = k
    BY <2>2, <1>1, <1>4, <1>8, <1>9 DEF AttemptsCoherent
  <2>3. CASE v # w /\ att[v].key # k
    BY <2>3, <1>1, <1>4, <1>8 DEF AttemptsCoherent, Attempt
  <2>. QED
    BY <2>1, <2>2, <2>3
<1>12. TokensDiffer'
  BY <1>1, <1>4, <1>8, <1>10 DEF TokensDiffer
<1>13. LeaseCoversAttempt'
  <2>. SUFFICES ASSUME NEW v \in Workers, Healthy(v)'
                PROVE  /\ HoldsLease(rec'[att'[v].key], att'[v])
                       /\ att'[v].elapsed <= AttemptTimeout + StoreTime
                       /\ rec'[att'[v].key].left
                            >= LeaseDuration + Skew[v] - att'[v].elapsed
    BY DEF LeaseCoversAttempt
  <2>1. CASE v = w
    BY <2>1, <1>4, <1>5, <1>10, ConstantFacts DEF HoldsLease
  <2>2. CASE v # w
    <3>1. Healthy(v) /\ att[v].key \in Keys
      BY <2>2, <1>4, <1>8 DEF Healthy, Attempt
    <3>2. att[v].key # k
      BY <3>1, HealthyRecordNotDue DEF Claim
    <3>. QED
      BY <2>2, <1>4, <3>1, <3>2 DEF LeaseCoversAttempt
  <2>. QED
    BY <2>1, <2>2
<1>. QED
  BY <1>6, <1>7, <1>11, <1>12, <1>13

\* GiveUp: the record whose last lease ran out belongs to no healthy attempt.
LEMMA GiveUpKeepsIndInv ==
  ASSUME IndInv, NEW w \in Workers, NEW k \in Keys, GiveUp(w, k)
  PROVE  IndInv'
<1>. USE DEF IndInv
<1>1. rec[k] \in Record /\ rec[k].attempts = MaxAttempts
  <2>1. rec[k] \in Record
    BY DEF GiveUp, TypeOK, Due, Absent
  <2>. QED
    BY <2>1, ConstantFacts DEF GiveUp, OutOfAttempts, Record
<1>2. /\ rec'[k] = Exhausted(rec[k]) /\ \A j \in Keys : j # k => rec'[j] = rec[j]
      /\ \A v \in Workers : Busy(v)' => Busy(v) /\ pc'[v] = pc[v]
      /\ UNCHANGED <<issued, att>>
  BY DEF GiveUp, TypeOK, Busy
<1>3. TypeOK'
  BY <1>1, ExhaustedType DEF TypeOK, GiveUp
<1>4. RecordsCoherent'
  BY <1>1, <1>2 DEF RecordsCoherent, Exhausted, NoToken, TypeOK
<1>5. \A a \in Attempt : ~HoldsLease(rec'[k], a)
  BY <1>2 DEF HoldsLease, Exhausted
<1>6. AttemptsCoherent'
  BY <1>2, <1>5 DEF AttemptsCoherent, Attempt
<1>7. \A v \in Workers : Healthy(v)' => Healthy(v) /\ att[v].key # k /\ att[v].key \in Keys
  BY <1>2, HealthyRecordNotDue DEF Healthy, GiveUp, AttemptsCoherent, Attempt
<1>8. TokensDiffer' /\ LeaseCoversAttempt'
  BY <1>2, <1>7 DEF TokensDiffer, LeaseCoversAttempt
<1>. QED
  BY <1>3, <1>4, <1>6, <1>8

LEMMA InspectKeepsIndInv ==
  ASSUME IndInv, NEW w \in Workers, Inspect(w)
  PROVE  IndInv'
<1>. USE DEF IndInv
<1>1. PICK o \in Outcomes : att' = [att EXCEPT ![w].outcome = o]
  BY DEF Inspect
<1>2. att[w] \in Attempt /\ Busy(w)
  BY DEF Inspect, AttemptsCoherent, Busy
<1>3. att'[w] = [att[w] EXCEPT !.outcome = o]
  BY <1>1 DEF TypeOK
<1>4. /\ \A v \in Workers : v # w => att'[v] = att[v]
      /\ pc'[w] = "finishing" /\ \A v \in Workers : v # w => pc'[v] = pc[v]
      /\ UNCHANGED <<rec, issued>>
  BY <1>1 DEF Inspect, TypeOK
<1>5. /\ att'[w] \in Attempt /\ att'[w].outcome = o
      /\ att'[w].key = att[w].key /\ att'[w].token = att[w].token
      /\ att'[w].number = att[w].number /\ att'[w].healthy = att[w].healthy
      /\ att'[w].elapsed = att[w].elapsed
  BY <1>2, <1>3 DEF Attempt
<1>6. o # "none"
  BY DEF Outcomes
<1>7. \A v \in Workers : (Busy(v)' => Busy(v)) /\ (Healthy(v)' => Healthy(v))
  BY <1>2, <1>4, <1>5 DEF Busy, Healthy
<1>8. TypeOK'
  BY <1>1, <1>5 DEF TypeOK, Inspect
<1>9. RecordsCoherent'
  BY <1>4 DEF RecordsCoherent
<1>10. AttemptsCoherent'
  BY <1>4, <1>5, <1>6, <1>7 DEF AttemptsCoherent, HoldsLease
<1>11. TokensDiffer'
  BY <1>4, <1>5, <1>7 DEF TokensDiffer
<1>12. LeaseCoversAttempt'
  BY <1>4, <1>5, <1>7 DEF LeaseCoversAttempt, HoldsLease
<1>. QED
  BY <1>8, <1>9, <1>10, <1>11, <1>12

\* Finish writes only over the record whose lease the attempt holds, and by
\* TokensDiffer that is no other worker's.
LEMMA FinishKeepsIndInv ==
  ASSUME IndInv, NEW w \in Workers, Finish(w)
  PROVE  IndInv'
<1>. USE DEF IndInv
<1>. DEFINE k == att[w].key
            r == Finished(rec[k], att[w], w)
<1>1. /\ Busy(w) /\ att[w] \in Attempt /\ att[w].outcome # "none" /\ k \in Keys
      /\ HoldsLease(rec[k], att[w]) /\ rec[k].attempts = att[w].number
  BY DEF Finish, AttemptsCoherent, Busy, Attempt
<1>2. rec[k] \in Record /\ rec[k].attempts > 0 /\ rec[k].attempts <= MaxAttempts
  BY <1>1, ConstantFacts DEF TypeOK, RecordsCoherent, HoldsLease, Absent, Record
<1>3. r \in Record
  BY <1>1, <1>2, FinishedType
<1>4. /\ rec'[k] = r /\ \A j \in Keys : j # k => rec'[j] = rec[j]
      /\ \A v \in Workers : Busy(v)' => Busy(v) /\ v # w
      /\ \A v \in Workers : v # w => att'[v] = att[v] /\ pc'[v] = pc[v]
      /\ UNCHANGED issued
  BY <1>1 DEF Finish, TypeOK, Busy
<1>5. r.state # "running" /\ r.token = NoToken /\ r.attempts = rec[k].attempts
  BY DEF Finished, Completed, Exhausted, PutBack
<1>6. /\ r.state # "queued"
      /\ r.state = "retry" => r.attempts < MaxAttempts
      /\ r.state = "error" => r.attempts = MaxAttempts
      /\ IF r.state = "complete" THEN r.meta.by = r.attempts /\ r.meta.status # "none"
                                 ELSE r.meta = NoMeta
  BY <1>1, <1>2, ConstantFacts
     DEF Finished, OutOfAttempts, Completed, Exhausted, PutBack, Record, Attempt, Outcomes
<1>. HIDE DEF r
<1>7. TypeOK'
  BY <1>1, <1>3 DEF TypeOK, Finish, r
<1>8. RecordsCoherent'
  <2>. SUFFICES ASSUME NEW j \in Keys, rec'[j] # Absent
                PROVE  /\ rec'[j].token <= issued'
                       /\ rec'[j].state = "queued" => rec'[j].attempts = 0
                       /\ rec'[j].state = "running" => rec'[j].attempts > 0
                       /\ rec'[j].state = "retry" => rec'[j].attempts < MaxAttempts
                       /\ rec'[j].state = "error" => rec'[j].attempts = MaxAttempts
                       /\ IF rec'[j].state = "complete"
                            THEN rec'[j].meta.by = rec'[j].attempts
                                 /\ rec'[j].meta.status # "none"
                            ELSE rec'[j].meta = NoMeta
    BY DEF RecordsCoherent
  <2>1. CASE j = k
    <3>1. NoToken <= issued' /\ rec'[j] = r
      BY <2>1, <1>4 DEF NoToken, TypeOK
    <3>. QED
      BY <3>1, <1>5, <1>6
  <2>2. CASE j # k
    BY <2>2, <1>4 DEF RecordsCoherent
  <2>. QED
    BY <2>1, <2>2
<1>9. \A a \in Attempt : ~HoldsLease(r, a)
  BY <1>5 DEF HoldsLease
<1>10. AttemptsCoherent'
  BY <1>4, <1>9 DEF AttemptsCoherent, Attempt
<1>11. TokensDiffer'
  BY <1>4 DEF TokensDiffer
<1>12. \A v \in Workers : Healthy(v)' => Healthy(v) /\ v # w /\ att[v].key # k
  <2>. SUFFICES ASSUME NEW v \in Workers, Healthy(v)'
                PROVE  Healthy(v) /\ v # w /\ att[v].key # k
    OBVIOUS
  <2>1. Busy(v) /\ v # w /\ Healthy(v)
    BY <1>4 DEF Healthy
  <2>2. HoldsLease(rec[att[v].key], att[v]) /\ att[v].token # att[w].token
    BY <2>1, <1>1 DEF LeaseCoversAttempt, TokensDiffer
  <2>. QED
    BY <2>1, <2>2, <1>1 DEF HoldsLease
<1>13. LeaseCoversAttempt'
  BY <1>4, <1>12 DEF LeaseCoversAttempt, AttemptsCoherent, Healthy, Attempt
<1>. QED
  BY <1>7, <1>8, <1>10, <1>11, <1>13

\* A worker that drops its attempt, dies, starts or overruns changes no record and
\* can only make fewer attempts busy or healthy.
LEMMA WorkerOnlyKeepsIndInv ==
  ASSUME IndInv, NEW w \in Workers, LeaseLost(w) \/ Stop(w) \/ Start(w)
  PROVE  IndInv'
<1>. USE DEF IndInv
<1>1. TypeOK'
  BY DEF TypeOK, LeaseLost, Stop, Start, AfterNothing
<1>2. /\ \A v \in Workers : Busy(v)' => Busy(v) /\ v # w
      /\ \A v \in Workers : v # w => att'[v] = att[v] /\ pc'[v] = pc[v]
      /\ UNCHANGED <<rec, issued>>
  BY DEF LeaseLost, Stop, Start, AfterNothing, TypeOK, Busy
<1>3. RecordsCoherent' /\ AttemptsCoherent' /\ TokensDiffer' /\ LeaseCoversAttempt'
  BY <1>2 DEF RecordsCoherent, AttemptsCoherent, TokensDiffer, LeaseCoversAttempt, Healthy
<1>. QED
  BY <1>1, <1>3

LEMMA StallKeepsIndInv ==
  ASSUME IndInv, NEW w \in Workers, Stall(w)
  PROVE  IndInv'
<1>. USE DEF IndInv
<1>1. att[w] \in Attempt /\ Busy(w)
  BY DEF Stall, Healthy, AttemptsCoherent
<1>2. att'[w] = [key |-> att[w].key, token |-> att[w].token, number |-> att[w].number,
                healthy |-> FALSE, elapsed |-> 0, outcome |-> att[w].outcome]
  <2>1. att' = [att EXCEPT ![w].healthy = FALSE, ![w].elapsed = 0]
    BY DEF Stall
  <2>2. att'[w] = [[att[w] EXCEPT !.healthy = FALSE] EXCEPT !.elapsed = 0]
    BY <2>1 DEF TypeOK
  <2>. QED
    BY <1>1, <2>2 DEF Attempt
<1>3. /\ att'[w] \in Attempt /\ att'[w].healthy = FALSE
      /\ att'[w].key = att[w].key /\ att'[w].token = att[w].token
      /\ att'[w].number = att[w].number /\ att'[w].outcome = att[w].outcome
  BY <1>1, <1>2 DEF Attempt
<1>4. /\ \A v \in Workers : v # w => att'[v] = att[v]
      /\ UNCHANGED <<rec, issued, pc>>
  BY DEF Stall, TypeOK
<1>5. \A v \in Workers : (Busy(v)' <=> Busy(v)) /\ (Healthy(v)' => Healthy(v) /\ v # w)
  BY <1>3, <1>4 DEF Busy, Healthy
<1>6. TypeOK'
  BY <1>3 DEF TypeOK, Stall
<1>7. RecordsCoherent'
  BY <1>4 DEF RecordsCoherent
<1>8. AttemptsCoherent'
  BY <1>1, <1>3, <1>4, <1>5 DEF AttemptsCoherent, HoldsLease
<1>9. TokensDiffer'
  BY <1>3, <1>4, <1>5 DEF TokensDiffer
<1>10. LeaseCoversAttempt'
  BY <1>4, <1>5 DEF LeaseCoversAttempt
<1>. QED
  BY <1>6, <1>7, <1>8, <1>9, <1>10

\* A tick takes one unit from every lease and adds it to every healthy attempt.
LEMMA TickKeepsIndInv ==
  ASSUME IndInv, Tick
  PROVE  IndInv'
<1>. USE DEF IndInv
<1>1. \A r \in Record : /\ Later(r) \in Record
                        /\ Later(r).state = r.state /\ Later(r).attempts = r.attempts
                        /\ Later(r).token = r.token /\ Later(r).meta = r.meta
                        /\ Later(r).left >= r.left - 1
  BY DEF Later, Record
<1>2. Later(Absent) = Absent
  BY DEF Later
<1>3. \A k \in Keys : rec'[k] = Later(rec[k])
  BY DEF Tick
<1>4. \A k \in Keys : rec[k] = Absent \/ rec[k] \in Record
  BY DEF TypeOK
<1>5. \A w \in Workers : Busy(w) =>
        /\ att'[w] \in Attempt
        /\ att'[w].key = att[w].key /\ att'[w].token = att[w].token
        /\ att'[w].number = att[w].number /\ att'[w].outcome = att[w].outcome
        /\ att'[w].healthy = att[w].healthy
        /\ att[w].healthy => att'[w].elapsed = att[w].elapsed + 1
  BY DEF Tick, AttemptsCoherent, Attempt, Healthy
<1>6. \A w \in Workers : ~Busy(w) => att'[w] = att[w]
  BY DEF Tick, Healthy
<1>7. \A w \in Workers : (Busy(w)' <=> Busy(w)) /\ (Healthy(w)' <=> Healthy(w))
  BY <1>5 DEF Tick, Busy, Healthy
<1>8. TypeOK'
  <2>1. rec' \in [Keys -> Record \cup {Absent}]
    BY <1>1, <1>2, <1>4 DEF Tick
  <2>2. att' \in [Workers -> Attempt \cup {NoAttempt}]
    BY <1>5, <1>6 DEF Tick, TypeOK
  <2>. QED
    BY <2>1, <2>2 DEF Tick, TypeOK
<1>9. RecordsCoherent'
  <2>1. \A k \in Keys : rec'[k] # Absent =>
          /\ rec[k] # Absent
          /\ rec'[k].state = rec[k].state /\ rec'[k].attempts = rec[k].attempts
          /\ rec'[k].token = rec[k].token /\ rec'[k].meta = rec[k].meta
    BY <1>1, <1>2, <1>3, <1>4
  <2>. QED
    BY <2>1 DEF RecordsCoherent, Tick
<1>10. \A w \in Workers : Busy(w) =>
         (HoldsLease(rec[att[w].key], att[w]) <=> HoldsLease(rec'[att[w].key], att'[w]))
  BY <1>1, <1>2, <1>3, <1>4, <1>5 DEF HoldsLease, AttemptsCoherent, Attempt, Absent
<1>11. AttemptsCoherent'
  <2>. SUFFICES ASSUME NEW w \in Workers, Busy(w)
                PROVE  /\ att'[w] \in Attempt
                       /\ att'[w].token \in 1 .. issued'
                       /\ pc'[w] = "finishing" => att'[w].outcome # "none"
                       /\ HoldsLease(rec'[att'[w].key], att'[w])
                            => rec'[att'[w].key].attempts = att'[w].number
    BY <1>7 DEF AttemptsCoherent
  <2>1. att[w].key \in Keys
    BY DEF AttemptsCoherent, Attempt
  <2>2. HoldsLease(rec[att[w].key], att[w])
          => rec'[att[w].key].attempts = rec[att[w].key].attempts
    BY <1>1, <1>3, <1>4, <2>1 DEF HoldsLease, Absent
  <2>. QED
    BY <1>5, <1>10, <2>1, <2>2 DEF AttemptsCoherent, Tick
<1>12. TokensDiffer'
  BY <1>5, <1>7 DEF TokensDiffer
<1>13. LeaseCoversAttempt'
  <2>. SUFFICES ASSUME NEW w \in Workers, Healthy(w)
                PROVE  /\ HoldsLease(rec'[att'[w].key], att'[w])
                       /\ att'[w].elapsed <= AttemptTimeout + StoreTime
                       /\ rec'[att'[w].key].left
                            >= LeaseDuration + Skew[w] - att'[w].elapsed
    BY <1>7 DEF LeaseCoversAttempt
  <2>1. /\ att[w].key \in Keys /\ att[w].elapsed \in Nat /\ Busy(w)
        /\ att'[w].key = att[w].key /\ att'[w].elapsed = att[w].elapsed + 1
    BY <1>5 DEF Healthy, AttemptsCoherent, Attempt
  <2>2. HoldsLease(rec[att[w].key], att[w]) /\ rec[att[w].key] \in Record
    BY <1>4, <2>1 DEF LeaseCoversAttempt, HoldsLease, Absent
  <2>3. rec'[att[w].key].left >= rec[att[w].key].left - 1
        /\ rec'[att[w].key].left \in Nat /\ rec[att[w].key].left \in Nat
    BY <1>1, <1>3, <2>1, <2>2 DEF Record
  <2>4. att[w].elapsed < AttemptTimeout + StoreTime
    BY DEF Tick
  <2>. QED
    BY <1>10, <2>1, <2>2, <2>3, <2>4, ConstantFacts DEF LeaseCoversAttempt
<1>. QED
  BY <1>8, <1>9, <1>11, <1>12, <1>13

LEMMA NextKeepsIndInv == IndInv /\ [Next]_vars => IndInv'
<1>. SUFFICES ASSUME IndInv, [Next]_vars PROVE IndInv'
  OBVIOUS
<1>1. CASE \E k \in Keys : Enqueue(k)
  BY <1>1, EnqueueKeepsIndInv
<1>2. ASSUME NEW w \in Workers, WorkerStep(w) PROVE IndInv'
  <2>1. CASE Scan(w) \/ ScanNothing(w)
    BY <2>1, ScanKeepsIndInv
  <2>2. CASE ClaimStep(w)
    BY <2>2, ScanKeepsIndInv, ClaimKeepsIndInv, GiveUpKeepsIndInv DEF ClaimStep
  <2>3. CASE Inspect(w)
    BY <2>3, InspectKeepsIndInv
  <2>4. CASE Finish(w)
    BY <2>4, FinishKeepsIndInv
  <2>5. CASE LeaseLost(w) \/ Stop(w) \/ Start(w)
    BY <2>5, WorkerOnlyKeepsIndInv
  <2>6. CASE Stall(w)
    BY <2>6, StallKeepsIndInv
  <2>. QED
    BY <1>2, <2>1, <2>2, <2>3, <2>4, <2>5, <2>6 DEF WorkerStep
<1>3. CASE Tick
  BY <1>3, TickKeepsIndInv
<1>4. CASE UNCHANGED vars
  BY <1>4 DEF vars, IndInv, TypeOK, RecordsCoherent, AttemptsCoherent, TokensDiffer,
              LeaseCoversAttempt, Healthy, Busy
<1>. QED
  BY <1>1, <1>2, <1>3, <1>4 DEF Next

\* Every reachable state of the queue satisfies the inductive invariant.
THEOREM SpecIndInv == Spec => []IndInv
  BY InitEstablishesIndInv, NextKeepsIndInv, PTL DEF Spec

-----------------------------------------------------------------------------
(* The theorems *)

\* Records, tokens, worker positions and attempts keep their types.
THEOREM TypeCorrect == Spec => []TypeOK
<1>1. IndInv => TypeOK
  BY DEF IndInv
<1>. QED
  BY <1>1, SpecIndInv, PTL

\* At most one worker holds the lease of a record, whatever the clocks show.
THEOREM LeaseIsExclusive == Spec => []OneLeaseHolder
<1>1. IndInv => OneLeaseHolder
  BY DEF IndInv, OneLeaseHolder, TokensDiffer, HoldsLease
<1>. QED
  BY <1>1, SpecIndInv, PTL

\* Served evidence comes from the last claim of its record.
THEOREM EvidenceIsFromLastAttempt == Spec => []EvidenceFromLastAttempt
<1>1. IndInv => EvidenceFromLastAttempt
  BY DEF IndInv, EvidenceFromLastAttempt, RecordsCoherent, Absent
<1>. QED
  BY <1>1, SpecIndInv, PTL

\* A job is exhausted only after MaxAttempts attempts, and serves no evidence.
THEOREM ExhaustionIsEarned == Spec => []ExhaustedOnlyAfterLastAttempt
<1>1. IndInv => ExhaustedOnlyAfterLastAttempt
  BY DEF IndInv, ExhaustedOnlyAfterLastAttempt, RecordsCoherent, Absent
<1>. QED
  BY <1>1, SpecIndInv, PTL

\* Under LeaseMargin an attempt that keeps to its timeout keeps its lease.
THEOREM HealthyAttemptsAreSafe == Spec => []HealthyAttemptKeepsLease
<1>1. IndInv => HealthyAttemptKeepsLease
  BY DEF IndInv, HealthyAttemptKeepsLease, LeaseCoversAttempt
<1>. QED
  BY <1>1, SpecIndInv, PTL

-----------------------------------------------------------------------------
(* Refinement: the queue implements the job life cycle of ScanJobs *)

\* The mapped state, before and after a step, is what the records map to.
LEMMA JobFunctions ==
  /\ JobStatus = [k \in Keys |-> StatusOf(rec[k])]
  /\ JobTries = [k \in Keys |-> TriesOf(rec[k])]
  /\ JobEvidence = [k \in Keys |-> EvidenceOf(rec[k])]
  /\ JobStatus' = [k \in Keys |-> StatusOf(rec'[k])]
  /\ JobTries' = [k \in Keys |-> TriesOf(rec'[k])]
  /\ JobEvidence' = [k \in Keys |-> EvidenceOf(rec'[k])]
  BY DEF JobStatus, JobTries, JobEvidence, StatusOf, TriesOf, EvidenceOf

\* A step that leaves what is mapped of every record is a stutter of the life cycle.
LEMMA SameJobsIsStutter ==
  ASSUME \A k \in Keys : /\ StatusOf(rec'[k]) = StatusOf(rec[k])
                         /\ TriesOf(rec'[k]) = TriesOf(rec[k])
                         /\ EvidenceOf(rec'[k]) = EvidenceOf(rec[k])
  PROVE  UNCHANGED Jobs!vars
<1>1. JobStatus' = JobStatus
  BY JobFunctions
<1>2. JobTries' = JobTries
  BY JobFunctions
<1>3. JobEvidence' = JobEvidence
  BY JobFunctions
<1>. QED
  BY <1>1, <1>2, <1>3 DEF Jobs!vars

\* A step that writes the record of k alone writes what it maps to for k alone.
LEMMA OneRecordWritten ==
  ASSUME NEW k \in Keys, \A j \in Keys : j # k => rec'[j] = rec[j]
  PROVE  /\ JobStatus[k] = StatusOf(rec[k])
         /\ JobTries[k] = TriesOf(rec[k])
         /\ JobEvidence[k] = EvidenceOf(rec[k])
         /\ JobStatus' = [JobStatus EXCEPT ![k] = StatusOf(rec'[k])]
         /\ JobTries' = [JobTries EXCEPT ![k] = TriesOf(rec'[k])]
         /\ JobEvidence' = [JobEvidence EXCEPT ![k] = EvidenceOf(rec'[k])]
         /\ TriesOf(rec'[k]) = TriesOf(rec[k]) => JobTries' = JobTries
         /\ EvidenceOf(rec'[k]) = EvidenceOf(rec[k]) => JobEvidence' = JobEvidence
<1>1. JobStatus' = [JobStatus EXCEPT ![k] = StatusOf(rec'[k])]
  BY JobFunctions
<1>2. JobTries' = [JobTries EXCEPT ![k] = TriesOf(rec'[k])]
  BY JobFunctions
<1>3. JobEvidence' = [JobEvidence EXCEPT ![k] = EvidenceOf(rec'[k])]
  BY JobFunctions
<1>4. /\ JobStatus[k] = StatusOf(rec[k]) /\ JobTries[k] = TriesOf(rec[k])
      /\ JobEvidence[k] = EvidenceOf(rec[k])
  BY JobFunctions
<1>5. TriesOf(rec'[k]) = TriesOf(rec[k]) => JobTries' = JobTries
  BY JobFunctions
<1>6. EvidenceOf(rec'[k]) = EvidenceOf(rec[k]) => JobEvidence' = JobEvidence
  BY JobFunctions
<1>. QED
  BY <1>1, <1>2, <1>3, <1>4, <1>5, <1>6

LEMMA InitImplementsJobs == Init => Jobs!Init
  BY DEF Init, Jobs!Init, JobStatus, JobTries, JobEvidence,
         StatusOf, TriesOf, EvidenceOf, Absent

\* Enqueue is Submit, Claim is Try, GiveUp is Exhaust; Finish is Succeed, PutBack or
\* Exhaust; every other step is a stutter.
LEMMA StepImplementsJobs == IndInv /\ [Next]_vars => [Jobs!Next]_(Jobs!vars)
<1>. SUFFICES ASSUME IndInv, [Next]_vars PROVE [Jobs!Next]_(Jobs!vars)
  OBVIOUS
<1>0. TypeOK
  BY DEF IndInv
<1>1. ASSUME NEW k \in Keys, Enqueue(k) PROVE Jobs!Submit(k)
  <2>1. /\ rec[k] = Absent /\ rec'[k] = NewRecord(Web)
        /\ \A j \in Keys : j # k => rec'[j] = rec[j]
    BY <1>0, <1>1 DEF Enqueue, TypeOK
  <2>2. /\ StatusOf(rec[k]) = "none" /\ TriesOf(rec[k]) = 0 /\ EvidenceOf(rec[k]) = 0
        /\ StatusOf(NewRecord(Web)) = "waiting" /\ TriesOf(NewRecord(Web)) = 0
        /\ EvidenceOf(NewRecord(Web)) = 0
    BY <2>1 DEF StatusOf, TriesOf, EvidenceOf, NewRecord, NoMeta, Absent
  <2>. QED
    BY <1>0, <2>1, <2>2, OneRecordWritten DEF Jobs!Submit
<1>2. ASSUME NEW w \in Workers, NEW k \in Keys, Claim(w, k) PROVE Jobs!Try(k)
  <2>1. /\ rec'[k] = Claimed(rec[k], w, issued + 1)
        /\ \A j \in Keys : j # k => rec'[j] = rec[j]
        /\ rec[k].state \in {"queued", "retry", "running"}
        /\ rec[k] \in Record /\ rec[k].attempts < MaxAttempts /\ rec[k] # Absent
    BY <1>2, <1>0, ConstantFacts DEF Claim, NextToken, Due, OutOfAttempts, TypeOK, Absent, Record
  <2>2. /\ StatusOf(rec[k]) \in {"waiting", "running"}
        /\ TriesOf(rec[k]) = rec[k].attempts /\ EvidenceOf(rec[k]) = 0
    BY <2>1 DEF StatusOf, TriesOf, EvidenceOf, IndInv, RecordsCoherent, NoMeta
  <2>3. /\ StatusOf(Claimed(rec[k], w, issued + 1)) = "running"
        /\ TriesOf(Claimed(rec[k], w, issued + 1)) = rec[k].attempts + 1
        /\ EvidenceOf(Claimed(rec[k], w, issued + 1)) = 0
    BY DEF StatusOf, TriesOf, EvidenceOf, Claimed, NoMeta, Absent
  <2>4. JobTries[k] \in Nat /\ MaxAttempts \in Nat
    BY <1>0, <2>1, <2>2, ConstantFacts, OneRecordWritten DEF Record
  <2>. QED
    BY <1>0, <2>1, <2>2, <2>3, <2>4, OneRecordWritten DEF Jobs!Try
<1>3. ASSUME NEW w \in Workers, NEW k \in Keys, GiveUp(w, k) PROVE Jobs!Exhaust(k)
  <2>1. /\ rec'[k] = Exhausted(rec[k])
        /\ \A j \in Keys : j # k => rec'[j] = rec[j]
        /\ rec[k].attempts = MaxAttempts /\ rec[k] # Absent
        /\ rec[k].state \in {"queued", "retry", "running"}
    <3>1. rec[k] # Absent /\ rec[k] \in Record
      BY <1>3, <1>0 DEF GiveUp, Due, TypeOK, Absent
    <3>2. rec[k].attempts = MaxAttempts
      BY <1>3, <3>1, ConstantFacts DEF GiveUp, OutOfAttempts, Record
    <3>3. rec'[k] = Exhausted(rec[k]) /\ \A j \in Keys : j # k => rec'[j] = rec[j]
      BY <1>3, <1>0 DEF GiveUp, TypeOK
    <3>. QED
      BY <1>3, <3>1, <3>2, <3>3 DEF GiveUp, Due
  <2>2. rec[k].state = "running"
    BY <2>1, ConstantFacts DEF IndInv, RecordsCoherent
  <2>3. /\ StatusOf(rec[k]) = "running" /\ TriesOf(rec[k]) = MaxAttempts
        /\ EvidenceOf(rec[k]) = 0
    BY <2>1, <2>2 DEF StatusOf, TriesOf, EvidenceOf, IndInv, RecordsCoherent, NoMeta
  <2>4. /\ StatusOf(Exhausted(rec[k])) = "error"
        /\ TriesOf(Exhausted(rec[k])) = MaxAttempts /\ EvidenceOf(Exhausted(rec[k])) = 0
    BY <2>1 DEF StatusOf, TriesOf, EvidenceOf, Exhausted, NoMeta, Absent
  <2>. QED
    BY <1>0, <2>1, <2>3, <2>4, OneRecordWritten DEF Jobs!Exhaust
<1>4. ASSUME NEW w \in Workers, Finish(w)
      PROVE  LET k == att[w].key
             IN  k \in Keys /\ (Jobs!Succeed(k) \/ Jobs!PutBack(k) \/ Jobs!Exhaust(k))
  <2>. DEFINE k == att[w].key
              r == Finished(rec[k], att[w], w)
  <2>1. /\ k \in Keys /\ att[w] \in Attempt /\ rec[k] # Absent /\ rec[k] \in Record
        /\ rec[k].state = "running" /\ rec[k].attempts = att[w].number
        /\ rec[k].attempts <= MaxAttempts
    BY <1>0, <1>4, ConstantFacts
       DEF Finish, IndInv, AttemptsCoherent, Busy, HoldsLease, TypeOK, Absent, Attempt, Record
  <2>2. rec'[k] = r /\ \A j \in Keys : j # k => rec'[j] = rec[j]
    BY <1>0, <1>4, <2>1 DEF Finish, TypeOK
  <2>3. /\ StatusOf(rec[k]) = "running" /\ TriesOf(rec[k]) = rec[k].attempts
        /\ EvidenceOf(rec[k]) = 0
    BY <2>1 DEF StatusOf, TriesOf, EvidenceOf, IndInv, RecordsCoherent, NoMeta
  <2>4. /\ JobStatus[k] = "running" /\ JobTries[k] = rec[k].attempts
        /\ JobStatus' = [JobStatus EXCEPT ![k] = StatusOf(r)]
        /\ TriesOf(r) = rec[k].attempts => JobTries' = JobTries
        /\ JobEvidence' = [JobEvidence EXCEPT ![k] = EvidenceOf(r)]
        /\ EvidenceOf(r) = 0 => JobEvidence' = JobEvidence
    <3>. HIDE DEF k, r
    <3>. QED
      BY <1>0, <2>1, <2>2, <2>3, OneRecordWritten
  <2>5. TriesOf(r) = rec[k].attempts
    BY <2>1 DEF TriesOf, Finished, Completed, Exhausted, PutBack, Absent
  <2>6. CASE att[w].outcome # "failed"
    <3>1. StatusOf(r) = "complete" /\ EvidenceOf(r) = rec[k].attempts
      BY <2>1, <2>6 DEF StatusOf, EvidenceOf, Finished, Completed, Absent
    <3>. HIDE DEF k, r
    <3>2. Jobs!Succeed(k)
      BY <2>1, <2>3, <2>4, <2>5, <3>1 DEF Jobs!Succeed
    <3>. QED
      BY <2>1, <3>2 DEF k
  <2>7. CASE att[w].outcome = "failed" /\ rec[k].attempts >= MaxAttempts
    <3>1. StatusOf(r) = "error" /\ EvidenceOf(r) = 0
      BY <2>7 DEF StatusOf, EvidenceOf, Finished, OutOfAttempts, Exhausted, NoMeta, Absent
    <3>2. rec[k].attempts = MaxAttempts
      BY <2>1, <2>7, ConstantFacts DEF Record
    <3>. HIDE DEF k, r
    <3>3. Jobs!Exhaust(k)
      BY <2>1, <2>3, <2>4, <2>5, <3>1, <3>2 DEF Jobs!Exhaust
    <3>. QED
      BY <2>1, <3>3 DEF k
  <2>8. CASE att[w].outcome = "failed" /\ ~(rec[k].attempts >= MaxAttempts)
    <3>1. StatusOf(r) = "waiting" /\ EvidenceOf(r) = 0
      BY <2>8 DEF StatusOf, EvidenceOf, Finished, OutOfAttempts, PutBack, NoMeta, Absent
    <3>2. rec[k].attempts < MaxAttempts
      BY <2>1, <2>8, ConstantFacts DEF Record
    <3>. HIDE DEF k, r
    <3>3. Jobs!PutBack(k)
      BY <2>1, <2>3, <2>4, <2>5, <3>1, <3>2 DEF Jobs!PutBack
    <3>. QED
      BY <2>1, <3>3 DEF k
  <2>. QED
    BY <2>6, <2>7, <2>8
<1>5. CASE Tick
  <2>1. \A r \in Record : /\ Later(r).state = r.state /\ Later(r).attempts = r.attempts
                          /\ Later(r).meta = r.meta /\ Later(r) # Absent /\ r # Absent
    BY DEF Later, Record, Absent
  <2>2. \A k \in Keys : rec'[k] = Later(rec[k]) /\ rec[k] \in Record \cup {Absent}
    BY <1>0, <1>5 DEF Tick, TypeOK
  <2>3. Later(Absent) = Absent
    BY DEF Later
  <2>4. \A k \in Keys : /\ StatusOf(rec'[k]) = StatusOf(rec[k])
                        /\ TriesOf(rec'[k]) = TriesOf(rec[k])
                        /\ EvidenceOf(rec'[k]) = EvidenceOf(rec[k])
    BY <2>1, <2>2, <2>3 DEF StatusOf, TriesOf, EvidenceOf
  <2>. QED
    BY <2>4, SameJobsIsStutter
<1>6. CASE UNCHANGED rec
  BY <1>6, SameJobsIsStutter
<1>. QED
  <2>1. ASSUME NEW w \in Workers, WorkerStep(w)
        PROVE  \/ UNCHANGED rec
               \/ Finish(w)
               \/ \E k \in Keys : Claim(w, k) \/ GiveUp(w, k)
    BY <2>1 DEF WorkerStep, Scan, ScanNothing, ClaimStep, SkipKey, Inspect, LeaseLost,
                Stop, Start, Stall
  <2>2. (\E k \in Keys : Jobs!Submit(k) \/ Jobs!Advance(k)) => Jobs!Next
    BY DEF Jobs!Next
  <2>. QED
    BY <1>1, <1>2, <1>3, <1>4, <1>5, <1>6, <2>1, <2>2 DEF Next, vars, Jobs!Advance

\* The queue, with its leases, clocks, crashes and late workers, implements the job
\* life cycle: at most MaxAttempts attempts, final endings, evidence from the last one.
THEOREM QueueImplementsJobs == Spec => ImplementsJobs
  BY InitImplementsJobs, StepImplementsJobs, SpecIndInv, PTL
     DEF Spec, ImplementsJobs, Jobs!Spec

-----------------------------------------------------------------------------
(* Jobs come to an end *)

\* How far a record is from its end: two stages for each attempt it has left, waiting
\* for it and making it.
Stage(r) ==
  CASE r.state \in {"complete", "error"} -> 0
    [] r.state = "running" -> 2 * (MaxAttempts - r.attempts) + 1
    [] OTHER -> 2 * (MaxAttempts - r.attempts)

\* s is nearer to its end than r: at a later stage, or at the same with less to wait.
Nearer(s, r) == Stage(s) < Stage(r) \/ (Stage(s) = Stage(r) /\ s.left < r.left)

JobGoesOn(k) == rec[k] # Absent => rec'[k] = rec[k] \/ Nearer(rec'[k], rec[k])

\* Longer than every delay the store writes: a lease and a retry's backoff, on any clock.
Outlasts(B) ==
  \A p \in Processes :
    /\ LeaseDuration + Skew[p] <= B
    /\ \A n \in 1 .. MaxAttempts : RetryDelay * 2 ^ (n - 1) + Skew[p] <= B

\* A settled record has no due time.
SettledHasNoDue == \A k \in Keys : rec[k] # Absent /\ Terminal(rec[k]) => rec[k].left = 0

\* An unsettled record is due on every clock within B ticks, and has a stage left then.
FallsDue(B) ==
  \A k \in Keys : rec[k] # Absent =>
    /\ rec[k].left \in 0 .. B
    /\ Terminal(rec[k]) \/ Stage(rec[k]) \in 1 .. 2 * MaxAttempts

LEMMA StageIs ==
  ASSUME IndInv, NEW k \in Keys, rec[k] # Absent
  PROVE  /\ rec[k] \in Record
         /\ Stage(rec[k]) \in 0 .. 2 * MaxAttempts
         /\ Terminal(rec[k]) <=> Stage(rec[k]) = 0
<1>1. rec[k] \in Record
  BY DEF IndInv, TypeOK
<1>2. rec[k].attempts \in 0 .. MaxAttempts /\ rec[k].state \in {"queued", "running", "retry", "complete", "error"}
  BY <1>1 DEF Record
<1>3. /\ rec[k].state = "queued" => rec[k].attempts = 0
      /\ rec[k].state = "running" => rec[k].attempts > 0
      /\ rec[k].state = "retry" => rec[k].attempts < MaxAttempts
  BY DEF IndInv, RecordsCoherent
<1>. QED
  BY <1>1, <1>2, <1>3, ConstantFacts DEF Stage, Terminal

\* What each step writes to a record that is there.
LEMMA RecordStep ==
  ASSUME IndInv, [Next]_vars, NEW k \in Keys, rec[k] # Absent
  PROVE  \/ rec'[k] = rec[k]
         \/ rec[k].left > 0 /\ rec'[k] = [rec[k] EXCEPT !.left = @ - 1]
         \/ \E w \in Workers : /\ rec'[k] = Claimed(rec[k], w, NextToken)
                              /\ ~Terminal(rec[k]) /\ rec[k].attempts < MaxAttempts
         \/ rec'[k] = Exhausted(rec[k]) /\ ~Terminal(rec[k])
         \/ \E w \in Workers : /\ rec'[k] = Finished(rec[k], att[w], w)
                              /\ rec[k].state = "running" /\ rec[k].attempts > 0
<1>t. rec[k] \in Record /\ rec[k].attempts \in 0 .. MaxAttempts /\ rec[k].left \in Nat
  BY StageIs DEF Record
<1>1. ASSUME NEW j \in Keys, Enqueue(j) PROVE rec'[k] = rec[k]
  BY <1>1 DEF Enqueue, IndInv, TypeOK
<1>2. CASE Tick
  BY <1>2, <1>t DEF Tick, Later
<1>3. ASSUME NEW w \in Workers, NEW j \in Keys, Claim(w, j)
      PROVE  \/ rec'[k] = rec[k]
             \/ /\ rec'[k] = Claimed(rec[k], w, NextToken)
                /\ ~Terminal(rec[k]) /\ rec[k].attempts < MaxAttempts
  BY <1>3, <1>t, ConstantFacts DEF Claim, Due, Terminal, OutOfAttempts, IndInv, TypeOK
<1>4. ASSUME NEW w \in Workers, NEW j \in Keys, GiveUp(w, j)
      PROVE  rec'[k] = rec[k] \/ (rec'[k] = Exhausted(rec[k]) /\ ~Terminal(rec[k]))
  <2>1. rec' = [rec EXCEPT ![j] = Exhausted(rec[j])] /\ ~Terminal(rec[j])
    BY <1>4 DEF GiveUp, Due, Terminal
  <2>. QED
    BY <2>1 DEF IndInv, TypeOK
<1>5. ASSUME NEW w \in Workers, Finish(w)
      PROVE  \/ rec'[k] = rec[k]
             \/ /\ rec'[k] = Finished(rec[k], att[w], w)
                /\ rec[k].state = "running" /\ rec[k].attempts > 0
  BY <1>5 DEF Finish, HoldsLease, IndInv, TypeOK, RecordsCoherent
<1>6. ASSUME NEW w \in Workers, WorkerStep(w)
      PROVE  \/ UNCHANGED rec \/ Finish(w) \/ \E j \in Keys : Claim(w, j) \/ GiveUp(w, j)
  BY <1>6 DEF WorkerStep, Scan, ScanNothing, ClaimStep, SkipKey, Inspect, LeaseLost, Stop, Start, Stall
<1>. QED
  BY <1>1, <1>2, <1>3, <1>4, <1>5, <1>6 DEF Next, vars

\* A record that is not there is written by an enqueue alone.
LEMMA AbsentStep ==
  ASSUME IndInv, [Next]_vars, NEW k \in Keys, rec[k] = Absent, rec'[k] # Absent
  PROVE  rec'[k] = NewRecord(Web)
<1>1. ASSUME NEW j \in Keys, Enqueue(j) PROVE rec'[k] = NewRecord(Web)
  BY <1>1 DEF Enqueue, IndInv, TypeOK
<1>2. CASE Tick
  BY <1>2 DEF Tick, Later
<1>3. ASSUME NEW w \in Workers, NEW j \in Keys, Claim(w, j) \/ GiveUp(w, j) PROVE rec'[k] = Absent
  BY <1>3 DEF Claim, GiveUp, Due, Absent, IndInv, TypeOK
<1>4. ASSUME NEW w \in Workers, Finish(w) PROVE rec'[k] = Absent
  BY <1>4 DEF Finish, HoldsLease, Absent, IndInv, TypeOK
<1>5. ASSUME NEW w \in Workers, WorkerStep(w)
      PROVE  \/ UNCHANGED rec \/ Finish(w) \/ \E j \in Keys : Claim(w, j) \/ GiveUp(w, j)
  BY <1>5 DEF WorkerStep, Scan, ScanNothing, ClaimStep, SkipKey, Inspect, LeaseLost, Stop, Start, Stall
<1>. QED
  BY <1>1, <1>2, <1>3, <1>4, <1>5 DEF Next, vars

\* What the writes bring nearer, and what they leave to wait.
LEMMA WriteNearer ==
  ASSUME NEW r \in Record, NEW w \in Workers, NEW t, NEW a
  PROVE  /\ ~Terminal(r) /\ r.attempts < MaxAttempts => Stage(Claimed(r, w, t)) < Stage(r)
         /\ ~Terminal(r) /\ Stage(r) > 0 => Stage(Exhausted(r)) < Stage(r)
         /\ r.state = "running" => Stage(Finished(r, a, w)) < Stage(r)
<1>1. r.attempts \in 0 .. MaxAttempts
  BY DEF Record
<1>2. ~Terminal(r) /\ r.attempts < MaxAttempts => Stage(Claimed(r, w, t)) < Stage(r)
  BY <1>1, ConstantFacts DEF Terminal, Stage, Claimed
<1>3. Stage(Exhausted(r)) = 0 /\ Stage(Completed(r, a)) = 0
  BY DEF Stage, Exhausted, Completed
<1>4. r.state = "running" => Stage(r) = 2 * (MaxAttempts - r.attempts) + 1 /\ Stage(r) > 0
  BY <1>1, ConstantFacts DEF Stage
<1>5. Stage(PutBack(r, w)) = 2 * (MaxAttempts - r.attempts)
  BY DEF Stage, PutBack
<1>6. Finished(r, a, w) \in {Completed(r, a), Exhausted(r), PutBack(r, w)}
  BY DEF Finished
<1>7. r.state = "running" => Stage(Finished(r, a, w)) < Stage(r)
  BY <1>1, <1>3, <1>4, <1>5, <1>6, ConstantFacts
<1>. QED
  BY <1>2, <1>3, <1>7

LEMMA JobsGoOn == IndInv /\ [Next]_vars => \A k \in Keys : JobGoesOn(k)
<1>. SUFFICES ASSUME IndInv, [Next]_vars, NEW k \in Keys, rec[k] # Absent
              PROVE  rec'[k] = rec[k] \/ Nearer(rec'[k], rec[k])
  BY DEF JobGoesOn
<1>1. rec[k] \in Record /\ Stage(rec[k]) \in 0 .. 2 * MaxAttempts /\ (Terminal(rec[k]) <=> Stage(rec[k]) = 0)
  BY StageIs
<1>2. CASE rec[k].left > 0 /\ rec'[k] = [rec[k] EXCEPT !.left = @ - 1]
  BY <1>1, <1>2 DEF Nearer, Stage, Record
<1>3. ASSUME NEW w \in Workers, rec'[k] = Claimed(rec[k], w, NextToken),
             ~Terminal(rec[k]), rec[k].attempts < MaxAttempts
      PROVE  Nearer(rec'[k], rec[k])
  BY <1>1, <1>3, WriteNearer DEF Nearer
<1>4. CASE rec'[k] = Exhausted(rec[k]) /\ ~Terminal(rec[k])
  BY <1>1, <1>4, ConstantFacts DEF Nearer, Stage, Exhausted
<1>5. ASSUME NEW w \in Workers, rec'[k] = Finished(rec[k], att[w], w), rec[k].state = "running"
      PROVE  Nearer(rec'[k], rec[k])
  BY <1>1, <1>5, WriteNearer DEF Nearer
<1>. QED
  BY <1>2, <1>3, <1>4, <1>5, RecordStep

\* The safety half of EveryJobSettles.  Nothing sets a job back: each write to the record
\* of an enqueued job, by whichever worker and however late, spends one of the two stages
\* of an attempt or a tick of its wait, and there are at most 2 * MaxAttempts stages.
THEOREM JobsOnlyAdvance == Spec => [][\A k \in Keys : JobGoesOn(k)]_vars
<1>1. IndInv /\ [Next]_vars => [\A k \in Keys : JobGoesOn(k)]_vars
  BY JobsGoOn
<1>. QED
  BY <1>1, SpecIndInv, PTL DEF Spec

LEMMA SettledStep == IndInv /\ SettledHasNoDue /\ [Next]_vars => SettledHasNoDue'
<1>. SUFFICES ASSUME IndInv, SettledHasNoDue, [Next]_vars, NEW k \in Keys,
                     rec'[k] # Absent, Terminal(rec'[k])
              PROVE  rec'[k].left = 0
  BY DEF SettledHasNoDue, Terminal
<1>1. CASE rec[k] = Absent
  <2>1. rec'[k] = NewRecord(Web)
    BY <1>1, AbsentStep
  <2>. QED
    BY <2>1 DEF NewRecord, Terminal
<1>2. CASE rec[k] # Absent
  <2>1. CASE rec'[k] = rec[k]
    BY <1>2, <2>1 DEF SettledHasNoDue
  <2>2. CASE rec[k].left > 0 /\ rec'[k] = [rec[k] EXCEPT !.left = @ - 1]
    <3>1. rec[k] \in Record /\ rec'[k].state = rec[k].state
      BY <1>2, <2>2, StageIs DEF Record
    <3>2. rec[k].left = 0
      BY <1>2, <3>1 DEF SettledHasNoDue, Terminal
    <3>. QED
      BY <2>2, <3>2
  <2>3. ASSUME NEW w \in Workers, rec'[k] = Claimed(rec[k], w, NextToken) PROVE FALSE
    BY <2>3 DEF Claimed, Terminal
  <2>4. CASE rec'[k] = Exhausted(rec[k])
    BY <2>4 DEF Exhausted
  <2>5. ASSUME NEW w \in Workers, rec'[k] = Finished(rec[k], att[w], w) PROVE rec'[k].left = 0
    BY <2>5 DEF Finished, Completed, Exhausted, PutBack, Terminal
  <2>. QED
    BY <1>2, <2>1, <2>2, <2>3, <2>4, <2>5, RecordStep
<1>. QED
  BY <1>1, <1>2

\* A settled record is never written again: not by an enqueue of the same identity, a
\* claim from an old scan, or a worker that finishes late.
THEOREM SettledForGood == Spec => [][\A k \in Keys : Terminal(rec[k]) => rec'[k] = rec[k]]_vars
<1>1. Init => SettledHasNoDue
  BY DEF Init, SettledHasNoDue
<1>2. IndInv /\ SettledHasNoDue /\ [Next]_vars => [\A k \in Keys : Terminal(rec[k]) => rec'[k] = rec[k]]_vars
  <2>. SUFFICES ASSUME IndInv, SettledHasNoDue, [Next]_vars, NEW k \in Keys, Terminal(rec[k])
                PROVE  rec'[k] = rec[k]
    OBVIOUS
  <2>1. rec[k] # Absent
    BY DEF Terminal, Absent
  <2>2. rec[k].left = 0 /\ rec[k] \in Record
    BY <2>1, StageIs DEF SettledHasNoDue
  <2>3. ~(rec[k].left > 0)
    BY <2>2
  <2>4. rec[k].state # "running"
    BY DEF Terminal
  <2>. QED
    BY <2>1, <2>3, <2>4, RecordStep
<1>3. Init /\ []IndInv /\ [][Next]_vars => []SettledHasNoDue
  BY <1>1, SettledStep, PTL
<1>. QED
  BY <1>2, <1>3, SpecIndInv, PTL DEF Spec

LEMMA LeftStep ==
  ASSUME NEW B \in Nat, Outlasts(B)
  PROVE  IndInv /\ FallsDue(B) /\ IndInv' /\ [Next]_vars => FallsDue(B)'
<1>. SUFFICES ASSUME IndInv, FallsDue(B), IndInv', [Next]_vars, NEW k \in Keys, rec'[k] # Absent
              PROVE  rec'[k].left \in 0 .. B /\ (Terminal(rec'[k]) \/ Stage(rec'[k]) \in 1 .. 2 * MaxAttempts)
  BY DEF FallsDue, Terminal, Stage
<1>1. Terminal(rec'[k]) \/ Stage(rec'[k]) \in 1 .. 2 * MaxAttempts
  <2>1. rec'[k] \in Record
    BY DEF IndInv, TypeOK
  <2>2. rec'[k].attempts \in 0 .. MaxAttempts /\ rec'[k].state \in {"queued", "running", "retry", "complete", "error"}
    BY <2>1 DEF Record
  <2>3. /\ rec'[k].state = "queued" => rec'[k].attempts = 0
        /\ rec'[k].state = "running" => rec'[k].attempts > 0
        /\ rec'[k].state = "retry" => rec'[k].attempts < MaxAttempts
    BY DEF IndInv, RecordsCoherent
  <2>. QED
    BY <2>2, <2>3, ConstantFacts DEF Stage, Terminal
<1>o. \A p \in Processes : Skew[p] \in Nat /\ Skew[p] <= B /\ LeaseDuration + Skew[p] \in 0 .. B
  BY ConstantFacts DEF Outlasts, Processes
<1>2. rec'[k].left \in 0 .. B
  <2>1. CASE rec[k] = Absent
    <3>1. rec'[k] = NewRecord(Web)
      BY <2>1, AbsentStep
    <3>. QED
      BY <1>o, <3>1 DEF NewRecord, Processes
  <2>2. CASE rec[k] # Absent
    <3>t. rec[k] \in Record /\ rec[k].left \in 0 .. B
      BY <2>2, StageIs DEF FallsDue
    <3>1. CASE rec'[k] = rec[k]
      BY <3>1, <3>t
    <3>2. CASE rec[k].left > 0 /\ rec'[k] = [rec[k] EXCEPT !.left = @ - 1]
      BY <3>2, <3>t DEF Record
    <3>3. ASSUME NEW w \in Workers, rec'[k] = Claimed(rec[k], w, NextToken) PROVE rec'[k].left \in 0 .. B
      BY <1>o, <3>3 DEF Claimed, Processes
    <3>4. CASE rec'[k] = Exhausted(rec[k])
      BY <3>4 DEF Exhausted
    <3>5. ASSUME NEW w \in Workers, rec'[k] = Finished(rec[k], att[w], w), rec[k].attempts > 0
          PROVE  rec'[k].left \in 0 .. B
      <4>1. rec[k].attempts \in 1 .. MaxAttempts
        BY <3>t, <3>5, ConstantFacts DEF Record
      <4>2. PutBack(rec[k], w).left \in 0 .. B
        <5>. DEFINE d == RetryDelay * 2 ^ (rec[k].attempts - 1)
        <5>1. d \in Nat
          BY <4>1, BackoffIsNat
        <5>2. d + Skew[w] <= B
          BY <4>1 DEF Outlasts, Processes
        <5>3. PutBack(rec[k], w).left = d + Skew[w]
          BY DEF PutBack
        <5>. HIDE DEF d
        <5>. QED
          BY <1>o, <5>1, <5>2, <5>3 DEF Processes
      <4>3. Completed(rec[k], att[w]).left = 0 /\ Exhausted(rec[k]).left = 0
        BY DEF Completed, Exhausted
      <4>4. rec'[k] \in {Completed(rec[k], att[w]), Exhausted(rec[k]), PutBack(rec[k], w)}
        BY <3>5 DEF Finished
      <4>. QED
        BY <4>2, <4>3, <4>4
    <3>. QED
      BY <2>2, <3>1, <3>2, <3>3, <3>4, <3>5, RecordStep
  <2>. QED
    BY <2>1, <2>2
<1>. QED
  BY <1>1, <1>2

\* No job is lost: whatever a worker that died left behind, every record that is not
\* settled becomes due on every clock within the longest delay the store writes, a lease
\* or a backoff, and has an attempt or its end before it then.
THEOREM JobsFallDue ==
  ASSUME NEW B \in Nat, Outlasts(B)
  PROVE  Spec => []FallsDue(B)
<1>1. Init => FallsDue(B)
  BY DEF Init, FallsDue
<1>2. IndInv /\ FallsDue(B) /\ IndInv' /\ [Next]_vars => FallsDue(B)'
  BY LeftStep
<1>. QED
  BY <1>1, <1>2, SpecIndInv, PTL DEF Spec
=============================================================================
