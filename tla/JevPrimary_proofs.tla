------------------------- MODULE JevPrimary_proofs --------------------------
(***************************************************************************)
(* Proofs about Primary.Decide and Warm, for every number of calls, keys   *)
(* and slots and every limit of the breaker.                               *)
(***************************************************************************)
EXTENDS JevPrimary, FiniteSetTheorems, TLAPS

\* Where a goroutine that holds a slot can be.
Working == {"describing", "started", "running", "joined", "succeeded", "failed",
            "sending", "opening", "resetting", "exiting"}

PrimaryTypes ==
  /\ inFlight \in Nat
  /\ fails \in Nat
  /\ pc \in [Calls -> {"idle", "checking", "loading", "swapping", "waiting", "warming"}]
  /\ seen \in [Calls -> Nat]
  /\ bg \in [Calls -> Working \cup {"none"}]

\* A call on its way to a slot holds none, and what it is about to swap was below the
\* limit when it loaded it.
AdmittedBelowLimit ==
  \A c \in Calls :
    /\ pc[c] \in {"checking", "loading", "swapping"} => bg[c] = "none"
    /\ pc[c] = "swapping" => seen[c] < MaxInFlight

PrimaryInv ==
  /\ PrimaryTypes
  /\ AdmittedBelowLimit
  /\ SlotsMatchGoroutines
  /\ TripIsUnderWay

-----------------------------------------------------------------------------
(* Slots *)

LEMMA HoldersFinite == IsFiniteSet(Holders) /\ Cardinality(Holders) \in Nat
  BY FS_Subset, FS_CardinalityType, PrimaryConstants DEF Holders

\* A goroutine that begins takes one slot, one that ends gives one back.
LEMMA SlotTaken ==
  ASSUME PrimaryTypes, NEW c \in Calls, bg[c] = "none", NEW b \in Working, bg' = [bg EXCEPT ![c] = b]
  PROVE  Cardinality(Holders') = Cardinality(Holders) + 1
<1>1. Holders' = Holders \cup {c} /\ c \notin Holders
  BY DEF Holders, PrimaryTypes, Working
<1>. QED
  BY <1>1, HoldersFinite, FS_AddElement

LEMMA SlotReturned ==
  ASSUME PrimaryTypes, NEW c \in Calls, bg[c] # "none", bg' = [bg EXCEPT ![c] = "none"]
  PROVE  Cardinality(Holders') = Cardinality(Holders) - 1
<1>1. Holders' = Holders \ {c} /\ c \in Holders
  BY DEF Holders, PrimaryTypes
<1>. QED
  BY <1>1, HoldersFinite, FS_RemoveElement

\* A step after which the same goroutines work keeps the count of slots.
LEMMA SlotsKept ==
  ASSUME SlotsMatchGoroutines, inFlight' = inFlight, \A c \in Calls : bg'[c] = "none" <=> bg[c] = "none"
  PROVE  SlotsMatchGoroutines'
<1>1. Holders' = Holders
  BY DEF Holders
<1>. QED
  BY <1>1 DEF SlotsMatchGoroutines

-----------------------------------------------------------------------------
(* Steps *)

LEMMA InitInv == Init => PrimaryInv
<1>. SUFFICES ASSUME Init PROVE PrimaryInv
  OBVIOUS
<1>1. Holders = {}
  BY DEF Init, Holders
<1>2. SlotsMatchGoroutines
  BY <1>1, FS_EmptySet, PrimaryConstants DEF Init, SlotsMatchGoroutines
<1>3. PrimaryTypes /\ AdmittedBelowLimit /\ TripIsUnderWay
  BY PrimaryConstants DEF Init, PrimaryTypes, AdmittedBelowLimit, TripIsUnderWay
<1>. QED
  BY <1>2, <1>3 DEF PrimaryInv

\* Steps of a call before and after it holds a slot.
LEMMA WaitingKeepsInv ==
  ASSUME PrimaryInv, NEW c \in Calls,
         Ask(c) \/ CheckBreaker(c) \/ LoadInFlight(c) \/ LoseSwap(c) \/ GiveUp(c) \/ Answer(c)
  PROVE  PrimaryInv'
<1>1. UNCHANGED <<inFlight, fails, bg>>
  BY DEF Ask, CheckBreaker, LoadInFlight, LoseSwap, GiveUp, Answer
<1>2. PrimaryTypes' /\ AdmittedBelowLimit'
  BY PrimaryConstants DEF PrimaryInv, PrimaryTypes, AdmittedBelowLimit, Goto, AfterLostSwap,
     Ask, CheckBreaker, LoadInFlight, LoseSwap, GiveUp, Answer
<1>3. SlotsMatchGoroutines' /\ TripIsUnderWay'
  BY <1>1, SlotsKept DEF PrimaryInv, TripIsUnderWay
<1>. QED
  BY <1>2, <1>3 DEF PrimaryInv

\* The compare-and-swap admits only what it read: the count stays exact and bounded.
LEMMA AcquireKeepsInv ==
  ASSUME PrimaryInv, NEW c \in Calls, Acquire(c)
  PROVE  PrimaryInv'
<1>1. bg[c] = "none" /\ inFlight = seen[c] /\ seen[c] < MaxInFlight
  BY DEF PrimaryInv, AdmittedBelowLimit, Acquire, Swaps
<1>2. PrimaryTypes'
  BY <1>1 DEF PrimaryInv, PrimaryTypes, Acquire, Goto, Working
<1>3. AdmittedBelowLimit'
  BY DEF PrimaryInv, PrimaryTypes, AdmittedBelowLimit, Acquire, Goto
<1>4. SlotsMatchGoroutines'
  <2>1. Cardinality(Holders') = Cardinality(Holders) + 1
    BY <1>1, SlotTaken DEF PrimaryInv, Acquire, Working
  <2>2. inFlight' = inFlight + 1 /\ inFlight \in Nat /\ inFlight < MaxInFlight /\ MaxInFlight \in Nat
    BY <1>1, PrimaryConstants DEF PrimaryInv, PrimaryTypes, Acquire
  <2>3. inFlight = Cardinality(Holders)
    BY DEF PrimaryInv, SlotsMatchGoroutines
  <2>. QED
    BY <2>1, <2>2, <2>3 DEF SlotsMatchGoroutines
<1>5. TripIsUnderWay'
  BY <1>1 DEF PrimaryInv, PrimaryTypes, TripIsUnderWay, Acquire
<1>. QED
  BY <1>2, <1>3, <1>4, <1>5 DEF PrimaryInv

LEMMA ReleaseKeepsInv ==
  ASSUME PrimaryInv, NEW c \in Calls, Release(c)
  PROVE  PrimaryInv'
<1>1. Cardinality(Holders') = Cardinality(Holders) - 1 /\ Cardinality(Holders') \in Nat
  <2>1. Cardinality(Holders') = Cardinality(Holders) - 1
    BY SlotReturned DEF PrimaryInv, Release
  <2>2. c \in Holders
    BY DEF Release, Holders
  <2>3. Cardinality(Holders) > 0
    BY <2>2, HoldersFinite, FS_EmptySet
  <2>. QED
    BY <2>1, <2>3, HoldersFinite
<1>2. inFlight' = Cardinality(Holders') /\ inFlight' <= MaxInFlight
  BY <1>1, HoldersFinite, PrimaryConstants DEF PrimaryInv, SlotsMatchGoroutines, Release
<1>3. PrimaryTypes'
  BY <1>1, <1>2 DEF PrimaryInv, PrimaryTypes, Release
<1>4. AdmittedBelowLimit'
  BY DEF PrimaryInv, PrimaryTypes, AdmittedBelowLimit, Release
<1>5. TripIsUnderWay'
  BY DEF PrimaryInv, PrimaryTypes, TripIsUnderWay, Release
<1>. QED
  BY <1>2, <1>3, <1>4, <1>5 DEF PrimaryInv, SlotsMatchGoroutines

\* Steps of a goroutine on its way that leave the breaker's count alone.
LEMMA WorkingKeepsInv ==
  ASSUME PrimaryInv, NEW c \in Calls, Fetch(c) \/ RunOk(c) \/ RunFails(c) \/ OpenBreaker(c) \/ Send(c)
  PROVE  PrimaryInv'
<1>1. UNCHANGED <<inFlight, fails, pc, seen>>
  BY DEF Fetch, RunOk, RunFails, EndRun, OpenBreaker, Send
<1>2. /\ bg' \in [Calls -> Working \cup {"none"}]
      /\ \A d \in Calls : bg'[d] = "none" <=> bg[d] = "none"
      /\ \A d \in Calls : bg[d] \in {"opening", "resetting"} => bg'[d] \in {"opening", "resetting"}
  BY DEF PrimaryInv, PrimaryTypes, Working, Fetch, RunOk, RunFails, EndRun, Sharers, Outcome,
     OpenBreaker, AfterOpening, Send
<1>3. PrimaryTypes' /\ AdmittedBelowLimit'
  BY <1>1, <1>2 DEF PrimaryInv, PrimaryTypes, AdmittedBelowLimit
<1>4. SlotsMatchGoroutines' /\ TripIsUnderWay'
  BY <1>1, <1>2, SlotsKept DEF PrimaryInv, TripIsUnderWay
<1>. QED
  BY <1>3, <1>4 DEF PrimaryInv

\* The count that reaches the limit has its own goroutine open the breaker, and a
\* reset finds nothing left to open.
LEMMA CountingKeepsInv ==
  ASSUME PrimaryInv, NEW c \in Calls, CountSuccess(c) \/ CountFailure(c) \/ ResetFails(c)
  PROVE  PrimaryInv'
<1>1. UNCHANGED <<inFlight, pc, seen>>
  BY DEF CountSuccess, CountFailure, ResetFails
<1>2. /\ fails' \in Nat
      /\ bg' \in [Calls -> Working \cup {"none"}]
      /\ \A d \in Calls : bg'[d] = "none" <=> bg[d] = "none"
  BY DEF PrimaryInv, PrimaryTypes, Working, CountSuccess, CountFailure, ResetFails
<1>3. PrimaryTypes' /\ AdmittedBelowLimit'
  BY <1>1, <1>2 DEF PrimaryInv, PrimaryTypes, AdmittedBelowLimit
<1>4. SlotsMatchGoroutines'
  BY <1>1, <1>2, SlotsKept DEF PrimaryInv
<1>5. TripIsUnderWay'
  <2>1. CASE CountSuccess(c) \/ ResetFails(c)
    BY <2>1, PrimaryConstants DEF CountSuccess, ResetFails, TripIsUnderWay
  <2>2. CASE CountFailure(c) /\ Trips(fails + 1)
    BY <2>2 DEF PrimaryInv, PrimaryTypes, CountFailure, TripIsUnderWay
  <2>3. CASE CountFailure(c) /\ ~Trips(fails + 1)
    BY <2>3 DEF PrimaryInv, PrimaryTypes, CountFailure, Trips, TripIsUnderWay
  <2>. QED
    BY <2>1, <2>2, <2>3
<1>. QED
  BY <1>3, <1>4, <1>5 DEF PrimaryInv

LEMMA SurroundingsKeepInv ==
  ASSUME PrimaryInv, UNCHANGED vars \/ BreakerCloses \/ \E k \in Keys : Forget(k)
  PROVE  PrimaryInv'
<1>1. UNCHANGED <<inFlight, fails, pc, seen, bg>>
  BY DEF vars, BreakerCloses, Forget
<1>. QED
  BY <1>1 DEF PrimaryInv, PrimaryTypes, AdmittedBelowLimit, SlotsMatchGoroutines, Holders, TripIsUnderWay

LEMMA NextKeepsInv == PrimaryInv /\ [Next]_vars => PrimaryInv'
<1>. SUFFICES ASSUME PrimaryInv, Next PROVE PrimaryInv'
  BY SurroundingsKeepInv
<1>1. CASE BreakerCloses \/ \E k \in Keys : Forget(k)
  BY <1>1, SurroundingsKeepInv
<1>2. ASSUME NEW c \in Calls, Ask(c) \/ CallStep(c) \/ GoroutineStep(c)
      PROVE  PrimaryInv'
  BY <1>2, WaitingKeepsInv, AcquireKeepsInv, ReleaseKeepsInv, WorkingKeepsInv, CountingKeepsInv
     DEF CallStep, GoroutineStep
<1>. QED
  BY <1>1, <1>2 DEF Next

\* Whatever the calls, their races and the service's failures: the inductive invariant.
THEOREM PrimaryInvHolds == Spec => []PrimaryInv
  BY InitInv, NextKeepsInv, PTL DEF Spec

\* The compare-and-swap loop keeps the number of goroutines exact and within the bound.
THEOREM SlotsAreExact == Spec => []SlotsMatchGoroutines
<1>1. PrimaryInv => SlotsMatchGoroutines
  BY DEF PrimaryInv
<1>. QED
  BY <1>1, PrimaryInvHolds, PTL

\* No count that has reached the limit is left without a goroutine that deals with it.
THEOREM NoTripIsLost == Spec => []TripIsUnderWay
<1>1. PrimaryInv => TripIsUnderWay
  BY DEF PrimaryInv
<1>. QED
  BY <1>1, PrimaryInvHolds, PTL

-----------------------------------------------------------------------------
(* Shared runs *)

Slots == Working \cup {"none"}

\* Every key has at most one run of the service, the leader's, and whoever joined a run
\* has one to wait for.
OneRunPerKey ==
  /\ leader \in [Keys -> Calls \cup {Nobody}]
  /\ \A k \in Keys : leader[k] # Nobody => bg[leader[k]] = "running" /\ KeyOf[leader[k]] = k
  /\ \A c \in Calls : bg[c] = "running" => leader[KeyOf[c]] = c
  /\ \A c \in Calls : bg[c] = "joined" => leader[KeyOf[c]] # Nobody

\* A step of c that neither begins nor ends nor joins a run.
LEMMA RunsKept ==
  ASSUME OneRunPerKey, leader' = leader,
         \A c \in Calls : bg'[c] # bg[c] => {bg[c], bg'[c]} \cap {"running", "joined"} = {}
  PROVE  OneRunPerKey'
<1>1. \A c \in Calls : (bg'[c] = "running" <=> bg[c] = "running") /\ (bg'[c] = "joined" <=> bg[c] = "joined")
  OBVIOUS
<1>. QED
  BY <1>1, PrimaryConstants DEF OneRunPerKey

LEMMA FetchKeepsRuns ==
  ASSUME PrimaryTypes, OneRunPerKey, NEW c \in Calls, Fetch(c)
  PROVE  OneRunPerKey'
<1>. DEFINE k == KeyOf[c]
<1>1. k \in Keys
  BY PrimaryConstants
<1>2. CASE cached[k]
  <2>1. leader' = leader /\ bg' = [bg EXCEPT ![c] = "succeeded"] /\ bg[c] = "started"
    BY <1>2 DEF Fetch
  <2>. QED
    BY <2>1, RunsKept DEF PrimaryTypes
<1>3. CASE ~cached[k] /\ leader[k] = Nobody
  <2>1. bg' = [bg EXCEPT ![c] = "running"] /\ leader' = [leader EXCEPT ![k] = c] /\ bg[c] = "started"
    BY <1>3 DEF Fetch
  <2>2. \A j \in Keys : leader'[j] = IF j = k THEN c ELSE leader[j]
    BY <2>1 DEF OneRunPerKey
  <2>3. \A d \in Calls : bg'[d] = IF d = c THEN "running" ELSE bg[d]
    BY <2>1 DEF PrimaryTypes
  <2>4. leader' \in [Keys -> Calls \cup {Nobody}]
    BY <1>1, <2>1 DEF OneRunPerKey
  <2>. QED
    BY <1>1, <1>3, <2>1, <2>2, <2>3, <2>4, PrimaryConstants, NobodyIsNoCall DEF OneRunPerKey
<1>4. CASE ~cached[k] /\ leader[k] # Nobody
  <2>1. bg' = [bg EXCEPT ![c] = "joined"] /\ leader' = leader /\ bg[c] = "started"
    BY <1>4 DEF Fetch
  <2>2. \A d \in Calls : bg'[d] = IF d = c THEN "joined" ELSE bg[d]
    BY <2>1 DEF PrimaryTypes
  <2>. QED
    BY <1>4, <2>1, <2>2, PrimaryConstants DEF OneRunPerKey
<1>. QED
  BY <1>2, <1>3, <1>4

\* The end of a run ends the wait of all who joined it.
LEMMA EndRunKeepsRuns ==
  ASSUME PrimaryTypes, OneRunPerKey, NEW c \in Calls, NEW r \in {"succeeded", "failed"}, EndRun(c, r)
  PROVE  OneRunPerKey'
<1>. DEFINE k == KeyOf[c]
<1>1. k \in Keys /\ leader[k] = c
  BY PrimaryConstants DEF OneRunPerKey, EndRun
<1>2. \A j \in Keys : leader'[j] = IF j = k THEN Nobody ELSE leader[j]
  BY DEF EndRun, OneRunPerKey
<1>3. \A d \in Calls : bg'[d] = IF d \in Sharers(c) THEN r ELSE bg[d]
  BY DEF EndRun, Outcome
<1>4. leader' \in [Keys -> Calls \cup {Nobody}]
  BY DEF EndRun, OneRunPerKey
<1>5. ASSUME NEW j \in Keys, leader'[j] # Nobody
      PROVE  bg'[leader'[j]] = "running" /\ KeyOf[leader'[j]] = j
  <2>1. j # k /\ leader'[j] = leader[j] /\ leader[j] \in Calls
    BY <1>2, <1>5 DEF OneRunPerKey
  <2>2. bg[leader[j]] = "running" /\ KeyOf[leader[j]] = j
    BY <2>1, <1>5 DEF OneRunPerKey
  <2>3. leader[j] \notin Sharers(c)
    BY <2>1, <2>2 DEF Sharers
  <2>. QED
    BY <1>3, <2>1, <2>2, <2>3
<1>6. ASSUME NEW d \in Calls, bg'[d] \in {"running", "joined"}
      PROVE  d \notin Sharers(c) /\ bg'[d] = bg[d] /\ KeyOf[d] # k /\ KeyOf[d] \in Keys
  <2>1. d \notin Sharers(c) /\ bg'[d] = bg[d]
    BY <1>3, <1>6
  <2>2. KeyOf[d] # k
    BY <1>1, <1>6, <2>1 DEF Sharers, OneRunPerKey
  <2>. QED
    BY <2>1, <2>2, PrimaryConstants
<1>. QED
  BY <1>2, <1>4, <1>5, <1>6 DEF OneRunPerKey

LEMMA InitRuns == Init => OneRunPerKey
  BY DEF Init, OneRunPerKey

LEMMA NextRuns == PrimaryInv /\ OneRunPerKey /\ [Next]_vars => OneRunPerKey'
<1>. SUFFICES ASSUME PrimaryInv, OneRunPerKey, [Next]_vars PROVE OneRunPerKey'
  OBVIOUS
<1>t. PrimaryTypes
  BY DEF PrimaryInv
<1>1. CASE UNCHANGED vars \/ BreakerCloses \/ \E k \in Keys : Forget(k)
  <2>1. leader' = leader /\ bg' = bg
    BY <1>1 DEF vars, BreakerCloses, Forget
  <2>. QED
    BY <2>1, RunsKept
<1>2. ASSUME NEW c \in Calls, Ask(c) \/ CallStep(c) PROVE OneRunPerKey'
  <2>1. CASE Acquire(c)
    <3>1. leader' = leader /\ bg[c] = "none" /\ \E b \in {"describing", "started"} : bg' = [bg EXCEPT ![c] = b]
      BY <2>1 DEF Acquire, PrimaryInv, AdmittedBelowLimit
    <3>. QED
      BY <3>1, <1>t, RunsKept DEF PrimaryTypes
  <2>2. CASE ~Acquire(c)
    <3>1. leader' = leader /\ bg' = bg
      BY <1>2, <2>2 DEF Ask, CallStep, CheckBreaker, LoadInFlight, LoseSwap, GiveUp, Answer
    <3>. QED
      BY <3>1, RunsKept
  <2>. QED
    BY <2>1, <2>2
<1>3. ASSUME NEW c \in Calls, GoroutineStep(c) PROVE OneRunPerKey'
  <2>1. CASE Fetch(c)
    BY <2>1, <1>t, FetchKeepsRuns
  <2>2. CASE RunOk(c) \/ RunFails(c)
    BY <2>2, <1>t, EndRunKeepsRuns DEF RunOk, RunFails
  <2>3. CASE CountSuccess(c) \/ CountFailure(c) \/ OpenBreaker(c) \/ ResetFails(c) \/ Send(c) \/ Release(c)
    <3>1. /\ leader' = leader /\ bg[c] \notin {"running", "joined"}
          /\ \E b \in Slots \ {"running", "joined"} : bg' = [bg EXCEPT ![c] = b]
      BY <2>3 DEF CountSuccess, CountFailure, OpenBreaker, AfterOpening, ResetFails, Send, Release, Slots, Working
    <3>. QED
      BY <3>1, <1>t, RunsKept DEF PrimaryTypes
  <2>. QED
    BY <1>3, <2>1, <2>2, <2>3 DEF GoroutineStep
<1>. QED
  BY <1>1, <1>2, <1>3 DEF Next

\* FetchCachedWithTTL runs the service once for a key however many goroutines ask, and
\* nobody who joined a run is left without one.
THEOREM RunsAreShared == Spec => []OneRunPerKey
<1>1. Init /\ []PrimaryInv /\ [][Next]_vars => []OneRunPerKey
  BY InitRuns, NextRuns, PTL
<1>. QED
  BY <1>1, PrimaryInvHolds, PTL DEF Spec

-----------------------------------------------------------------------------
(* Slots come back *)

\* Whose steps take the goroutine of c on: its own, or those of the run it has joined.
Driver(c) == IF bg[c] = "joined" THEN leader[KeyOf[c]] ELSE c

\* The most steps that are left until the slot of c is free.
StepsLeft(c) ==
  CASE bg[c] = "none" -> 0
    [] bg[c] = "started" -> 7
    [] bg[c] \in {"running", "joined"} -> 6
    [] bg[c] = "failed" -> 5
    [] bg[c] = "opening" -> 4
    [] bg[c] \in {"succeeded", "resetting"} -> 3
    [] bg[c] = "sending" -> 2
    [] OTHER -> 1

\* Whoever holds a slot has steps left and a driver that waits for nobody.
AllUnderWay ==
  \A c \in Holders :
    /\ StepsLeft(c) \in 1 .. 7
    /\ Driver(c) \in Holders /\ bg[Driver(c)] # "joined"

\* A step of its driver brings a slot nearer to its release, and no other sets it back.
Advances(c) ==
  c \in Holders => /\ StepsLeft(c)' <= StepsLeft(c)
                   /\ GoroutineStep(Driver(c)) => StepsLeft(c)' < StepsLeft(c)

LEMMA LeftIs ==
  ASSUME NEW c \in Calls, bg[c] \in Slots
  PROVE  /\ StepsLeft(c) \in 0 .. 7
         /\ bg[c] = "none" <=> StepsLeft(c) = 0
  BY DEF StepsLeft, Slots, Working

LEMMA DriverIs ==
  ASSUME PrimaryTypes, OneRunPerKey, NEW c \in Holders
  PROVE  /\ Driver(c) \in Calls /\ bg[Driver(c)] \notin {"none", "joined"}
         /\ bg[c] = "joined" => bg[Driver(c)] = "running" /\ KeyOf[Driver(c)] = KeyOf[c]
         /\ bg[c] # "joined" => Driver(c) = c
<1>1. c \in Calls /\ KeyOf[c] \in Keys
  BY PrimaryConstants DEF Holders
<1>. QED
  BY <1>1 DEF Driver, OneRunPerKey, Holders

LEMMA UnderWay == PrimaryTypes /\ OneRunPerKey => AllUnderWay
<1>. SUFFICES ASSUME PrimaryTypes, OneRunPerKey, NEW c \in Holders
              PROVE  StepsLeft(c) \in 1 .. 7 /\ Driver(c) \in Holders /\ bg[Driver(c)] # "joined"
  BY DEF AllUnderWay
<1>1. c \in Calls /\ bg[c] \in Slots /\ bg[c] # "none"
  BY DEF Holders, PrimaryTypes, Slots
<1>. QED
  BY <1>1, LeftIs, DriverIs DEF Holders

\* What a goroutine's step does to the slot of each call.
LEMMA StepLowers ==
  ASSUME PrimaryTypes, NEW d \in Calls, GoroutineStep(d), NEW c \in Calls
  PROVE  /\ c = d => StepsLeft(c)' < StepsLeft(c)
         /\ c # d => bg'[c] = bg[c] \/ StepsLeft(c)' < StepsLeft(c)
         /\ bg[d] = "running" /\ bg[c] = "joined" /\ KeyOf[c] = KeyOf[d] => StepsLeft(c)' < StepsLeft(c)
<1>. USE DEF PrimaryTypes
<1>1. CASE Fetch(d)
  <2>1. bg[d] = "started" /\ \E b \in {"succeeded", "running", "joined"} : bg' = [bg EXCEPT ![d] = b]
    BY <1>1 DEF Fetch
  <2>. QED
    BY <2>1 DEF StepsLeft
<1>2. CASE RunOk(d) \/ RunFails(d)
  <2>1. /\ bg[d] = "running"
        /\ \E r \in {"succeeded", "failed"} : bg' = [x \in Calls |-> IF x \in Sharers(d) THEN r ELSE bg[x]]
    BY <1>2 DEF RunOk, RunFails, EndRun, Outcome
  <2>. QED
    BY <2>1 DEF StepsLeft, Sharers
<1>3. CASE CountSuccess(d) \/ Send(d)
  BY <1>3 DEF CountSuccess, Send, StepsLeft
<1>4. CASE CountFailure(d)
  BY <1>4 DEF CountFailure, StepsLeft
<1>5. CASE OpenBreaker(d) \/ ResetFails(d)
  BY <1>5 DEF OpenBreaker, AfterOpening, ResetFails, StepsLeft
<1>6. CASE Release(d)
  BY <1>6 DEF Release, StepsLeft
<1>. QED
  BY <1>1, <1>2, <1>3, <1>4, <1>5, <1>6 DEF GoroutineStep

\* The safety half of SlotsReturned.  A slot has at most seven steps before it is free;
\* its goroutine waits only for a run, which waits for nobody; and each step of its own or
\* of that run leaves it fewer, also when the visitor has left meanwhile.
THEOREM SlotsComeBack ==
  Spec => /\ []AllUnderWay
          /\ [][\A c \in Calls : Advances(c)]_vars
<1>1. PrimaryInv /\ OneRunPerKey /\ [Next]_vars => [\A c \in Calls : Advances(c)]_vars
  <2>. SUFFICES ASSUME PrimaryInv, OneRunPerKey, Next, NEW c \in Calls, c \in Holders
                PROVE  Advances(c)
    BY DEF Advances
  <2>t. PrimaryTypes /\ bg[c] \in Slots /\ bg[c] # "none"
    BY DEF PrimaryInv, PrimaryTypes, Holders, Slots
  <2>d. Driver(c) \in Calls
    BY <2>t, DriverIs
  <2>1. GoroutineStep(Driver(c)) => StepsLeft(c)' < StepsLeft(c)
    <3>. SUFFICES ASSUME GoroutineStep(Driver(c)) PROVE StepsLeft(c)' < StepsLeft(c)
      OBVIOUS
    <3>1. CASE bg[c] = "joined"
      BY <2>t, <2>d, <3>1, DriverIs, StepLowers
    <3>2. CASE bg[c] # "joined"
      <4>1. GoroutineStep(c)
        BY <3>2 DEF Driver
      <4>. QED
        BY <2>t, <4>1, StepLowers
    <3>. QED
      BY <3>1, <3>2
  <2>2. StepsLeft(c)' <= StepsLeft(c)
    <3>0. bg'[c] = bg[c] => StepsLeft(c)' = StepsLeft(c)
      BY DEF StepsLeft
    <3>n. StepsLeft(c) \in 0 .. 7
      BY <2>t, LeftIs
    <3>1. CASE BreakerCloses \/ \E k \in Keys : Forget(k)
      BY <3>0, <3>1, <3>n DEF BreakerCloses, Forget
    <3>2. ASSUME NEW d \in Calls, Ask(d) \/ CallStep(d) PROVE bg'[c] = bg[c]
      <4>1. CASE Acquire(d)
        BY <2>t, <4>1 DEF PrimaryTypes, Acquire, PrimaryInv, AdmittedBelowLimit
      <4>2. CASE ~Acquire(d)
        BY <3>2, <4>2 DEF Ask, CallStep, CheckBreaker, LoadInFlight, LoseSwap, GiveUp, Answer
      <4>. QED
        BY <4>1, <4>2
    <3>3. ASSUME NEW d \in Calls, GoroutineStep(d) PROVE StepsLeft(c)' <= StepsLeft(c)
      <4>1. bg'[c] = bg[c] \/ StepsLeft(c)' < StepsLeft(c)
        BY <2>t, <3>3, StepLowers
      <4>2. CASE bg'[c] = bg[c]
        BY <3>0, <3>n, <4>2
      <4>3. CASE StepsLeft(c)' < StepsLeft(c)
        <5>1. StepsLeft(c)' \in 0 .. 7
          BY DEF StepsLeft
        <5>. QED
          BY <3>n, <4>3, <5>1
      <4>. QED
        BY <4>1, <4>2, <4>3
    <3>. QED
      BY <3>0, <3>n, <3>1, <3>2, <3>3 DEF Next
  <2>. QED
    BY <2>1, <2>2 DEF Advances
<1>2. PrimaryInv /\ OneRunPerKey => AllUnderWay
  BY UnderWay DEF PrimaryInv
<1>3. Init /\ []PrimaryInv /\ [][Next]_vars => []OneRunPerKey
  BY InitRuns, NextRuns, PTL
<1>. QED
  BY <1>1, <1>2, <1>3, PrimaryInvHolds, PTL DEF Spec

-----------------------------------------------------------------------------
(* The breaker's count *)

\* The goroutines between the failure that reached the limit and the reset.
Tripping == {c \in Calls : bg[c] \in {"opening", "resetting"}}

\* Beyond the last failure below the limit, each counted failure has a goroutine that
\* is about to reset the count.
FailsAreTripping == fails <= BreakerFails - 1 + Cardinality(Tripping)

\* The count passes the limit by less than the number of slots: however many visitors
\* share failed runs, it stays in proportion, and an atomic.Int32 holds it.
FailsStayBounded == fails < BreakerFails + MaxInFlight

LEMMA TrippingFinite ==
  /\ IsFiniteSet(Tripping) /\ Cardinality(Tripping) \in Nat
  /\ Cardinality(Tripping) <= Cardinality(Holders)
<1>1. Tripping \subseteq Holders
  BY DEF Tripping, Holders
<1>. QED
  BY <1>1, HoldersFinite, FS_Subset, FS_CardinalityType

LEMMA TrippingGrows ==
  ASSUME NEW c \in Calls, PrimaryTypes, bg' = [bg EXCEPT ![c] = "opening"], bg[c] = "failed"
  PROVE  Cardinality(Tripping') = Cardinality(Tripping) + 1
<1>1. Tripping' = Tripping \cup {c} /\ c \notin Tripping
  BY DEF Tripping, PrimaryTypes
<1>. QED
  BY <1>1, TrippingFinite, FS_AddElement

LEMMA NextFails == PrimaryInv /\ FailsAreTripping /\ [Next]_vars => FailsAreTripping'
<1>. SUFFICES ASSUME PrimaryInv, FailsAreTripping, [Next]_vars PROVE FailsAreTripping'
  OBVIOUS
<1>t. PrimaryTypes /\ fails \in Nat /\ BreakerFails \in Nat \ {0} /\ Cardinality(Tripping) \in Nat
  BY TrippingFinite, PrimaryConstants DEF PrimaryInv, PrimaryTypes
<1>p. Cardinality(Tripping') \in Nat
  <2>1. (Cardinality(Tripping) \in Nat)'
    <3>1. Cardinality(Tripping) \in Nat
      BY TrippingFinite
    <3>. QED
      BY <3>1, TrippingFinite, PTL
  <2>. QED
    BY <2>1
<1>k. fails' = fails /\ Tripping' = Tripping => FailsAreTripping'
  BY DEF FailsAreTripping
<1>1. CASE UNCHANGED vars \/ BreakerCloses \/ \E k \in Keys : Forget(k)
  <2>1. fails' = fails /\ bg' = bg
    BY <1>1 DEF vars, BreakerCloses, Forget
  <2>. QED
    BY <1>k, <2>1 DEF Tripping
<1>2. ASSUME NEW c \in Calls, Ask(c) \/ CallStep(c) PROVE FailsAreTripping'
  <2>1. CASE Acquire(c)
    <3>1. bg[c] = "none" /\ fails' = fails /\ \E b \in {"describing", "started"} : bg' = [bg EXCEPT ![c] = b]
      BY <2>1 DEF Acquire, PrimaryInv, AdmittedBelowLimit
    <3>. QED
      BY <1>k, <1>t, <3>1 DEF Tripping, PrimaryTypes
  <2>2. CASE ~Acquire(c)
    <3>1. fails' = fails /\ bg' = bg
      BY <1>2, <2>2 DEF Ask, CallStep, CheckBreaker, LoadInFlight, LoseSwap, GiveUp, Answer
    <3>. QED
      BY <1>k, <3>1 DEF Tripping
  <2>. QED
    BY <2>1, <2>2
<1>3. ASSUME NEW c \in Calls, GoroutineStep(c) PROVE FailsAreTripping'
  <2>1. CASE Fetch(c) \/ RunOk(c) \/ RunFails(c) \/ OpenBreaker(c) \/ Send(c) \/ Release(c)
    <3>1. fails' = fails
      BY <2>1 DEF Fetch, RunOk, RunFails, EndRun, OpenBreaker, Send, Release
    <3>2. Tripping' = Tripping
      BY <2>1, <1>t DEF Tripping, PrimaryTypes, Fetch, RunOk, RunFails, EndRun, Sharers, Outcome,
         OpenBreaker, AfterOpening, Send, Release
    <3>. QED
      BY <1>k, <3>1, <3>2
  <2>2. CASE CountSuccess(c) \/ ResetFails(c)
    BY <2>2, <1>t, <1>p DEF CountSuccess, ResetFails, FailsAreTripping
  <2>3. CASE CountFailure(c) /\ Trips(fails + 1)
    <3>1. bg[c] = "failed" /\ bg' = [bg EXCEPT ![c] = "opening"] /\ fails' = fails + 1
      BY <2>3 DEF CountFailure
    <3>2. Cardinality(Tripping') = Cardinality(Tripping) + 1
      BY <1>t, <3>1, TrippingGrows
    <3>. QED
      BY <1>t, <3>1, <3>2 DEF FailsAreTripping
  <2>4. CASE CountFailure(c) /\ ~Trips(fails + 1)
    BY <2>4, <1>t, <1>p DEF CountFailure, Trips, FailsAreTripping
  <2>. QED
    BY <1>3, <2>1, <2>2, <2>3, <2>4 DEF GoroutineStep
<1>. QED
  BY <1>1, <1>2, <1>3 DEF Next

\* However many goroutines share one failed run and count it each, the breaker's count is
\* never BreakerFails + MaxInFlight: what it can pass the limit by is bounded by the slots.
THEOREM FailsBounded == Spec => []FailsStayBounded
<1>1. Init => FailsAreTripping
  <2>1. Init => Tripping = {}
    BY DEF Init, Tripping
  <2>. QED
    BY <2>1, FS_EmptySet, PrimaryConstants DEF Init, FailsAreTripping
<1>2. PrimaryInv /\ FailsAreTripping => FailsStayBounded
  BY TrippingFinite, HoldersFinite, PrimaryConstants
     DEF PrimaryInv, PrimaryTypes, SlotsMatchGoroutines, FailsAreTripping, FailsStayBounded
<1>3. Init /\ []PrimaryInv /\ [][Next]_vars => []FailsAreTripping
  BY <1>1, NextFails, PTL
<1>. QED
  BY <1>2, <1>3, PrimaryInvHolds, PTL DEF Spec

-----------------------------------------------------------------------------
(* Progress, counted *)

VARIABLES
  lost,    \* history: lost[c]: swaps that c has lost since it passed the breaker
  taken,   \* history: taken[c]: slots taken since then
  freed,   \* history: freed[c]: slots freed since then
  since    \* history: failures counted since the last success or opening of the breaker

NoneTallied ==
  /\ lost = [c \in Calls |-> 0] /\ taken = [c \in Calls |-> 0] /\ freed = [c \in Calls |-> 0]
  /\ since = 0

\* LoseSwap is the way from a swap back to the load, CountSuccess and OpenBreaker are the
\* ways from "succeeded" and "opening" on, and CountFailure alone counts up.
Tallied ==
  /\ lost' = [c \in Calls |-> IF pc'[c] = "checking" THEN 0
                              ELSE IF pc[c] = "swapping" /\ pc'[c] = "loading" THEN lost[c] + 1 ELSE lost[c]]
  /\ taken' = [c \in Calls |-> IF pc'[c] = "checking" THEN 0
                               ELSE IF inFlight' > inFlight THEN taken[c] + 1 ELSE taken[c]]
  /\ freed' = [c \in Calls |-> IF pc'[c] = "checking" THEN 0
                               ELSE IF inFlight' < inFlight THEN freed[c] + 1 ELSE freed[c]]
  /\ since' = IF \E c \in Calls : \/ bg[c] = "succeeded" /\ bg'[c] = "sending"
                                  \/ bg[c] = "opening" /\ bg'[c] = "resetting"
              THEN 0
              ELSE IF fails' > fails THEN since + 1 ELSE since

\* Spec with the histories, which follow its steps and restrain none.
TalliedSpec == Init /\ NoneTallied /\ [][Next /\ Tallied]_<<vars, lost, taken, freed, since>>

InLoop(c) == pc[c] \in {"checking", "loading", "swapping"}

\* A call that loses swaps loses them to others: n of them only while (n - MaxInFlight) / 2
\* others have been admitted.
LostSwapsArePaid == \A c \in Calls : InLoop(c) => lost[c] <= 2 * taken[c] + MaxInFlight

\* Every swap lost, and the one that c is about to lose, saw a slot taken or freed, and
\* no more were freed than there were and have been taken.
Paid(c) ==
  InLoop(c) => /\ lost[c] + (IF pc[c] = "swapping" /\ inFlight # seen[c] THEN 1 ELSE 0) <= taken[c] + freed[c]
               /\ inFlight + freed[c] <= taken[c] + MaxInFlight

TallyTypes == lost \in [Calls -> Nat] /\ taken \in [Calls -> Nat] /\ freed \in [Calls -> Nat] /\ since \in Nat

LEMMA TallyTypesStep == TallyTypes /\ Tallied => TallyTypes'
  BY DEF TallyTypes, Tallied

\* The count changes by one slot at a time.
LEMMA OneSlot ==
  ASSUME PrimaryInv, [Next]_vars
  PROVE  inFlight' \in {inFlight - 1, inFlight, inFlight + 1}
<1>1. CASE UNCHANGED vars \/ BreakerCloses \/ \E k \in Keys : Forget(k)
  BY <1>1 DEF vars, BreakerCloses, Forget
<1>2. ASSUME NEW d \in Calls, Ask(d) \/ CallStep(d) \/ GoroutineStep(d)
      PROVE  inFlight' \in {inFlight - 1, inFlight, inFlight + 1}
  BY <1>2 DEF Ask, CallStep, GoroutineStep, CheckBreaker, LoadInFlight, Acquire, Swaps, LoseSwap, GiveUp, Answer,
     Fetch, RunOk, RunFails, EndRun, CountSuccess, CountFailure, OpenBreaker, ResetFails, Send, Release
<1>. QED
  BY <1>1, <1>2 DEF Next

\* How a call moves within acquire, and what the others do to it meanwhile: nothing.
LEMMA LoopSteps ==
  ASSUME PrimaryInv, [Next]_vars, NEW c \in Calls, pc'[c] \in {"loading", "swapping"}
  PROVE  \/ pc'[c] = pc[c] /\ seen'[c] = seen[c]
         \/ pc[c] = "checking" /\ pc'[c] = "loading" /\ inFlight' = inFlight
         \/ pc[c] = "loading" /\ pc'[c] = "swapping" /\ seen'[c] = inFlight /\ inFlight' = inFlight
         \/ pc[c] = "swapping" /\ pc'[c] = "loading" /\ inFlight # seen[c] /\ inFlight' = inFlight
<1>1. CASE UNCHANGED vars \/ BreakerCloses \/ \E k \in Keys : Forget(k)
  BY <1>1 DEF vars, BreakerCloses, Forget
<1>2. PrimaryTypes
  BY DEF PrimaryInv
<1>3. ASSUME NEW d \in Calls, Ask(d) \/ CallStep(d) \/ GoroutineStep(d), d # c
      PROVE  pc'[c] = pc[c] /\ seen'[c] = seen[c]
  BY <1>2, <1>3 DEF PrimaryTypes, Ask, CallStep, GoroutineStep, Goto, CheckBreaker, LoadInFlight, Acquire, LoseSwap,
     GiveUp, Answer, Fetch, RunOk, RunFails, EndRun, CountSuccess, CountFailure, OpenBreaker, ResetFails, Send, Release
<1>4. CASE GoroutineStep(c)
  BY <1>2, <1>4 DEF PrimaryTypes, GoroutineStep, Fetch, RunOk, RunFails, EndRun, CountSuccess, CountFailure,
     OpenBreaker, ResetFails, Send, Release
<1>5. CASE Ask(c) \/ Acquire(c) \/ GiveUp(c) \/ Answer(c)
  BY <1>2, <1>5 DEF PrimaryTypes, Ask, Acquire, GiveUp, Answer, Goto
<1>6. CASE CheckBreaker(c) \/ LoadInFlight(c) \/ LoseSwap(c)
  BY <1>2, <1>6 DEF PrimaryTypes, CheckBreaker, LoadInFlight, LoseSwap, Swaps, AfterLostSwap, Goto
<1>. QED
  BY <1>1, <1>3, <1>4, <1>5, <1>6 DEF Next, CallStep

LEMMA PaidStep ==
  ASSUME PrimaryInv, PrimaryInv', TallyTypes, [Next]_vars, Tallied, NEW c \in Calls, Paid(c)
  PROVE  Paid(c)'
<1>1. /\ inFlight \in Nat /\ seen[c] \in Nat /\ MaxInFlight \in Nat
      /\ inFlight' \in Nat /\ inFlight' <= MaxInFlight
      /\ lost[c] \in Nat /\ taken[c] \in Nat /\ freed[c] \in Nat
  BY PrimaryConstants DEF PrimaryInv, PrimaryTypes, SlotsMatchGoroutines, TallyTypes
<1>2. /\ lost'[c] = IF pc'[c] = "checking" THEN 0
                    ELSE IF pc[c] = "swapping" /\ pc'[c] = "loading" THEN lost[c] + 1 ELSE lost[c]
      /\ taken'[c] = IF pc'[c] = "checking" THEN 0
                     ELSE IF inFlight' > inFlight THEN taken[c] + 1 ELSE taken[c]
      /\ freed'[c] = IF pc'[c] = "checking" THEN 0
                     ELSE IF inFlight' < inFlight THEN freed[c] + 1 ELSE freed[c]
  BY DEF Tallied
<1>3. CASE pc'[c] = "checking"
  BY <1>1, <1>2, <1>3 DEF Paid
<1>4. CASE pc'[c] \in {"loading", "swapping"}
  <2>1. inFlight' \in {inFlight - 1, inFlight, inFlight + 1}
    BY OneSlot
  <2>2. \/ pc'[c] = pc[c] /\ seen'[c] = seen[c]
        \/ pc[c] = "checking" /\ pc'[c] = "loading" /\ inFlight' = inFlight
        \/ pc[c] = "loading" /\ pc'[c] = "swapping" /\ seen'[c] = inFlight /\ inFlight' = inFlight
        \/ pc[c] = "swapping" /\ pc'[c] = "loading" /\ inFlight # seen[c] /\ inFlight' = inFlight
    BY <1>4, LoopSteps
  <2>3. pc'[c] # "checking" /\ InLoop(c)
    BY <1>4, <2>2 DEF InLoop
  <2>4. /\ lost[c] + (IF pc[c] = "swapping" /\ inFlight # seen[c] THEN 1 ELSE 0) <= taken[c] + freed[c]
        /\ inFlight + freed[c] <= taken[c] + MaxInFlight
    BY <2>3 DEF Paid
  <2>5. /\ lost'[c] = IF pc[c] = "swapping" /\ pc'[c] = "loading" THEN lost[c] + 1 ELSE lost[c]
        /\ taken'[c] = IF inFlight' > inFlight THEN taken[c] + 1 ELSE taken[c]
        /\ freed'[c] = IF inFlight' < inFlight THEN freed[c] + 1 ELSE freed[c]
    BY <1>2, <2>3
  <2>6. inFlight' + freed'[c] <= taken'[c] + MaxInFlight
    BY <1>1, <2>1, <2>4, <2>5
  <2>7. lost'[c] + (IF pc'[c] = "swapping" /\ inFlight' # seen'[c] THEN 1 ELSE 0) <= taken'[c] + freed'[c]
    <3>1. CASE pc'[c] = pc[c] /\ seen'[c] = seen[c] /\ inFlight' = inFlight
      BY <1>1, <2>4, <2>5, <3>1
    <3>2. CASE pc'[c] = pc[c] /\ seen'[c] = seen[c] /\ inFlight' # inFlight
      <4>1. lost'[c] = lost[c] /\ taken'[c] + freed'[c] = taken[c] + freed[c] + 1
        BY <1>1, <2>1, <2>5, <3>2
      <4>. QED
        BY <1>1, <2>4, <4>1
    <3>3. CASE pc[c] = "checking" /\ pc'[c] = "loading" /\ inFlight' = inFlight
      BY <1>1, <2>4, <2>5, <3>3
    <3>4. CASE pc[c] = "loading" /\ pc'[c] = "swapping" /\ seen'[c] = inFlight /\ inFlight' = inFlight
      BY <1>1, <2>4, <2>5, <3>4
    <3>5. CASE pc[c] = "swapping" /\ pc'[c] = "loading" /\ inFlight # seen[c] /\ inFlight' = inFlight
      BY <1>1, <2>4, <2>5, <3>5
    <3>. QED
      BY <2>2, <3>1, <3>2, <3>3, <3>4, <3>5
  <2>. QED
    BY <2>6, <2>7 DEF Paid
<1>. QED
  BY <1>3, <1>4 DEF Paid, InLoop

\* acquire's loop is lock-free, the safety half of AcquireIsLockFree: a call that has lost
\* n swaps has seen at least (n - MaxInFlight) / 2 others admitted since it began.
THEOREM SwapsAreLostToOthers == TalliedSpec => []LostSwapsArePaid
<1> DEFINE Inv == PrimaryInv /\ TallyTypes /\ \A c \in Calls : Paid(c)
<1>1. Init /\ NoneTallied => Inv
  <2>. SUFFICES ASSUME Init, NoneTallied PROVE Inv
    OBVIOUS
  <2>1. TallyTypes
    BY DEF NoneTallied, TallyTypes
  <2>2. \A c \in Calls : Paid(c)
    BY DEF Init, Paid, InLoop
  <2>. QED
    BY <2>1, <2>2, InitInv
<1>2. ASSUME Inv, [Next /\ Tallied]_<<vars, lost, taken, freed, since>> PROVE Inv'
  <2>1. CASE Next /\ Tallied
    <3>1. PrimaryInv'
      BY <1>2, <2>1, NextKeepsInv
    <3>2. TallyTypes'
      BY <1>2, <2>1, TallyTypesStep
    <3>3. \A c \in Calls : Paid(c)'
      BY <1>2, <2>1, <3>1, PaidStep
    <3>. QED
      BY <3>1, <3>2, <3>3
  <2>2. CASE UNCHANGED <<vars, lost, taken, freed, since>>
    <3>1. PrimaryInv'
      BY <1>2, <2>2, NextKeepsInv
    <3>2. UNCHANGED <<pc, seen, inFlight, lost, taken, freed, since>>
      BY <2>2 DEF vars
    <3>. QED
      BY <1>2, <3>1, <3>2 DEF TallyTypes, Paid, InLoop
  <2>. QED
    BY <1>2, <2>1, <2>2
<1>3. Inv => LostSwapsArePaid
  <2>. SUFFICES ASSUME Inv, NEW c \in Calls, InLoop(c) PROVE lost[c] <= 2 * taken[c] + MaxInFlight
    BY DEF LostSwapsArePaid
  <2>1. /\ lost[c] + (IF pc[c] = "swapping" /\ inFlight # seen[c] THEN 1 ELSE 0) <= taken[c] + freed[c]
        /\ inFlight + freed[c] <= taken[c] + MaxInFlight
    BY DEF Paid
  <2>2. lost[c] \in Nat /\ taken[c] \in Nat /\ freed[c] \in Nat /\ inFlight \in Nat /\ MaxInFlight \in Nat
    BY PrimaryConstants DEF PrimaryInv, PrimaryTypes, TallyTypes
  <2>. QED
    BY <2>1, <2>2
<1>. QED
  BY <1>1, <1>2, <1>3, PTL DEF TalliedSpec

-----------------------------------------------------------------------------
(* An outage is noticed *)

Resetting == {c \in Calls : bg[c] = "resetting"}

\* One failure less than the most that can stand counted.
Most == BreakerFails + MaxInFlight - 1

\* A failure that was counted stands, or was wiped out by one of those who opened the
\* breaker before: each of them wipes once.
WipedByFew == since <= fails + (MaxInFlight - Cardinality(Resetting)) * Most

OutageIsNoticed == since <= (MaxInFlight + 1) * Most

LEMMA ResettingFinite ==
  ASSUME PrimaryInv
  PROVE  /\ IsFiniteSet(Resetting)
         /\ Cardinality(Resetting) \in 0 .. MaxInFlight
<1>1. Resetting \subseteq Holders
  BY DEF Resetting, Holders
<1>2. IsFiniteSet(Resetting) /\ Cardinality(Resetting) \in Nat /\ Cardinality(Resetting) <= Cardinality(Holders)
  BY <1>1, HoldersFinite, FS_Subset, FS_CardinalityType
<1>. QED
  BY <1>2, PrimaryConstants DEF PrimaryInv, PrimaryTypes, SlotsMatchGoroutines

\* The numbers: n failures since, f that stand, r who are about to wipe, m slots.
LEMMA Wipe ==
  ASSUME NEW m \in Nat, NEW most \in Nat, NEW r \in 0 .. m
  PROVE  /\ (m - r) * most \in Nat
         /\ r > 0 => (m - (r - 1)) * most = (m - r) * most + most
         /\ (m - r) * most <= m * most
         /\ (m + 1) * most = m * most + most
  OBVIOUS

LEMMA WipedStep ==
  ASSUME PrimaryInv, PrimaryInv', FailsStayBounded, FailsStayBounded', TallyTypes, [Next]_vars, Tallied, WipedByFew
  PROVE  WipedByFew'
<1> DEFINE r == Cardinality(Resetting)
<1>1. /\ MaxInFlight \in Nat /\ Most \in Nat /\ fails \in Nat /\ fails <= Most /\ since \in Nat
      /\ fails' \in Nat
  BY PrimaryConstants DEF PrimaryInv, PrimaryTypes, FailsStayBounded, TallyTypes, Most
<1>2. r \in 0 .. MaxInFlight /\ IsFiniteSet(Resetting)
  BY ResettingFinite
<1>3. r' \in 0 .. MaxInFlight
  <2>1. (Cardinality(Resetting) \in 0 .. MaxInFlight)'
    BY ResettingFinite, PTL
  <2>. QED
    BY <2>1
<1>4. since' \in {0, since, since + 1} /\ (since' = since + 1 => since' = 0 \/ fails' > fails)
  BY <1>1 DEF Tallied
<1>5. ASSUME since' = 0 PROVE WipedByFew'
  <2>1. (MaxInFlight - r') * Most \in Nat
    BY <1>1, <1>3, Wipe
  <2>. QED
    BY <1>1, <1>5, <2>1 DEF WipedByFew, Most
<1>6. ASSUME Resetting' = Resetting, fails' = fails \/ fails' = fails + 1 PROVE WipedByFew'
  <2>1. (MaxInFlight - r) * Most \in Nat
    BY <1>1, <1>2, Wipe
  <2>2. since <= fails + (MaxInFlight - r) * Most
    BY DEF WipedByFew
  <2>3. since' <= fails' + (MaxInFlight - r) * Most
    BY <1>1, <1>4, <1>6, <2>1, <2>2
  <2>. QED
    BY <1>6, <2>3 DEF WipedByFew, Most
<1>7. CASE UNCHANGED vars \/ BreakerCloses \/ \E k \in Keys : Forget(k)
  <2>1. Resetting' = Resetting /\ fails' = fails
    BY <1>7 DEF vars, BreakerCloses, Forget, Resetting
  <2>. QED
    BY <1>6, <2>1
<1>8. PrimaryTypes /\ AdmittedBelowLimit
  BY DEF PrimaryInv
<1>9. ASSUME NEW c \in Calls, Ask(c) \/ CallStep(c) PROVE WipedByFew'
  <2>1. fails' = fails /\ (bg' = bg \/ (bg[c] = "none" /\ \E b \in {"describing", "started"} : bg' = [bg EXCEPT ![c] = b]))
    BY <1>8, <1>9 DEF AdmittedBelowLimit, Ask, CallStep, CheckBreaker, LoadInFlight, Acquire, LoseSwap, GiveUp, Answer
  <2>2. Resetting' = Resetting
    BY <1>8, <2>1 DEF Resetting, PrimaryTypes
  <2>. QED
    BY <1>6, <2>1, <2>2
<1>10. ASSUME NEW c \in Calls, Fetch(c) \/ RunOk(c) \/ RunFails(c) \/ Send(c) \/ Release(c) \/ CountFailure(c)
       PROVE  WipedByFew'
  <2>1. fails' = fails \/ fails' = fails + 1
    BY <1>10 DEF Fetch, RunOk, RunFails, EndRun, Send, Release, CountFailure
  <2>2. Resetting' = Resetting
    BY <1>8, <1>10 DEF Resetting, PrimaryTypes, Fetch, RunOk, RunFails, EndRun, Sharers, Outcome, Send, Release, CountFailure
  <2>. QED
    BY <1>6, <2>1, <2>2
<1>11. ASSUME NEW c \in Calls, CountSuccess(c) \/ OpenBreaker(c) PROVE WipedByFew'
  <2>1. \/ bg[c] = "succeeded" /\ bg'[c] = "sending"
        \/ bg[c] = "opening" /\ bg'[c] = "resetting"
    BY <1>8, <1>11 DEF PrimaryTypes, CountSuccess, OpenBreaker, AfterOpening
  <2>2. since' = 0
    BY <2>1 DEF Tallied
  <2>. QED
    BY <1>5, <2>2
<1>12. ASSUME NEW c \in Calls, ResetFails(c) PROVE WipedByFew'
  <2>1. fails' = 0 /\ bg[c] = "resetting" /\ bg' = [bg EXCEPT ![c] = "sending"]
    BY <1>12 DEF ResetFails
  <2>2. Resetting' = Resetting \ {c} /\ c \in Resetting
    BY <1>8, <2>1 DEF Resetting, PrimaryTypes
  <2>3. Cardinality(Resetting \ {c}) = r - 1
    BY <1>2, <2>2, FS_RemoveElement
  <2>4. r' = r - 1
    BY <2>2, <2>3
  <2>5. r > 0
    BY <1>2, <1>3, <2>4
  <2>6. (MaxInFlight - r') * Most = (MaxInFlight - r) * Most + Most
    BY <1>1, <1>2, <2>4, <2>5, Wipe
  <2>7. since <= fails + (MaxInFlight - r) * Most /\ (MaxInFlight - r) * Most \in Nat
    BY <1>1, <1>2, Wipe DEF WipedByFew
  <2>8. since' <= since
    BY <1>1, <1>4, <2>1
  <2>9. since' <= fails' + (MaxInFlight - r') * Most
    BY <1>1, <1>4, <2>1, <2>6, <2>7, <2>8
  <2>. QED
    BY <2>9 DEF WipedByFew, Most
<1>. QED
  BY <1>7, <1>9, <1>10, <1>11, <1>12 DEF Next, GoroutineStep

\* The safety half of OutageTripsBreaker.  However the goroutines race to count, open and
\* reset, so many failures are never counted in a row: the breaker has opened before.
THEOREM OutagesAreNoticed == TalliedSpec => []OutageIsNoticed
<1> DEFINE Inv == PrimaryInv /\ FailsAreTripping /\ TallyTypes /\ WipedByFew
<1>0. PrimaryInv /\ FailsAreTripping => FailsStayBounded
  BY TrippingFinite, HoldersFinite, PrimaryConstants
     DEF PrimaryInv, PrimaryTypes, SlotsMatchGoroutines, FailsAreTripping, FailsStayBounded
<1>1. Init /\ NoneTallied => Inv
  <2>. SUFFICES ASSUME Init, NoneTallied PROVE Inv
    OBVIOUS
  <2>1. PrimaryInv /\ TallyTypes
    BY InitInv DEF NoneTallied, TallyTypes
  <2>2. Tripping = {} /\ Resetting = {}
    BY DEF Init, Tripping, Resetting
  <2>3. FailsAreTripping
    BY <2>2, FS_EmptySet, PrimaryConstants DEF Init, FailsAreTripping
  <2>4. Most \in Nat /\ MaxInFlight \in Nat /\ since = 0 /\ fails = 0 /\ Cardinality(Resetting) \in 0 .. MaxInFlight
    BY <2>1, ResettingFinite, PrimaryConstants DEF Most, Init, NoneTallied
  <2>5. (MaxInFlight - Cardinality(Resetting)) * Most \in Nat
    BY <2>4, Wipe
  <2>6. WipedByFew
    BY <2>4, <2>5 DEF WipedByFew
  <2>. QED
    BY <2>1, <2>3, <2>6
<1>2. ASSUME Inv, [Next /\ Tallied]_<<vars, lost, taken, freed, since>> PROVE Inv'
  <2>1. CASE Next /\ Tallied
    <3>1. PrimaryInv' /\ FailsAreTripping'
      BY <1>2, <2>1, NextKeepsInv, NextFails
    <3>2. TallyTypes'
      BY <1>2, <2>1, TallyTypesStep
    <3>3. FailsStayBounded'
      <4>1. (PrimaryInv /\ FailsAreTripping => FailsStayBounded)'
        BY <1>0, PTL
      <4>. QED
        BY <3>1, <4>1
    <3>4. WipedByFew'
      BY <1>0, <1>2, <2>1, <3>1, <3>3, WipedStep
    <3>. QED
      BY <3>1, <3>2, <3>4
  <2>2. CASE UNCHANGED <<vars, lost, taken, freed, since>>
    <3>1. PrimaryInv' /\ FailsAreTripping'
      BY <1>2, <2>2, NextKeepsInv, NextFails
    <3>2. UNCHANGED <<bg, fails, lost, taken, freed, since>>
      BY <2>2 DEF vars
    <3>. QED
      BY <1>2, <3>1, <3>2 DEF TallyTypes, WipedByFew, Resetting
  <2>. QED
    BY <1>2, <2>1, <2>2
<1>3. Inv => OutageIsNoticed
  <2>. SUFFICES ASSUME Inv PROVE OutageIsNoticed
    OBVIOUS
  <2>1. /\ Cardinality(Resetting) \in 0 .. MaxInFlight /\ MaxInFlight \in Nat /\ Most \in Nat
        /\ fails \in Nat /\ fails <= Most /\ since \in Nat
    BY <1>0, ResettingFinite, PrimaryConstants DEF PrimaryInv, PrimaryTypes, FailsStayBounded, TallyTypes, Most
  <2> DEFINE r == Cardinality(Resetting)
  <2>2. /\ (MaxInFlight - r) * Most \in Nat
        /\ (MaxInFlight - r) * Most <= MaxInFlight * Most
        /\ (MaxInFlight + 1) * Most = MaxInFlight * Most + Most
    BY <2>1, Wipe
  <2>3. MaxInFlight * Most \in Nat
    BY <2>1
  <2>4. since <= fails + (MaxInFlight - r) * Most
    BY DEF WipedByFew
  <2> HIDE DEF r
  <2>. QED
    BY <2>1, <2>2, <2>3, <2>4 DEF OutageIsNoticed
<1>. QED
  BY <1>1, <1>2, <1>3, PTL DEF TalliedSpec
=============================================================================
