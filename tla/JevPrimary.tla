----------------------------- MODULE JevPrimary -----------------------------
(***************************************************************************)
(* Primary.Decide and Primary.Warm of backend/jev: what keeps a slow or    *)
(* failing decision service from holding up the visitors.  A call that the *)
(* cache cannot answer passes the circuit breaker, takes a slot by         *)
(* compare-and-swap, and starts a goroutine that outlives the call's own   *)
(* wait; the goroutines of one key share one run of the service.           *)
(*                                                                         *)
(* Each atomic read, write and compare-and-swap is a step.  A member of    *)
(* Calls stands for one call after another, the next beginning when the    *)
(* goroutine of the last has ended.                                        *)
(***************************************************************************)
EXTENDS Integers, FiniteSets

CONSTANTS
  Calls,        \* calls of Decide and of Warm
  Warmers,      \* those that are calls of Warm
  Keys,         \* cache keys of decisions
  KeyOf,        \* KeyOf[c]: what call c asks for
  MaxInFlight,  \* maxInFlight
  BreakerFails  \* breakerFails

ASSUME PrimaryConstants ==
  /\ IsFiniteSet(Calls)
  /\ Warmers \subseteq Calls
  /\ KeyOf \in [Calls -> Keys]
  /\ MaxInFlight \in Nat \ {0}
  /\ BreakerFails \in Nat \ {0}

VARIABLES
  inFlight,  \* slots taken
  fails,     \* failures counted since the last success or the last trip
  open,      \* the breaker: openUntil lies in the future
  cached,    \* cached[k]: the shared cache has a decision for k
  leader,    \* leader[k]: the call whose goroutine runs the service for k
  pc,        \* pc[c]: where the call is
  seen,      \* seen[c]: what acquire last loaded from inFlight
  bg         \* bg[c]: where the goroutine is that holds c's slot

vars == <<inFlight, fails, open, cached, leader, pc, seen, bg>>

Nobody == "nobody"

ASSUME NobodyIsNoCall == Nobody \notin Calls

Init ==
  /\ inFlight = 0
  /\ fails = 0
  /\ open = FALSE
  /\ cached = [k \in Keys |-> FALSE]
  /\ leader = [k \in Keys |-> Nobody]
  /\ pc = [c \in Calls |-> "idle"]
  /\ seen = [c \in Calls |-> 0]
  /\ bg = [c \in Calls |-> "none"]

-----------------------------------------------------------------------------
(* The surroundings *)

BreakerCloses ==
  /\ open
  /\ open' = FALSE
  /\ UNCHANGED <<inFlight, fails, cached, leader, pc, seen, bg>>

\* The TTL passes, a cache evicts the decision, or the release's files change.
Forget(k) ==
  /\ cached[k]
  /\ cached' = [cached EXCEPT ![k] = FALSE]
  /\ UNCHANGED <<inFlight, fails, open, leader, pc, seen, bg>>

-----------------------------------------------------------------------------
(* The call *)

Goto(c, label) == pc' = [pc EXCEPT ![c] = label]

\* A decision that GetCached finds is answered at once.  The others go on: those with
\* no decision cached, those whose lookup fails, and Warm, which does not look.
Ask(c) ==
  /\ pc[c] = "idle" /\ bg[c] = "none"
  /\ Goto(c, "checking")
  /\ UNCHANGED <<inFlight, fails, open, cached, leader, seen, bg>>

CheckBreaker(c) ==
  /\ pc[c] = "checking"
  /\ Goto(c, IF open THEN "idle" ELSE "loading")
  /\ UNCHANGED <<inFlight, fails, open, cached, leader, seen, bg>>

LoadInFlight(c) ==
  /\ pc[c] = "loading"
  /\ IF inFlight >= MaxInFlight
       THEN Goto(c, "idle") /\ UNCHANGED seen
       ELSE Goto(c, "swapping") /\ seen' = [seen EXCEPT ![c] = inFlight]
  /\ UNCHANGED <<inFlight, fails, open, cached, leader, bg>>

\* Mutant: the slot is taken whatever others did since inFlight was loaded.
SwapsBlindly(c) == TRUE

Swaps(c) == inFlight = seen[c]

\* Warm does its work within the call, Decide in a goroutine.
Acquire(c) ==
  /\ pc[c] = "swapping" /\ Swaps(c)
  /\ inFlight' = seen[c] + 1
  /\ seen' = [seen EXCEPT ![c] = 0]
  /\ Goto(c, IF c \in Warmers THEN "warming" ELSE "waiting")
  /\ bg' = [bg EXCEPT ![c] = IF c \in Warmers THEN "describing" ELSE "started"]
  /\ UNCHANGED <<fails, open, cached, leader>>

\* Mutant: the loop swaps again with what it loaded first.
SwapAgain(c) == "swapping"

AfterLostSwap(c) == "loading"

LoseSwap(c) ==
  /\ pc[c] = "swapping" /\ ~Swaps(c)
  /\ seen' = [seen EXCEPT ![c] = IF AfterLostSwap(c) = "loading" THEN 0 ELSE @]
  /\ Goto(c, AfterLostSwap(c))
  /\ UNCHANGED <<inFlight, fails, open, cached, leader, bg>>

\* The timer fires or the visitor is gone: the rule picker answers.
GiveUp(c) ==
  /\ pc[c] = "waiting"
  /\ Goto(c, "idle")
  /\ UNCHANGED <<inFlight, fails, open, cached, leader, seen, bg>>

-----------------------------------------------------------------------------
(* The goroutine *)

\* FetchCachedWithTTL: a decision cached meanwhile, a run of its own, or another's run.
Fetch(c) ==
  /\ bg[c] = "started"
  /\ LET k == KeyOf[c] IN
       \/ /\ cached[k]
          /\ bg' = [bg EXCEPT ![c] = "succeeded"]
          /\ UNCHANGED leader
       \/ /\ ~cached[k] /\ leader[k] = Nobody
          /\ bg' = [bg EXCEPT ![c] = "running"]
          /\ leader' = [leader EXCEPT ![k] = c]
       \/ /\ ~cached[k] /\ leader[k] # Nobody
          /\ bg' = [bg EXCEPT ![c] = "joined"]
          /\ UNCHANGED leader
  /\ UNCHANGED <<inFlight, fails, open, cached, pc, seen>>

\* Those whose goroutine gets the result of c's run.
Sharers(c) == {d \in Calls : d = c \/ (bg[d] = "joined" /\ KeyOf[d] = KeyOf[c])}

\* Mutant: those who joined the run are not told of its failure.
JoinersSucceed(c, d, outcome) == IF d = c THEN outcome ELSE "succeeded"

Outcome(c, d, outcome) == outcome

EndRun(c, outcome) ==
  /\ bg[c] = "running"
  /\ bg' = [d \in Calls |-> IF d \in Sharers(c) THEN Outcome(c, d, outcome) ELSE bg[d]]
  /\ leader' = [leader EXCEPT ![KeyOf[c]] = Nobody]
  /\ UNCHANGED <<inFlight, fails, open, pc, seen>>

RunOk(c) ==
  /\ EndRun(c, "succeeded")
  /\ cached' = [cached EXCEPT ![KeyOf[c]] = TRUE]

\* The service fails, or fetchTimeout passes.
RunFails(c) == EndRun(c, "failed") /\ UNCHANGED cached

CountSuccess(c) ==
  /\ bg[c] = "succeeded"
  /\ fails' = 0
  /\ bg' = [bg EXCEPT ![c] = "sending"]
  /\ UNCHANGED <<inFlight, open, cached, leader, pc, seen>>

\* Mutant: one failure more than BreakerFails.
TripsBeyond(n) == n > BreakerFails

Trips(n) == n >= BreakerFails

CountFailure(c) ==
  /\ bg[c] = "failed"
  /\ fails' = fails + 1
  /\ bg' = [bg EXCEPT ![c] = IF Trips(fails + 1) THEN "opening" ELSE "sending"]
  /\ UNCHANGED <<inFlight, open, cached, leader, pc, seen>>

AfterOpening(c) == "resetting"

OpenBreaker(c) ==
  /\ bg[c] = "opening"
  /\ open' = TRUE
  /\ bg' = [bg EXCEPT ![c] = AfterOpening(c)]
  /\ UNCHANGED <<inFlight, fails, cached, leader, pc, seen>>

ResetFails(c) ==
  /\ bg[c] = "resetting"
  /\ fails' = 0
  /\ bg' = [bg EXCEPT ![c] = "sending"]
  /\ UNCHANGED <<inFlight, open, cached, leader, pc, seen>>

\* Mutant: an unbuffered channel, which needs the call to be waiting still.
SendsToWaiting(c) == pc[c] = "waiting"

CanSend(c) == TRUE

\* done <- result into a buffer of one; a call that still waits has its answer.
Send(c) ==
  /\ bg[c] = "sending" /\ CanSend(c)
  /\ bg' = [bg EXCEPT ![c] = "exiting"]
  /\ UNCHANGED <<inFlight, fails, open, cached, leader, pc, seen>>

Answer(c) ==
  /\ pc[c] = "waiting" /\ bg[c] \in {"exiting", "none"}
  /\ Goto(c, "idle")
  /\ UNCHANGED <<inFlight, fails, open, cached, leader, seen, bg>>

\* The deferred release, which Warm reaches when Describe ends, in error or not.
Release(c) ==
  /\ bg[c] \in {"exiting", "describing"}
  /\ inFlight' = inFlight - 1
  /\ bg' = [bg EXCEPT ![c] = "none"]
  /\ pc' = [pc EXCEPT ![c] = IF @ = "warming" THEN "idle" ELSE @]
  /\ UNCHANGED <<fails, open, cached, leader, seen>>

-----------------------------------------------------------------------------
CallStep(c) ==
  CheckBreaker(c) \/ LoadInFlight(c) \/ Acquire(c) \/ LoseSwap(c) \/ GiveUp(c) \/ Answer(c)

GoroutineStep(c) ==
  \/ Fetch(c) \/ RunOk(c) \/ RunFails(c)
  \/ CountSuccess(c) \/ CountFailure(c) \/ OpenBreaker(c) \/ ResetFails(c)
  \/ Send(c) \/ Release(c)

Next ==
  \/ BreakerCloses
  \/ \E k \in Keys : Forget(k)
  \/ \E c \in Calls : Ask(c) \/ CallStep(c) \/ GoroutineStep(c)

Spec == Init /\ [][Next]_vars

-----------------------------------------------------------------------------
(* Safety *)

Holders == {c \in Calls : bg[c] # "none"}

\* "CAS keeps the bound exact under races": the counter is the number of goroutines
\* that run, never more than MaxInFlight, and no slot is lost or freed twice.
SlotsMatchGoroutines == inFlight = Cardinality(Holders) /\ inFlight <= MaxInFlight

\* Failures that reach the limit are never left uncounted for: while fails stands at
\* BreakerFails or above some goroutine is opening the breaker or about to reset fails.
TripIsUnderWay ==
  fails >= BreakerFails => \E c \in Calls : bg[c] \in {"opening", "resetting"}

-----------------------------------------------------------------------------
(* Liveness *)

\* Goroutines run (WF), the timer of a call fires and fetchTimeout ends a run.
Fairness ==
  \A c \in Calls : WF_vars(CallStep(c)) /\ WF_vars(GoroutineStep(c))

FairSpec == Spec /\ Fairness

\* Every slot is given back, also when the visitor left before the decision came.
SlotsReturned == \A c \in Calls : bg[c] # "none" ~> bg[c] = "none"

\* acquire's loop is lock-free: a call that loops for ever does so because others are
\* admitted for ever, never because of what it loaded itself.
AcquireIsLockFree ==
  \A c \in Calls :
    <>[](pc[c] \in {"loading", "swapping"}) => []<><<\E d \in Calls \ {c} : Acquire(d)>>_vars

\* An outage trips the breaker, again and again: if from some time on no decision is in
\* the cache, so that no run succeeds either, and failures keep coming, it keeps opening.
OutageTripsBreaker ==
  /\ <>[](\A k \in Keys : ~cached[k])
  /\ []<><<\E c \in Calls : RunFails(c)>>_vars
  => []<><<\E c \in Calls : OpenBreaker(c)>>_vars
=============================================================================
