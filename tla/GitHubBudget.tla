---------------------------- MODULE GitHubBudget ----------------------------
(***************************************************************************)
(* The guard of backend/github that stops calling GitHub while the token's *)
(* quota is nearly spent.  It keeps two words, the remaining count and the *)
(* reset time last reported, each read and written atomically on its own:  *)
(* checkBudget and recordRateLimit of other goroutines run between them.   *)
(* checkSearchBudget and recordSearchRateLimit are the same code over the  *)
(* Search API's two words, with another reserve.                           *)
(*                                                                         *)
(* A reset time is kept as where it lies: unset (0), in the future, or in  *)
(* the past.  GitHub's window ends all at once, for the times in flight    *)
(* too.  GitHub itself is external, modelled from what the code expects.   *)
(***************************************************************************)
EXTENDS Integers, FiniteSets

CONSTANTS
  Callers,  \* goroutines that call the API
  Quota,    \* requests GitHub grants in a window
  Reserve   \* rateLimitReserve

ASSUME BudgetConstants ==
  /\ IsFiniteSet(Callers)
  /\ Quota \in Nat /\ Reserve \in 1 .. Quota

VARIABLES
  left,       \* GitHub's own count for the window
  remaining,  \* Client.remaining, Unknown before the first response
  resetAt,    \* Client.resetAt
  pc,         \* pc[c]: where caller c is
  header,     \* header[c]: the rate-limit headers of the response c holds
  over        \* history: requests counted in this window while left was below Reserve

vars == <<left, remaining, resetAt, pc, header, over>>

Unknown == -1
Times == {"unset", "future", "past"}
NoHeader == [remaining |-> Unknown, reset |-> "unset"]

\* A process may start in the middle of a window.
Init ==
  /\ left \in 0 .. Quota
  /\ remaining = Unknown
  /\ resetAt = "unset"
  /\ pc = [c \in Callers |-> "idle"]
  /\ header = [c \in Callers |-> NoHeader]
  /\ over = 0

Goto(c, label) == pc' = [pc EXCEPT ![c] = label]

-----------------------------------------------------------------------------
(* GitHub *)

Passed(t) == IF t = "future" THEN "past" ELSE t

NewWindow ==
  /\ left' = Quota
  /\ over' = 0
  /\ resetAt' = Passed(resetAt)
  /\ header' = [c \in Callers |-> [header[c] EXCEPT !.reset = Passed(@)]]
  /\ UNCHANGED <<remaining, pc>>

-----------------------------------------------------------------------------
(* checkBudget *)

\* Mutant: the reserve itself may be used up.
AllowsToZero(n) == n # 0

\* An unknown budget is treated as fine.
Allows(n) == n < 0 \/ n >= Reserve

LoadRemaining(c) ==
  /\ pc[c] = "idle"
  /\ Goto(c, IF Allows(remaining) THEN "sending" ELSE "low")
  /\ UNCHANGED <<left, remaining, resetAt, header, over>>

\* Mutant: the budget is never cleared.
NeverOver(t) == FALSE

ResetPassed(t) == t = "past"

\* Refused, or cleared in two stores.
LoadReset(c) ==
  /\ pc[c] = "low"
  /\ Goto(c, IF ResetPassed(resetAt) THEN "clearRemaining" ELSE "idle")
  /\ UNCHANGED <<left, remaining, resetAt, header, over>>

ClearRemaining(c) ==
  /\ pc[c] = "clearRemaining"
  /\ remaining' = Unknown
  /\ Goto(c, "clearReset")
  /\ UNCHANGED <<left, resetAt, header, over>>

ClearReset(c) ==
  /\ pc[c] = "clearReset"
  /\ resetAt' = "unset"
  /\ Goto(c, "sending")
  /\ UNCHANGED <<left, remaining, header, over>>

-----------------------------------------------------------------------------
(* The request *)

\* A request that counts; one that GitHub answers 304 does not, nor one it refuses.
Counted(c, n) ==
  /\ left' = left - n
  /\ over' = IF left < Reserve THEN over + n ELSE over
  /\ header' = [header EXCEPT ![c] = [remaining |-> left - n, reset |-> "future"]]

Request(c) ==
  /\ pc[c] = "sending"
  /\ \E n \in {0, 1} : n <= left /\ Counted(c, n)
  /\ Goto(c, "recordRemaining")
  /\ UNCHANGED <<remaining, resetAt>>

\* The request fails and records nothing.
RequestFails(c) ==
  /\ pc[c] = "sending"
  /\ Goto(c, "idle")
  /\ UNCHANGED <<left, remaining, resetAt, header, over>>

-----------------------------------------------------------------------------
(* recordRateLimit *)

AfterCount == "recordReset"

RecordRemaining(c) ==
  /\ pc[c] = "recordRemaining"
  /\ remaining' = header[c].remaining
  /\ Goto(c, AfterCount)
  /\ UNCHANGED <<left, resetAt, header, over>>

RecordReset(c) ==
  /\ pc[c] = "recordReset"
  /\ resetAt' = header[c].reset
  /\ header' = [header EXCEPT ![c] = NoHeader]
  /\ Goto(c, "idle")
  /\ UNCHANGED <<left, remaining, over>>

-----------------------------------------------------------------------------
Check(c) == LoadRemaining(c) \/ LoadReset(c) \/ ClearRemaining(c) \/ ClearReset(c)
Record(c) == RecordRemaining(c) \/ RecordReset(c)

Next ==
  \/ NewWindow
  \/ \E c \in Callers : Check(c) \/ Request(c) \/ RequestFails(c) \/ Record(c)

Spec == Init /\ [][Next]_vars

-----------------------------------------------------------------------------
(* Safety *)

TypeOK ==
  /\ left \in 0 .. Quota
  /\ remaining \in {Unknown} \cup 0 .. Quota
  /\ resetAt \in Times
  /\ pc \in [Callers -> {"idle", "low", "clearRemaining", "clearReset", "sending",
                         "recordRemaining", "recordReset"}]
  /\ header \in [Callers -> [remaining : {Unknown} \cup 0 .. Quota, reset : Times]]
  /\ \A c \in Callers : pc[c] \notin {"recordRemaining", "recordReset"} => header[c] = NoHeader
  /\ over \in 0 .. Quota

\* The most that n callers together take from the reserve in a window: 1, 4, 12, 25, ...
\* All but the one that reaches the reserve may hold a response of the last window.  As one
\* records it while k others are free, its count lets k pass; its reset time, which has
\* passed, lets 1 + 2 + ... + (k + 1) pass, as each that has seen it opens the guard anew.
MaxOver ==
  LET n == Cardinality(Callers)
  IN IF n < 2 THEN n ELSE (n * (n + 1) * (n + 2) + 3 * n * (n - 1)) \div 6 - 1

\* The reserve is headroom, not a wall.  A count that arrives late opens the guard until
\* the next one, and so does a reset that several callers have seen to be past; but none
\* of it repeats for ever: the callers take no more than MaxOver from the reserve.
OvershootBounded == over <= MaxOver

-----------------------------------------------------------------------------
(* Liveness *)

\* Visitors keep coming, goroutines run, windows end, and a request that is tried for
\* ever gets an answer at times.
Fairness ==
  /\ WF_vars(NewWindow)
  /\ \A c \in Callers : WF_vars(Check(c)) /\ WF_vars(Record(c))
                        /\ WF_vars(Request(c) \/ RequestFails(c)) /\ SF_vars(Request(c))

FairSpec == Spec /\ Fairness

\* "Once the X-RateLimit-Reset timestamp has passed, the observed budget is cleared ...
\* otherwise the guard would stick until process restart": refusals end.
RefusalsEnd == []<>Allows(remaining)

\* A response is being recorded while another call is between the two stores that clear.
Overlap == \E c, d \in Callers : pc[c] = "clearReset" /\ pc[d] = "recordReset"

\* Nothing but such an overlap makes the guard stick: without one refusals end, however
\* late responses are, whatever fails and whenever windows end.
StuckOnlyByOverlap == []~Overlap => RefusalsEnd
=============================================================================
