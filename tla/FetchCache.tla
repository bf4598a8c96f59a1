----------------------------- MODULE FetchCache -----------------------------
(***************************************************************************)
(* The two-level cache of backend/cache for one key: an L1 map in each     *)
(* instance, Redis behind all of them, FetchCached with its background     *)
(* revalidation and its singleflight group, and the Invalidate of a        *)
(* refresh request.                                                        *)
(*                                                                         *)
(* The origin's value is a version that only grows.  A conditional fetch   *)
(* that answers 304 keeps the cached value, which is then the origin's     *)
(* own, so a fetch gives the version the origin has when it answers.       *)
(* An entry is fresh until SoftTTL passes; every copy of it ages alike.    *)
(*                                                                         *)
(* A call is made again and again by the same caller; a second background  *)
(* goroutine of a caller whose first has not run yet is merged with it.    *)
(***************************************************************************)
EXTENDS Integers, FiniteSets

CONSTANTS
  Instances,   \* backend processes
  Callers,     \* request handlers
  On,          \* On[c]: the instance that serves caller c
  Refreshers,  \* callers whose requests carry the refresh secret
  MaxVersion   \* bound on what the origin publishes

ASSUME CacheConstants ==
  /\ On \in [Callers -> Instances]
  /\ Refreshers \subseteq Callers
  /\ MaxVersion \in Nat \ {0}

VARIABLES
  origin,  \* the version the origin has
  redis,   \* the entry in Redis
  l1,      \* l1[i]: the entry in instance i's L1
  paused,  \* paused[i]: Redis is skipped after a network error
  leader,  \* leader[i]: the goroutine whose flight the singleflight group holds
  pc,      \* pc[g]: where goroutine g is
  got,     \* got[g]: the entry g has read or fetched and not yet stored
  refresh  \* refresh[c]: history of c's refresh: the origin's version when it began,
           \* and whether nothing has disturbed it so far

vars == <<origin, redis, l1, paused, leader, pc, got, refresh>>

\* A caller's goroutine, and the one FetchCached starts to revalidate a stale entry.
Call(c) == <<c, "call">>
Revalidation(c) == <<c, "revalidate">>
Goroutines == Callers \X {"call", "revalidate"}
At(g) == On[g[1]]

None == [v |-> 0, stale |-> FALSE]
Nobody == <<"nobody", "nobody">>
Error == 0
NoRefresh == [since |-> 0, alone |-> FALSE]
Entry == [v : 1 .. MaxVersion, stale : BOOLEAN] \cup {None}

Init ==
  /\ origin = 1
  /\ redis = None
  /\ l1 = [i \in Instances |-> None]
  /\ paused = [i \in Instances |-> FALSE]
  /\ leader = [i \in Instances |-> Nobody]
  /\ pc = [g \in Goroutines |-> "idle"]
  /\ got = [g \in Goroutines |-> None]
  /\ refresh = [c \in Callers |-> NoRefresh]

-----------------------------------------------------------------------------
(* The surroundings *)

Aged(e) == IF e = None THEN None ELSE [e EXCEPT !.stale = TRUE]

\* The soft TTL of every entry passes.
Age ==
  /\ redis' = Aged(redis)
  /\ l1' = [i \in Instances |-> Aged(l1[i])]
  /\ got' = [g \in Goroutines |-> Aged(got[g])]
  /\ UNCHANGED <<origin, paused, leader, pc, refresh>>

Publish ==
  /\ origin < MaxVersion
  /\ origin' = origin + 1
  /\ UNCHANGED <<redis, l1, paused, leader, pc, got, refresh>>

\* The hard TTL passes, or Redis evicts the key.
Expire ==
  /\ redis # None
  /\ redis' = None
  /\ UNCHANGED <<origin, l1, paused, leader, pc, got, refresh>>

\* Other keys push the entry out of an L1 that is full.
Evict(i) ==
  /\ l1[i] # None
  /\ l1' = [l1 EXCEPT ![i] = None]
  /\ UNCHANGED <<origin, redis, paused, leader, pc, got, refresh>>

Resume(i) ==
  /\ paused[i]
  /\ paused' = [paused EXCEPT ![i] = FALSE]
  /\ UNCHANGED <<origin, redis, l1, leader, pc, got, refresh>>

\* What a Redis write of instance i can do: nothing while Redis is paused; the write;
\* an error, before or after the write took effect, which pauses Redis if it is the
\* network's and not the caller's deadline.
RedisWrite(i, e, ok) ==
  \/ /\ paused[i] /\ ok = FALSE
     /\ UNCHANGED <<redis, paused>>
  \/ /\ ~paused[i] /\ ok = TRUE
     /\ redis' = e
     /\ UNCHANGED paused
  \/ /\ ~paused[i] /\ ok = FALSE
     /\ redis' \in {redis, e}
     /\ \E b \in BOOLEAN : paused' = [paused EXCEPT ![i] = b]

-----------------------------------------------------------------------------
(* Invalidate, the first step of a refresh *)

\* From here on other callers' refreshes are not alone, if they had been.
Disturb(c) ==
  [d \in Callers |-> IF d = c THEN refresh[d] ELSE [refresh[d] EXCEPT !.alone = FALSE]]

\* What is kept of the refreshes once the calls in R have returned.
Ended(r, R) == [c \in Callers |-> IF Call(c) \in R THEN NoRefresh ELSE r[c]]

Quiet(c) ==
  /\ \A g \in Goroutines : g # Call(c) => pc[g] = "idle"
  /\ ~paused[On[c]]

\* Mutant: only Redis is invalidated.
DropNoL1(c) == l1

DropL1(c) == [l1 EXCEPT ![On[c]] = None]

BeginRefresh(c) ==
  /\ c \in Refreshers /\ pc[Call(c)] = "idle"
  /\ l1' = DropL1(c)
  /\ pc' = [pc EXCEPT ![Call(c)] = "deleting"]
  /\ refresh' = [Disturb(c) EXCEPT ![c] = [since |-> origin, alone |-> Quiet(c)]]
  /\ UNCHANGED <<origin, redis, paused, leader, got>>

DropRedis(c) ==
  /\ pc[Call(c)] = "deleting"
  /\ \E ok \in BOOLEAN :
       /\ RedisWrite(On[c], None, ok)
       /\ refresh' = [refresh EXCEPT ![c].alone = @ /\ ok]
  /\ pc' = [pc EXCEPT ![Call(c)] = "reading"]
  /\ UNCHANGED <<origin, l1, leader, got>>

-----------------------------------------------------------------------------
(* FetchCached: getEntry *)

\* Mutant: a stale entry is served and nobody revalidates it.
RevalidateNever(c, e) == [pc EXCEPT ![Call(c)] = "idle"]

\* The caller returns; a stale entry starts a background goroutine.
AfterServing(c, e) ==
  [pc EXCEPT ![Call(c)] = "idle",
             ![Revalidation(c)] = IF e.stale /\ @ = "idle" THEN "spawned" ELSE @]

Serve(c, e) ==
  /\ pc' = AfterServing(c, e)
  /\ got' = [got EXCEPT ![Call(c)] = None]

ReadL1(c) ==
  /\ pc[Call(c)] = IF c \in Refreshers THEN "reading" ELSE "idle"
  /\ IF l1[On[c]] # None
       THEN /\ Serve(c, l1[On[c]])
            /\ refresh' = Ended(Disturb(c), {Call(c)})
       ELSE /\ pc' = [pc EXCEPT ![Call(c)] = "get"]
            /\ refresh' = Disturb(c)
            /\ UNCHANGED got
  /\ UNCHANGED <<origin, redis, l1, paused, leader>>

\* A hit is kept until it is put into L1.
RedisHit(c) ==
  /\ pc[Call(c)] = "get"
  /\ ~paused[On[c]] /\ redis # None
  /\ got' = [got EXCEPT ![Call(c)] = redis]
  /\ pc' = [pc EXCEPT ![Call(c)] = "fill"]
  /\ UNCHANGED <<origin, redis, l1, paused, leader, refresh>>

\* Redis is paused, has no entry, or fails: FetchCached goes on as without an entry.
RedisMiss(c) ==
  /\ pc[Call(c)] = "get"
  /\ \/ (paused[On[c]] \/ redis = None) /\ UNCHANGED paused
     \/ ~paused[On[c]] /\ \E b \in BOOLEAN : paused' = [paused EXCEPT ![On[c]] = b]
  /\ pc' = [pc EXCEPT ![Call(c)] = "do"]
  /\ UNCHANGED <<origin, redis, l1, leader, got, refresh>>

FillL1(c) ==
  /\ pc[Call(c)] = "fill"
  /\ l1' = [l1 EXCEPT ![On[c]] = got[Call(c)]]
  /\ Serve(c, got[Call(c)])
  /\ refresh' = Ended(refresh, {Call(c)})
  /\ UNCHANGED <<origin, redis, paused, leader>>

-----------------------------------------------------------------------------
(* The singleflight group, loadAndStore *)

\* Mutant: each goroutine fetches for itself.
NoneInFlight(g) == TRUE

Leads(g) == leader[At(g)] = Nobody

\* sf.Do: the first goroutine runs the load, the others wait for it.
Do(g) ==
  /\ pc[g] \in {"do", "spawned"}
  /\ IF Leads(g)
       THEN /\ leader' = [leader EXCEPT ![At(g)] = g]
            /\ pc' = [pc EXCEPT ![g] = "fetching"]
       ELSE /\ pc' = [pc EXCEPT ![g] = "waiting"]
            /\ UNCHANGED leader
  /\ UNCHANGED <<origin, redis, l1, paused, got, refresh>>

\* Mutant: those who wait are not told that the load failed.
ReleasedOnSuccess(g) ==
  {h \in Goroutines : h = g \/ (pc[g] = "setting" /\ pc[h] = "waiting" /\ At(h) = At(g))}

Released(g) == {h \in Goroutines : h = g \/ (pc[h] = "waiting" /\ At(h) = At(g))}

\* The load of g ends: everyone on its instance who waited for it returns with it.
EndFlight(g) ==
  /\ leader' = [leader EXCEPT ![At(g)] = Nobody]
  /\ pc' = [h \in Goroutines |-> IF h \in Released(g) THEN "idle" ELSE pc[h]]
  /\ got' = [got EXCEPT ![g] = None]
  /\ refresh' = Ended(refresh, Released(g))

FetchOk(g) ==
  /\ pc[g] = "fetching"
  /\ got' = [got EXCEPT ![g] = [v |-> origin, stale |-> FALSE]]
  /\ pc' = [pc EXCEPT ![g] = "storing"]
  /\ UNCHANGED <<origin, redis, l1, paused, leader, refresh>>

\* An error of the origin, the timeout of a revalidation, or the end of the request
\* that leads the flight.
FetchFails(g) ==
  /\ pc[g] = "fetching"
  /\ EndFlight(g)
  /\ UNCHANGED <<origin, redis, l1, paused>>

StoreL1(g) ==
  /\ pc[g] = "storing"
  /\ l1' = [l1 EXCEPT ![At(g)] = got[g]]
  /\ pc' = [pc EXCEPT ![g] = "setting"]
  /\ UNCHANGED <<origin, redis, paused, leader, got, refresh>>

SetRedis(g, ok) ==
  /\ pc[g] = "setting"
  /\ RedisWrite(At(g), got[g], ok)
  /\ EndFlight(g)
  /\ UNCHANGED <<origin, l1>>

-----------------------------------------------------------------------------
CallStep(c) ==
  \/ DropRedis(c) \/ RedisHit(c) \/ RedisMiss(c) \/ FillL1(c)
  \/ c \in Refreshers /\ ReadL1(c)

LoadStep(g) ==
  Do(g) \/ FetchOk(g) \/ FetchFails(g) \/ StoreL1(g) \/ \E ok \in BOOLEAN : SetRedis(g, ok)

Arrive(c) == BeginRefresh(c) \/ (c \notin Refreshers /\ ReadL1(c))

Next ==
  \/ Age \/ Publish \/ Expire
  \/ \E i \in Instances : Evict(i) \/ Resume(i)
  \/ \E c \in Callers : Arrive(c) \/ CallStep(c)
  \/ \E g \in Goroutines : LoadStep(g)

Spec == Init /\ [][Next]_vars

-----------------------------------------------------------------------------
(* Safety *)

Loading(g) == pc[g] \in {"fetching", "storing", "setting"}

\* The group holds the flight of the one goroutine that loads, and a goroutine waits
\* only while there is one: no key is fetched twice at once, nobody waits for nothing.
OneFlight ==
  \A i \in Instances :
    /\ Cardinality({g \in Goroutines : At(g) = i /\ Loading(g)}) <= 1
    /\ (\E g \in Goroutines : At(g) = i /\ pc[g] = "waiting") => Loading(leader[i])

Returns(c) == pc[Call(c)] # "idle" /\ pc'[Call(c)] = "idle"

\* What the call returns: the entry it read, or the result of the flight it waited for.
Returned(c) ==
  CASE pc[Call(c)] = "reading" -> l1[On[c]].v
    [] pc[Call(c)] = "fill" -> got[Call(c)].v
    [] pc[Call(c)] \in {"waiting", "setting"} -> got[leader[On[c]]].v
    [] OTHER -> Error

\* A refresh nobody disturbs, with Redis up, answers what the origin had or newer.
UndisturbedRefreshIsCurrent ==
  [][\A c \in Refreshers :
       refresh[c].alone /\ Returns(c) /\ Returned(c) # Error => Returned(c) >= refresh[c].since]_vars

\* "The next FetchCached call for key is a full cache miss and re-fetches from origin":
\* a refresh answers what the origin had when it began, or newer.
RefreshReachesOrigin ==
  [][\A c \in Refreshers :
       Returns(c) /\ Returned(c) # Error => Returned(c) >= refresh[c].since]_vars

-----------------------------------------------------------------------------
(* Liveness *)

\* Goroutines are scheduled and fetches time out (WF); requests keep arriving and
\* entries age; and a fetch that is tried for ever succeeds at times (SF).  Nothing is
\* assumed of Redis, whose every command may fail, nor of evictions.
Fairness ==
  /\ WF_vars(Age)
  /\ \A c \in Callers : WF_vars(Arrive(c)) /\ WF_vars(CallStep(c))
  /\ \A g \in Goroutines : WF_vars(LoadStep(g)) /\ SF_vars(FetchOk(g))

FairSpec == Spec /\ Fairness

\* Every call returns, with a value or an error: whoever leads a flight releases those
\* who joined it, whether the load succeeds or not.
EveryCallReturns == \A c \in Callers : pc[Call(c)] # "idle" ~> pc[Call(c)] = "idle"

\* Serving stale entries does not last: each instance comes to hold what the origin has
\* again and again, whatever Redis returns, loses or refuses.
StaleDoesNotLast == \A i \in Instances : []<>(l1[i].v = origin)
=============================================================================
