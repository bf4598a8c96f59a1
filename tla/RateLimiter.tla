----------------------------- MODULE RateLimiter -----------------------------
(***************************************************************************)
(* Limiter.Allow of backend/ratelimit: a fixed window per key, counted in  *)
(* Redis with INCR and EXPIRE NX, or in the process's own map while Redis  *)
(* fails.  The two commands go out in one pipeline, which is no            *)
(* transaction: other processes' commands and errors come between them.    *)
(*                                                                         *)
(* Time advances in ticks, Second of them to a second and Window to a      *)
(* window.  A refused visitor is told a wait in whole seconds.  Counts     *)
(* above the limit are all the same and stay at Limit + 1.                 *)
(***************************************************************************)
EXTENDS Integers, FiniteSets

CONSTANTS
  Keys,      \* keys of visitors
  Callers,   \* request handlers
  Serves,    \* Serves[c]: the keys of the visitors that c serves, one after another
  Limit,     \* requests allowed per window
  Second,    \* ticks in a second
  Window,    \* ticks in a window, some whole seconds
  LocalMaxKeys

ASSUME LimiterConstants ==
  /\ Serves \in [Callers -> SUBSET Keys]
  /\ Limit \in Nat \ {0} /\ LocalMaxKeys \in Nat \ {0}
  /\ Second \in Nat \ {0} /\ Window \in Nat \ {0}

\* main.go gives every limit a window of a minute.
ASSUME WholeSeconds == Window % Second = 0

VARIABLES
  redis,    \* redis[k]: the counter and the ticks until it expires
  local,    \* local[k]: k's window in the process's map, kept when it has ended
  down,     \* Redis is skipped: downUntil lies in the future
  pc,       \* pc[c]: where the call is, or how the last one ended
  key,      \* key[c]: the key of the visitor that c serves
  count,    \* count[c]: what INCR returned
  by,       \* history: which counter, alive still, c's last count is part of
  wait      \* history: ticks left of the Retry-After that c was told

vars == <<redis, local, down, pc, key, count, by, wait>>

NoTTL == Window + 1
Absent == [n |-> 0, ttl |-> 0]
Min2(a, b) == IF a < b THEN a ELSE b
Plus(n, d) == Min2(n + d, Limit + 1)

Init ==
  /\ redis = [k \in Keys |-> Absent]
  /\ local = [k \in Keys |-> Absent]
  /\ down = FALSE
  /\ pc = [c \in Callers |-> "idle"]
  /\ key \in {f \in [Callers -> Keys] : \A c \in Callers : f[c] \in Serves[c]}
  /\ count = [c \in Callers |-> 0]
  /\ by = [c \in Callers |-> "none"]
  /\ wait = [c \in Callers |-> 0]

-----------------------------------------------------------------------------
(* Time *)

Expires(k) == redis[k].ttl = 1

Tick ==
  /\ redis' = [k \in Keys |->
       IF Expires(k) THEN Absent
       ELSE IF redis[k].ttl \in 2 .. Window THEN [redis[k] EXCEPT !.ttl = @ - 1]
       ELSE redis[k]]
  /\ local' = [k \in Keys |-> [local[k] EXCEPT !.ttl = IF @ = 0 THEN 0 ELSE @ - 1]]
  /\ wait' = [c \in Callers |-> IF wait[c] = 0 THEN 0 ELSE wait[c] - 1]
  /\ by' = [c \in Callers |->
       IF \/ by[c] = "redis" /\ Expires(key[c])
          \/ by[c] = "local" /\ local[key[c]].ttl = 1
         THEN "none" ELSE by[c]]
  /\ UNCHANGED <<down, pc, key, count>>

Resume ==
  /\ down
  /\ down' = FALSE
  /\ UNCHANGED <<redis, local, pc, key, count, by, wait>>

-----------------------------------------------------------------------------
(* The call *)

Resting == {"idle", "granted", "refused"}

Allow(c, k) ==
  /\ pc[c] \in Resting /\ k \in Serves[c]
  /\ key' = [key EXCEPT ![c] = k]
  /\ pc' = [pc EXCEPT ![c] = IF down THEN "local" ELSE "incr"]
  /\ by' = [by EXCEPT ![c] = "none"]
  /\ wait' = [wait EXCEPT ![c] = 0]
  /\ UNCHANGED <<redis, local, down, count>>

\* go-redis sends a pipeline again when its reply is lost: d counts of one call.
Incr(c) ==
  /\ pc[c] = "incr"
  /\ LET k == key[c] IN
       \E d \in {1, 2} :
         /\ redis' = [redis EXCEPT ![k] = [n |-> Plus(@.n, d),
                                           ttl |-> IF @.n = 0 THEN NoTTL ELSE @.ttl]]
         /\ count' = [count EXCEPT ![c] = Plus(redis[k].n, d)]
  /\ by' = [by EXCEPT ![c] = "redis"]
  /\ pc' = [pc EXCEPT ![c] = "expire"]
  /\ UNCHANGED <<local, down, key, wait>>

\* Mutant: the call that counts first sets the TTL.
SetsFirst(c, e) == count[c] = 1

\* Mutant: no NX, so that every call prolongs the window.
SetsAlways(c, e) == TRUE

\* NX: a counter that has no TTL gets one.
Sets(c, e) == e.ttl = NoTTL

Expire(c) ==
  LET e == redis[key[c]] IN
    redis' = [redis EXCEPT ![key[c]].ttl = IF e.n # 0 /\ Sets(c, e) THEN Window ELSE @]

ExpireNX(c) ==
  /\ pc[c] = "expire"
  /\ Expire(c)
  /\ IF count[c] > Limit
       THEN /\ pc' = [pc EXCEPT ![c] = "ttl"]
            /\ UNCHANGED by
       ELSE /\ pc' = [pc EXCEPT ![c] = "granted"]
            /\ by' = [by EXCEPT ![c] = "none"]
  /\ count' = [count EXCEPT ![c] = 0]
  /\ UNCHANGED <<local, down, key, wait>>

\* Before INCR, between the two commands, or with both done and the reply lost.
PipelineFails(c) ==
  /\ pc[c] \in {"incr", "expire"}
  /\ UNCHANGED redis \/ (pc[c] = "expire" /\ Expire(c))
  /\ down' \in {down, TRUE}
  /\ pc' = [pc EXCEPT ![c] = "local"]
  /\ count' = [count EXCEPT ![c] = 0]
  /\ by' = [by EXCEPT ![c] = "none"]
  /\ UNCHANGED <<local, key, wait>>

\* The header drops what is left beyond whole seconds.
Told(ticks) == (ticks \div Second) * Second

Refuse(c, ticks) ==
  /\ pc' = [pc EXCEPT ![c] = "refused"]
  /\ wait' = [wait EXCEPT ![c] = Told(ticks)]

\* Redis answers TTL with the nearest second, zero for less than half of one.
TTLAnswer(ttl) == ((2 * ttl + Second) \div (2 * Second)) * Second

\* The counter has a TTL, or has none, or is gone, or the command fails.
ReadTTL(c) ==
  /\ pc[c] = "ttl"
  /\ LET ttl == redis[key[c]].ttl IN
       \/ ttl \in 1 .. Window /\ Refuse(c, TTLAnswer(ttl))
       \/ Refuse(c, Window)
  /\ UNCHANGED <<redis, local, down, key, count, by>>

-----------------------------------------------------------------------------
(* allowLocal, under the mutex *)

InMap(m) == {k \in Keys : m[k].n # 0}

\* Mutant: only windows that have ended are dropped.
PrunedOfEnded(m) == [k \in Keys |-> IF m[k].ttl = 0 THEN Absent ELSE m[k]]

\* A map that is full loses the windows that have ended, and all if that is not enough.
Pruned(m) ==
  LET current == [k \in Keys |-> IF m[k].ttl = 0 THEN Absent ELSE m[k]] IN
    IF Cardinality(InMap(current)) >= LocalMaxKeys THEN [k \in Keys |-> Absent] ELSE current

\* Whoever was refused by a window that is no longer in the map is free of it.
Released(m) ==
  [c \in Callers |-> IF by[c] = "local" /\ m[key[c]].n = 0 THEN "none" ELSE by[c]]

NewLocalWindow(c) ==
  LET k == key[c]
      m == IF Cardinality(InMap(local)) >= LocalMaxKeys THEN Pruned(local) ELSE local
  IN
  /\ pc[c] = "local" /\ local[k].ttl = 0
  /\ local' = [m EXCEPT ![k] = [n |-> 1, ttl |-> Window]]
  /\ by' = Released(m)
  /\ pc' = [pc EXCEPT ![c] = "granted"]
  /\ UNCHANGED <<redis, down, key, count, wait>>

CountLocally(c) ==
  LET k == key[c] IN
  /\ pc[c] = "local" /\ local[k].ttl # 0
  /\ local' = [local EXCEPT ![k].n = Plus(@, 1)]
  /\ IF local[k].n + 1 > Limit
       THEN Refuse(c, local[k].ttl) /\ by' = [by EXCEPT ![c] = "local"]
       ELSE pc' = [pc EXCEPT ![c] = "granted"] /\ UNCHANGED <<by, wait>>
  /\ UNCHANGED <<redis, down, key, count>>

-----------------------------------------------------------------------------
CallStep(c) ==
  \/ Incr(c) \/ ExpireNX(c) \/ PipelineFails(c) \/ ReadTTL(c)
  \/ NewLocalWindow(c) \/ CountLocally(c)

Next == Tick \/ Resume \/ \E c \in Callers : CallStep(c) \/ \E k \in Keys : Allow(c, k)

Spec == Init /\ [][Next]_vars

-----------------------------------------------------------------------------
(* Safety *)

Counter(ttls) == [n : 0 .. Limit + 1, ttl : ttls]

TypeOK ==
  /\ redis \in [Keys -> Counter(0 .. Window + 1)]
  /\ local \in [Keys -> Counter(0 .. Window)]
  /\ down \in BOOLEAN
  /\ pc \in [Callers -> Resting \cup {"incr", "expire", "ttl", "local"}]
  /\ key \in [Callers -> Keys]
  /\ count \in [Callers -> 0 .. Limit + 1]
  /\ by \in [Callers -> {"none", "redis", "local"}]
  /\ wait \in [Callers -> 0 .. Window]
  /\ Cardinality(InMap(local)) <= LocalMaxKeys

\* What a refused visitor is told is short by less than a second: when the Retry-After
\* of a refusal has passed, the counter that refused is gone, or ends within half a
\* second if Redis keeps it (TTL rounds) and within one if the process does (the header
\* cuts).  A counter without a TTL, a TTL read from the next window and a map that was
\* cleared meanwhile do not break the promise.
RetryAfterIsNearlyEnough ==
  \A c \in Callers : pc[c] = "refused" /\ wait[c] = 0 =>
    /\ by[c] = "redis" => 2 * redis[key[c]].ttl < Second
    /\ by[c] = "local" => local[key[c]].ttl < Second

-----------------------------------------------------------------------------
(* Liveness *)

\* Time passes, every visitor comes back to some caller, and calls proceed.  Redis may fail for ever.
Fairness ==
  /\ WF_vars(Tick)
  /\ \A c \in Callers : WF_vars(CallStep(c))
  /\ \A k \in Keys : SF_vars(\E c \in Callers : Allow(c, k))

FairSpec == Spec /\ Fairness

\* No key is locked out: whatever commands or replies were lost, requests for it pass
\* again and again, because each request gives a counter that lost its TTL a new one.
NeverLockedOut ==
  \A k \in Keys : []<>(\E c \in Callers : key[c] = k /\ pc[c] = "granted")
=============================================================================
