-------------------------- MODULE RateLimiter_proofs --------------------------
(***************************************************************************)
(* Theorems about RateLimiter, for any sets of visitors and callers, any   *)
(* limit, resolution of time, window of whole seconds and size of the map. *)
(***************************************************************************)
EXTENDS RateLimiter, FiniteSetTheorems, TLAPS

Types ==
  /\ redis \in [Keys -> Counter(0 .. Window + 1)]
  /\ local \in [Keys -> Counter(0 .. Window)]
  /\ down \in BOOLEAN
  /\ pc \in [Callers -> Resting \cup {"incr", "expire", "ttl", "local"}]
  /\ key \in [Callers -> Keys]
  /\ count \in [Callers -> 0 .. Limit + 1]
  /\ by \in [Callers -> {"none", "redis", "local"}]
  /\ wait \in [Callers -> 0 .. Window]

\* The map holds finitely many windows, and no more than it has room for.
MapFits == IsFiniteSet(InMap(local)) /\ Cardinality(InMap(local)) <= LocalMaxKeys

\* A counter is there as long as it has a TTL or needs one.
CountersLive == \A k \in Keys : /\ redis[k].n = 0 <=> redis[k].ttl = 0
                                /\ local[k].ttl # 0 => local[k].n # 0

\* A counter that a call is part of is there; once EXPIRE NX went out it has a TTL, and
\* it ends less than half a second after the visitor who was refused by it may return.
RefusedByRedis(c) ==
  by[c] = "redis" =>
    /\ pc[c] \in {"expire", "ttl", "refused"}
    /\ redis[key[c]].n # 0
    /\ pc[c] # "expire" => redis[key[c]].ttl \in 1 .. Window
    /\ pc[c] = "refused" => 2 * redis[key[c]].ttl < 2 * wait[c] + Second

RefusedLocally(c) ==
  by[c] = "local" => /\ pc[c] = "refused"
                     /\ local[key[c]].ttl # 0 /\ local[key[c]].ttl < wait[c] + Second

Promises == \A c \in Callers : RefusedByRedis(c) /\ RefusedLocally(c)

LimiterInv == Types /\ MapFits /\ CountersLive /\ Promises

USE LimiterConstants

-----------------------------------------------------------------------------
(* Helpers *)

LEMMA PlusIs ==
  ASSUME NEW n \in 0 .. Limit + 1, NEW d \in {1, 2}
  PROVE  Plus(n, d) \in 1 .. Limit + 1
  BY DEF Plus, Min2

LEMMA Quotient ==
  ASSUME NEW a \in Nat, NEW b \in Nat \ {0}
  PROVE  a \div b \in Nat /\ b * (a \div b) <= a /\ a < b * (a \div b) + b
  OBVIOUS

\* No multiple of b lies between two neighbouring ones.
LEMMA QuotientIs ==
  ASSUME NEW a \in Nat, NEW b \in Nat \ {0}, NEW n \in Nat
  PROVE  /\ a < b * n + b => a \div b <= n
         /\ a = b * n => a \div b = n
<1> DEFINE q == a \div b
<1>1. q \in Nat /\ b * q <= a /\ a < b * q + b
  BY Quotient
<1> HIDE DEF q
<1>2. q >= n + 1 => b * q >= b * n + b
  BY <1>1
<1>3. n >= q + 1 => b * n >= b * q + b
  BY <1>1
<1>4. (a < b * n + b => q <= n) /\ (a = b * n => q = n)
  BY <1>1, <1>2, <1>3
<1>. QED
  BY <1>4 DEF q

\* A window is some whole seconds.
LEMMA WindowIs == \E n \in Nat : Window = Second * n
<1>1. Window = Second * (Window \div Second) + (Window % Second) /\ Window \div Second \in Nat
  OBVIOUS
<1>. QED
  BY <1>1, WholeSeconds

\* The header cuts less than a second off, and nothing off whole seconds.
LEMMA ToldIs ==
  ASSUME NEW t \in 0 .. Window
  PROVE  /\ Told(t) \in 0 .. t /\ t < Told(t) + Second
         /\ \A n \in Nat : t = Second * n => Told(t) = t
<1> DEFINE q == t \div Second
<1>1. q \in Nat /\ Second * q <= t /\ t < Second * q + Second
  BY Quotient
<1>2. \A n \in Nat : t = Second * n => q = n
  BY QuotientIs
<1>3. Told(t) = q * Second
  BY DEF Told
<1> HIDE DEF q
<1>4. q * Second = Second * q /\ q * Second \in Nat
  BY <1>1
<1>5. Told(t) \in 0 .. t /\ t < Told(t) + Second
  BY <1>1, <1>3, <1>4
<1>6. ASSUME NEW n \in Nat, t = Second * n PROVE Told(t) = t
  BY <1>2, <1>3, <1>4, <1>6
<1>. QED
  BY <1>5, <1>6

\* TTL answers whole seconds within the window, short by less than half of one.
LEMMA TTLAnswerIs ==
  ASSUME NEW t \in 1 .. Window
  PROVE  /\ TTLAnswer(t) \in 0 .. Window
         /\ 2 * t < 2 * TTLAnswer(t) + Second
         /\ \E n \in Nat : TTLAnswer(t) = Second * n
<1> DEFINE a == 2 * t + Second
           b == 2 * Second
           q == a \div b
<1>1. a \in Nat /\ b \in Nat \ {0}
  OBVIOUS
<1>2. q \in Nat /\ b * q <= a /\ a < b * q + b
  BY <1>1, Quotient
<1>3. PICK n \in Nat : Window = Second * n
  BY WindowIs
<1>4. a < b * n + b
  BY <1>3
<1>5. q <= n
  BY <1>1, <1>4, QuotientIs
<1>6. TTLAnswer(t) = q * Second
  BY DEF TTLAnswer
<1> HIDE DEF q
<1>7. q * Second = Second * q /\ Second * q \in Nat /\ b * q = 2 * (Second * q)
  BY <1>2
<1>8. Second * q <= Second * n
  BY <1>2, <1>5
<1>. QED
  BY <1>2, <1>3, <1>6, <1>7, <1>8

\* What Pruned leaves: each window as it was, or none.
LEMMA PrunedIs ==
  ASSUME Types, NEW k \in Keys
  PROVE  /\ Pruned(local) \in [Keys -> Counter(0 .. Window)]
         /\ Pruned(local)[k] = Absent \/ Pruned(local)[k] = local[k]
  BY DEF Types, Pruned, Absent, Counter

LEMMA AbsentMapIsEmpty == InMap([k \in Keys |-> Absent]) = {}
  BY DEF InMap, Absent

\* A pruned map has room for one more window.
LEMMA PrunedHasRoom ==
  ASSUME Types, MapFits
  PROVE  /\ IsFiniteSet(InMap(Pruned(local)))
         /\ Cardinality(InMap(Pruned(local))) < LocalMaxKeys
<1> DEFINE current == [k \in Keys |-> IF local[k].ttl = 0 THEN Absent ELSE local[k]]
<1>1. InMap(current) \subseteq InMap(local)
  BY DEF InMap, Absent
<1>2. IsFiniteSet(InMap(current))
  BY <1>1, FS_Subset DEF MapFits
<1>3. Cardinality(InMap(current)) \in Nat
  BY <1>2, FS_CardinalityType
<1>4. CASE Cardinality(InMap(current)) >= LocalMaxKeys
  <2>1. Pruned(local) = [k \in Keys |-> Absent]
    BY <1>4 DEF Pruned
  <2>. QED
    BY <2>1, AbsentMapIsEmpty, FS_EmptySet
<1>5. CASE ~(Cardinality(InMap(current)) >= LocalMaxKeys)
  <2>1. Pruned(local) = current
    BY <1>5 DEF Pruned
  <2>. QED
    BY <1>2, <1>3, <1>5, <2>1
<1>. QED
  BY <1>4, <1>5

LEMMA InitInv == Init => LimiterInv
<1>. SUFFICES ASSUME Init PROVE LimiterInv
  OBVIOUS
<1>1. Types
  <2>1. Absent \in Counter(0 .. Window) /\ Absent \in Counter(0 .. Window + 1)
    BY DEF Absent, Counter
  <2>2. redis \in [Keys -> Counter(0 .. Window + 1)] /\ local \in [Keys -> Counter(0 .. Window)]
    BY <2>1 DEF Init
  <2>3. key \in [Callers -> Keys]
    BY DEF Init
  <2>4. count \in [Callers -> 0 .. Limit + 1] /\ wait \in [Callers -> 0 .. Window]
    BY DEF Init
  <2>5. /\ pc \in [Callers -> Resting \cup {"incr", "expire", "ttl", "local"}]
        /\ by \in [Callers -> {"none", "redis", "local"}]
        /\ down \in BOOLEAN
    BY DEF Init, Resting
  <2>. QED
    BY <2>2, <2>3, <2>4, <2>5 DEF Types
<1>2. MapFits
  <2>1. InMap(local) = {}
    BY AbsentMapIsEmpty DEF Init
  <2>2. IsFiniteSet({}) /\ Cardinality({}) = 0
    BY FS_EmptySet
  <2>3. 0 <= LocalMaxKeys
    BY LimiterConstants
  <2>. QED
    BY <2>1, <2>2, <2>3 DEF MapFits
<1>3. CountersLive /\ Promises
  BY DEF Init, CountersLive, Promises, RefusedByRedis, RefusedLocally, Absent
<1>. QED
  BY <1>1, <1>2, <1>3 DEF LimiterInv

-----------------------------------------------------------------------------
(* The steps *)

\* Time takes as much from a counter as from the wait of whoever it refused.
LEMMA TickKeepsInv ==
  ASSUME LimiterInv, Tick
  PROVE  LimiterInv'
<1>1. ASSUME NEW k \in Keys
      PROVE  /\ redis'[k] \in Counter(0 .. Window + 1) /\ local'[k] \in Counter(0 .. Window)
             /\ redis'[k].n = IF redis[k].ttl = 1 THEN 0 ELSE redis[k].n
             /\ redis'[k].ttl = IF redis[k].ttl \in 1 .. Window THEN redis[k].ttl - 1 ELSE redis[k].ttl
             /\ local'[k].n = local[k].n
             /\ local'[k].ttl = IF local[k].ttl = 0 THEN 0 ELSE local[k].ttl - 1
  <2>1. redis[k] \in Counter(0 .. Window + 1) /\ local[k] \in Counter(0 .. Window)
    BY DEF LimiterInv, Types
  <2>2. redis'[k] = IF Expires(k) THEN Absent
                    ELSE IF redis[k].ttl \in 2 .. Window THEN [redis[k] EXCEPT !.ttl = @ - 1]
                    ELSE redis[k]
    BY DEF Tick
  <2>3. local'[k] = [local[k] EXCEPT !.ttl = IF @ = 0 THEN 0 ELSE @ - 1]
    BY DEF Tick
  <2>4. /\ redis'[k] \in Counter(0 .. Window + 1)
        /\ redis'[k].n = IF redis[k].ttl = 1 THEN 0 ELSE redis[k].n
        /\ redis'[k].ttl = IF redis[k].ttl \in 1 .. Window THEN redis[k].ttl - 1 ELSE redis[k].ttl
    BY <2>1, <2>2 DEF Counter, Expires, Absent
  <2>. QED
    BY <2>1, <2>3, <2>4 DEF Counter
<1>2. Types'
  <2>1. redis' \in [Keys -> Counter(0 .. Window + 1)] /\ local' \in [Keys -> Counter(0 .. Window)]
    <3>1. /\ redis' = [k \in Keys |-> redis'[k]]
          /\ local' = [k \in Keys |-> local'[k]]
      BY DEF Tick
    <3>. QED
      BY <1>1, <3>1
  <2>2. wait' \in [Callers -> 0 .. Window]
    <3>1. wait' = [c \in Callers |-> IF wait[c] = 0 THEN 0 ELSE wait[c] - 1]
      BY DEF Tick
    <3>2. \A c \in Callers : wait[c] \in 0 .. Window
      BY DEF LimiterInv, Types
    <3>. QED
      BY <3>1, <3>2
  <2>3. by' \in [Callers -> {"none", "redis", "local"}]
    <3>1. by \in [Callers -> {"none", "redis", "local"}]
      BY DEF LimiterInv, Types
    <3>2. by' = [c \in Callers |-> by'[c]] /\ \A c \in Callers : by'[c] \in {by[c], "none"}
      BY DEF Tick
    <3>. QED
      BY <3>1, <3>2
  <2>4. UNCHANGED <<down, pc, key, count>>
    BY DEF Tick
  <2>. QED
    BY <2>1, <2>2, <2>3, <2>4 DEF LimiterInv, Types
<1>3. MapFits'
  <2>1. InMap(local') = InMap(local)
    BY <1>1 DEF InMap
  <2>2. InMap(local)' = InMap(local')
    BY DEF InMap
  <2>. QED
    BY <2>1, <2>2 DEF LimiterInv, MapFits
<1>4. CountersLive'
  <2>1. ASSUME NEW k \in Keys
        PROVE  /\ redis[k].ttl \in 0 .. Window + 1 /\ local[k].ttl \in 0 .. Window
               /\ redis[k].n = 0 <=> redis[k].ttl = 0
               /\ local[k].ttl # 0 => local[k].n # 0
    BY DEF LimiterInv, Types, Counter, CountersLive
  <2>. QED
    BY <1>1, <2>1 DEF CountersLive
<1>5. ASSUME NEW c \in Callers PROVE RefusedByRedis(c)'
  <2>. SUFFICES ASSUME by'[c] = "redis" PROVE RefusedByRedis(c)'
    BY DEF RefusedByRedis
  <2>1. by[c] = "redis" /\ redis[key[c]].ttl # 1
    BY DEF Tick, Expires
  <2>2. key[c] \in Keys /\ wait[c] \in 0 .. Window /\ redis[key[c]].ttl \in 0 .. Window + 1
    BY DEF LimiterInv, Types, Counter
  <2>3. wait'[c] = IF wait[c] = 0 THEN 0 ELSE wait[c] - 1
    BY DEF Tick
  <2>4. UNCHANGED <<pc, key>>
    BY DEF Tick
  <2>5. RefusedByRedis(c)
    BY DEF LimiterInv, Promises
  <2>6. /\ redis'[key[c]].n = redis[key[c]].n
        /\ redis[key[c]].ttl \in 1 .. Window => redis'[key[c]].ttl = redis[key[c]].ttl - 1
    BY <1>1, <2>1, <2>2
  <2>. QED
    BY <2>1, <2>2, <2>3, <2>4, <2>5, <2>6 DEF RefusedByRedis
<1>6. ASSUME NEW c \in Callers PROVE RefusedLocally(c)'
  <2>. SUFFICES ASSUME by'[c] = "local" PROVE RefusedLocally(c)'
    BY DEF RefusedLocally
  <2>1. by[c] = "local" /\ local[key[c]].ttl # 1
    BY DEF Tick
  <2>2. key[c] \in Keys /\ wait[c] \in 0 .. Window /\ local[key[c]].ttl \in 0 .. Window
    BY DEF LimiterInv, Types, Counter
  <2>3. wait'[c] = IF wait[c] = 0 THEN 0 ELSE wait[c] - 1
    BY DEF Tick
  <2>4. UNCHANGED <<pc, key>>
    BY DEF Tick
  <2>5. pc[c] = "refused" /\ local[key[c]].ttl # 0 /\ local[key[c]].ttl < wait[c] + Second
    BY <2>1 DEF LimiterInv, Promises, RefusedLocally
  <2>6. local'[key[c]].ttl = local[key[c]].ttl - 1
    BY <1>1, <2>2, <2>5
  <2>. QED
    BY <2>1, <2>2, <2>3, <2>4, <2>5, <2>6 DEF RefusedLocally
<1>. QED
  BY <1>2, <1>3, <1>4, <1>5, <1>6 DEF LimiterInv, Promises

LEMMA ResumeKeepsInv ==
  ASSUME LimiterInv, Resume
  PROVE  LimiterInv'
  BY DEF LimiterInv, Types, MapFits, InMap, CountersLive, Promises, RefusedByRedis,
         RefusedLocally, Resume

LEMMA AllowKeepsInv ==
  ASSUME LimiterInv, NEW c \in Callers, NEW k \in Keys, Allow(c, k)
  PROVE  LimiterInv'
<1>1. Types'
  BY DEF LimiterInv, Types, Allow, Resting
<1>2. MapFits' /\ CountersLive'
  BY DEF LimiterInv, MapFits, InMap, CountersLive, Allow
<1>3. Promises'
  BY DEF LimiterInv, Types, Promises, RefusedByRedis, RefusedLocally, Allow
<1>. QED
  BY <1>1, <1>2, <1>3 DEF LimiterInv

\* A counter that somebody's refusal rests on keeps its TTL.
LEMMA IncrKeepsInv ==
  ASSUME LimiterInv, NEW c \in Callers, Incr(c)
  PROVE  LimiterInv'
<1>1. key[c] \in Keys /\ pc[c] = "incr" /\ by' = [by EXCEPT ![c] = "redis"]
      /\ pc' = [pc EXCEPT ![c] = "expire"] /\ UNCHANGED <<local, down, key, wait>>
  BY DEF LimiterInv, Types, Incr
<1>2. PICK d \in {1, 2} :
        /\ redis' = [redis EXCEPT ![key[c]] =
             [n |-> Plus(redis[key[c]].n, d),
              ttl |-> IF redis[key[c]].n = 0 THEN NoTTL ELSE redis[key[c]].ttl]]
        /\ count' = [count EXCEPT ![c] = Plus(redis[key[c]].n, d)]
  BY DEF Incr
<1>3. Plus(redis[key[c]].n, d) \in 1 .. Limit + 1
  BY <1>1, PlusIs DEF LimiterInv, Types, Counter
<1>4. /\ redis'[key[c]].n \in 1 .. Limit + 1
      /\ redis'[key[c]].ttl = IF redis[key[c]].n = 0 THEN NoTTL ELSE redis[key[c]].ttl
      /\ \A k \in Keys : k # key[c] => redis'[k] = redis[k]
  BY <1>1, <1>2, <1>3 DEF LimiterInv, Types
<1>5. Types'
  <2>1. redis' \in [Keys -> Counter(0 .. Window + 1)]
    BY <1>1, <1>2, <1>3 DEF LimiterInv, Types, Counter, NoTTL
  <2>2. count' \in [Callers -> 0 .. Limit + 1]
    BY <1>2, <1>3 DEF LimiterInv, Types
  <2>. QED
    BY <1>1, <2>1, <2>2 DEF LimiterInv, Types
<1>6. MapFits'
  BY <1>1 DEF LimiterInv, MapFits, InMap
<1>7. CountersLive'
  BY <1>1, <1>4 DEF LimiterInv, Types, Counter, CountersLive, NoTTL
<1>8. ASSUME NEW e \in Callers PROVE RefusedByRedis(e)' /\ RefusedLocally(e)'
  <2>1. RefusedByRedis(e) /\ RefusedLocally(e) /\ key[e] \in Keys
    BY DEF LimiterInv, Types, Promises
  <2>2. CASE e = c
    <3>1. by'[e] = "redis" /\ pc'[e] = "expire" /\ key'[e] = key[c]
      BY <1>1, <2>2 DEF LimiterInv, Types
    <3>2. redis'[key[c]].n # 0
      BY <1>4
    <3>. QED
      BY <3>1, <3>2 DEF RefusedByRedis, RefusedLocally
  <2>3. CASE e # c
    <3>1. by'[e] = by[e] /\ pc'[e] = pc[e] /\ key'[e] = key[e] /\ wait'[e] = wait[e]
      BY <1>1, <2>3 DEF LimiterInv, Types
    <3>2. by[e] = "redis" => /\ redis'[key[e]].n # 0
                             /\ redis'[key[e]].ttl = redis[key[e]].ttl
      BY <1>4, <2>1 DEF RefusedByRedis
    <3>. QED
      BY <1>1, <2>1, <3>1, <3>2 DEF RefusedByRedis, RefusedLocally
  <2>. QED
    BY <2>2, <2>3
<1>. QED
  BY <1>5, <1>6, <1>7, <1>8 DEF LimiterInv, Promises

\* EXPIRE NX leaves each counter its number, and gives one without a TTL a whole window.
LEMMA ExpireIs ==
  ASSUME LimiterInv, NEW c \in Callers, Expire(c)
  PROVE  /\ redis' \in [Keys -> Counter(0 .. Window + 1)]
         /\ \A k \in Keys : /\ redis'[k].n = redis[k].n
                            /\ \/ redis'[k] = redis[k]
                               \/ redis[k].n # 0 /\ redis[k].ttl = NoTTL /\ redis'[k].ttl = Window
         /\ redis[key[c]].n # 0 => redis'[key[c]].ttl \in 1 .. Window
<1>1. /\ key[c] \in Keys /\ redis \in [Keys -> Counter(0 .. Window + 1)]
      /\ redis[key[c]] \in Counter(0 .. Window + 1)
      /\ redis[key[c]].n # 0 => redis[key[c]].ttl # 0
  BY DEF LimiterInv, Types, CountersLive
<1>2. redis' = [redis EXCEPT ![key[c]] = [redis[key[c]] EXCEPT !.ttl =
        IF redis[key[c]].n # 0 /\ redis[key[c]].ttl = NoTTL THEN Window ELSE @]]
  BY DEF Expire, Sets
<1>3. /\ redis'[key[c]].n = redis[key[c]].n
      /\ redis'[key[c]] \in Counter(0 .. Window + 1)
      /\ \/ redis'[key[c]] = redis[key[c]]
         \/ redis[key[c]].n # 0 /\ redis[key[c]].ttl = NoTTL /\ redis'[key[c]].ttl = Window
      /\ redis[key[c]].n # 0 => redis'[key[c]].ttl \in 1 .. Window
  BY <1>1, <1>2 DEF Counter, NoTTL
<1>4. \A k \in Keys : k # key[c] => redis'[k] = redis[k]
  BY <1>1, <1>2
<1>. QED
  BY <1>1, <1>2, <1>3, <1>4

LEMMA ExpireNXKeepsInv ==
  ASSUME LimiterInv, NEW c \in Callers, ExpireNX(c)
  PROVE  LimiterInv'
<1>1. /\ pc[c] = "expire" /\ Expire(c) /\ UNCHANGED <<local, down, key, wait>>
      /\ count' = [count EXCEPT ![c] = 0]
      /\ \/ pc' = [pc EXCEPT ![c] = "ttl"] /\ UNCHANGED by
         \/ pc' = [pc EXCEPT ![c] = "granted"] /\ by' = [by EXCEPT ![c] = "none"]
  BY DEF ExpireNX
<1>2. Types'
  <2>1. redis' \in [Keys -> Counter(0 .. Window + 1)]
    BY <1>1, ExpireIs
  <2>2. count' \in [Callers -> 0 .. Limit + 1]
    BY <1>1 DEF LimiterInv, Types
  <2>. QED
    BY <1>1, <2>1, <2>2 DEF LimiterInv, Types, Resting
<1>3. MapFits' /\ CountersLive'
  <2>1. ASSUME NEW k \in Keys
        PROVE  /\ redis'[k].n = redis[k].n
               /\ \/ redis'[k] = redis[k]
                  \/ redis[k].n # 0 /\ redis[k].ttl = NoTTL /\ redis'[k].ttl = Window
    BY <1>1, ExpireIs
  <2>2. /\ \A k \in Keys : redis'[k].n = redis[k].n
        /\ \A k \in Keys : \/ redis'[k] = redis[k]
                           \/ redis[k].n # 0 /\ redis[k].ttl = NoTTL /\ redis'[k].ttl = Window
    BY <2>1
  <2>3. UNCHANGED local
    BY <1>1
  <2>. QED
    BY <2>2, <2>3 DEF LimiterInv, MapFits, InMap, CountersLive
<1>4. ASSUME NEW d \in Callers PROVE RefusedByRedis(d)' /\ RefusedLocally(d)'
  <2>1. /\ RefusedByRedis(d) /\ RefusedLocally(d) /\ key[d] \in Keys
        /\ pc'[d] \in {pc[d], "ttl", "granted"} /\ by'[d] \in {by[d], "none"}
        /\ d # c => pc'[d] = pc[d]
        /\ by'[c] # "none" => pc'[c] = "ttl"
    BY <1>1 DEF LimiterInv, Types, Promises
  <2>2. /\ redis'[key[d]].n = redis[key[d]].n
        /\ \/ redis'[key[d]] = redis[key[d]]
           \/ redis[key[d]].ttl = NoTTL
    BY <2>1, <1>1, ExpireIs
  <2>3. NoTTL \notin 1 .. Window
    BY DEF NoTTL
  <2>4. CASE d = c
    BY <1>1, <2>1, <2>2, <2>4, ExpireIs DEF RefusedByRedis, RefusedLocally
  <2>5. CASE d # c
    BY <1>1, <2>1, <2>2, <2>3, <2>5, ExpireIs DEF RefusedByRedis, RefusedLocally
  <2>. QED
    BY <2>4, <2>5
<1>. QED
  BY <1>2, <1>3, <1>4 DEF LimiterInv, Promises

LEMMA PipelineFailsKeepsInv ==
  ASSUME LimiterInv, NEW c \in Callers, PipelineFails(c)
  PROVE  LimiterInv'
<1>1. /\ pc[c] \in {"incr", "expire"} /\ UNCHANGED <<local, key, wait>>
      /\ count' = [count EXCEPT ![c] = 0] /\ down' \in {down, TRUE}
      /\ pc' = [pc EXCEPT ![c] = "local"] /\ by' = [by EXCEPT ![c] = "none"]
  BY DEF PipelineFails
<1>2. /\ redis' \in [Keys -> Counter(0 .. Window + 1)]
      /\ \A k \in Keys : /\ redis'[k].n = redis[k].n
                         /\ \/ redis'[k] = redis[k]
                            \/ redis[k].n # 0 /\ redis[k].ttl = NoTTL /\ redis'[k].ttl = Window
  <2>1. CASE UNCHANGED redis
    BY <2>1 DEF LimiterInv, Types
  <2>2. CASE Expire(c)
    BY <2>2, ExpireIs
  <2>. QED
    BY <2>1, <2>2 DEF PipelineFails
<1>3. Types'
  <2>1. count' \in [Callers -> 0 .. Limit + 1]
    BY <1>1 DEF LimiterInv, Types
  <2>. QED
    BY <1>1, <1>2, <2>1 DEF LimiterInv, Types
<1>4. MapFits' /\ CountersLive'
  <2>1. ASSUME NEW k \in Keys
        PROVE  /\ redis'[k].n = redis[k].n
               /\ \/ redis'[k] = redis[k]
                  \/ redis[k].n # 0 /\ redis[k].ttl = NoTTL /\ redis'[k].ttl = Window
    BY <1>2
  <2>2. /\ \A k \in Keys : redis'[k].n = redis[k].n
        /\ \A k \in Keys : \/ redis'[k] = redis[k]
                           \/ redis[k].n # 0 /\ redis[k].ttl = NoTTL /\ redis'[k].ttl = Window
    BY <2>1
  <2>3. UNCHANGED local
    BY <1>1
  <2>. QED
    BY <2>2, <2>3 DEF LimiterInv, MapFits, InMap, CountersLive
<1>5. ASSUME NEW d \in Callers PROVE RefusedByRedis(d)' /\ RefusedLocally(d)'
  <2>1. /\ RefusedByRedis(d) /\ RefusedLocally(d) /\ key[d] \in Keys
        /\ d # c => pc'[d] = pc[d] /\ by'[d] = by[d]
        /\ by'[c] = "none"
    BY <1>1 DEF LimiterInv, Types, Promises
  <2>2. /\ redis'[key[d]].n = redis[key[d]].n
        /\ redis'[key[d]] = redis[key[d]] \/ redis[key[d]].ttl = NoTTL
    BY <2>1, <1>2
  <2>3. NoTTL \notin 1 .. Window
    BY DEF NoTTL
  <2>4. CASE d = c
    BY <2>1, <2>4 DEF RefusedByRedis, RefusedLocally
  <2>5. CASE d # c
    BY <1>1, <2>1, <2>2, <2>3, <2>5 DEF RefusedByRedis, RefusedLocally
  <2>. QED
    BY <2>4, <2>5
<1>. QED
  BY <1>3, <1>4, <1>5 DEF LimiterInv, Promises

\* The visitor is told the TTL that is left, to the nearest second, or a whole window,
\* which is no less.
LEMMA ReadTTLKeepsInv ==
  ASSUME LimiterInv, NEW c \in Callers, ReadTTL(c)
  PROVE  LimiterInv'
<1>1. PICK ticks \in 0 .. Window :
        /\ pc' = [pc EXCEPT ![c] = "refused"] /\ wait' = [wait EXCEPT ![c] = ticks]
        /\ redis[key[c]].ttl \in 1 .. Window => 2 * redis[key[c]].ttl < 2 * ticks + Second
  <2> DEFINE ttl == redis[key[c]].ttl
  <2>1. CASE ttl \in 1 .. Window /\ Refuse(c, TTLAnswer(ttl))
    <3>1. /\ TTLAnswer(ttl) \in 0 .. Window /\ 2 * ttl < 2 * TTLAnswer(ttl) + Second
          /\ \E n \in Nat : TTLAnswer(ttl) = Second * n
      BY <2>1, TTLAnswerIs
    <3>2. Told(TTLAnswer(ttl)) = TTLAnswer(ttl)
      BY <3>1, ToldIs
    <3>. QED
      BY <2>1, <3>1, <3>2 DEF Refuse
  <2>2. CASE Refuse(c, Window)
    <3>1. Window \in 0 .. Window
      OBVIOUS
    <3>2. PICK n \in Nat : Window = Second * n
      BY WindowIs
    <3>3. Told(Window) = Window
      BY <3>1, <3>2, ToldIs
    <3>. QED
      <4>1. /\ pc' = [pc EXCEPT ![c] = "refused"] /\ wait' = [wait EXCEPT ![c] = Window]
            /\ \A t \in 1 .. Window : 2 * t < 2 * Window + Second
        BY <2>2, <3>3 DEF Refuse
      <4>. QED
        BY <3>1, <4>1
  <2>. QED
    BY <2>1, <2>2 DEF ReadTTL
<1>2. pc[c] = "ttl" /\ UNCHANGED <<redis, local, down, key, count, by>>
  BY DEF ReadTTL
<1>3. Types'
  BY <1>1, <1>2 DEF LimiterInv, Types, Resting
<1>4. MapFits' /\ CountersLive'
  BY <1>2 DEF LimiterInv, MapFits, InMap, CountersLive
<1>5. Promises'
  BY <1>1, <1>2 DEF LimiterInv, Types, Promises, RefusedByRedis, RefusedLocally
<1>. QED
  BY <1>3, <1>4, <1>5 DEF LimiterInv

\* A window begins where none is, after the map was pruned if it was full.  Whoever was
\* refused by a window that was dropped is no longer.
LEMMA NewLocalWindowKeepsInv ==
  ASSUME LimiterInv, NEW c \in Callers, NewLocalWindow(c)
  PROVE  LimiterInv'
<1> DEFINE m == IF Cardinality(InMap(local)) >= LocalMaxKeys THEN Pruned(local) ELSE local
<1>1. /\ pc[c] = "local" /\ local[key[c]].ttl = 0 /\ key[c] \in Keys
      /\ local' = [m EXCEPT ![key[c]] = [n |-> 1, ttl |-> Window]]
      /\ by' = Released(m)
      /\ pc' = [pc EXCEPT ![c] = "granted"] /\ UNCHANGED <<redis, down, key, count, wait>>
  BY DEF NewLocalWindow, LimiterInv, Types
<1>2. /\ m \in [Keys -> Counter(0 .. Window)]
      /\ \A k \in Keys : m[k] = Absent \/ m[k] = local[k]
  BY PrunedIs DEF LimiterInv, Types
<1>3. IsFiniteSet(InMap(m)) /\ Cardinality(InMap(m)) < LocalMaxKeys
  <2>1. Cardinality(InMap(local)) \in Nat
    BY FS_CardinalityType DEF LimiterInv, MapFits
  <2>. QED
    BY <2>1, PrunedHasRoom DEF LimiterInv, MapFits
<1> HIDE DEF m
<1>4. \A d \in Callers : by'[d] = IF by[d] = "local" /\ m[key[d]].n = 0 THEN "none" ELSE by[d]
  BY <1>1 DEF Released
<1>5. Types'
  <2>1. local' \in [Keys -> Counter(0 .. Window)]
    BY <1>1, <1>2 DEF Counter
  <2>2. by' \in [Callers -> {"none", "redis", "local"}]
    BY <1>1 DEF Released, LimiterInv, Types
  <2>. QED
    BY <1>1, <2>1, <2>2 DEF LimiterInv, Types, Resting
<1>6. MapFits'
  <2>1. InMap(local') = InMap(m) \cup {key[c]}
    <3>1. local'[key[c]].n = 1
      BY <1>1, <1>2
    <3>2. \A k \in Keys : k # key[c] => local'[k] = m[k]
      BY <1>1, <1>2
    <3>. QED
      BY <1>1, <3>1, <3>2 DEF InMap
  <2>2. IsFiniteSet(InMap(local')) /\ Cardinality(InMap(local')) <= Cardinality(InMap(m)) + 1
    <3>1. /\ IsFiniteSet(InMap(m) \cup {key[c]})
          /\ \/ Cardinality(InMap(m) \cup {key[c]}) = Cardinality(InMap(m))
             \/ Cardinality(InMap(m) \cup {key[c]}) = Cardinality(InMap(m)) + 1
      BY <1>3, FS_AddElement
    <3>2. Cardinality(InMap(m)) \in Nat
      BY <1>3, FS_CardinalityType
    <3>. QED
      BY <2>1, <3>1, <3>2
  <2>3. Cardinality(InMap(m)) \in Nat /\ Cardinality(InMap(local')) \in Nat
    BY <1>3, <2>2, FS_CardinalityType
  <2>4. InMap(local)' = InMap(local')
    BY DEF InMap
  <2>. QED
    BY <1>3, <2>2, <2>3, <2>4 DEF MapFits
<1>7. CountersLive'
  <2>1. ASSUME NEW k \in Keys PROVE local'[k].ttl # 0 => local'[k].n # 0
    <3>1. m[k] = Absent \/ m[k] = local[k]
      BY <1>2
    <3>2. m[k].ttl # 0 => m[k].n # 0
      BY <3>1 DEF LimiterInv, CountersLive, Absent
    <3>. QED
      BY <1>1, <1>2, <3>2
  <2>. QED
    BY <1>1, <2>1 DEF LimiterInv, CountersLive
<1>8. ASSUME NEW d \in Callers PROVE RefusedByRedis(d)' /\ RefusedLocally(d)'
  <2>1. RefusedByRedis(d) /\ RefusedLocally(d) /\ key[d] \in Keys /\ wait[d] \in 0 .. Window
    BY DEF LimiterInv, Types, Promises
  <2>2. by'[d] # "none" => by'[d] = by[d] /\ pc'[d] = pc[d]
    BY <1>1, <1>4, <2>1 DEF LimiterInv, Types, RefusedByRedis, RefusedLocally
  <2>3. RefusedByRedis(d)'
    BY <1>1, <2>1, <2>2 DEF RefusedByRedis
  <2>4. ASSUME by'[d] = "local" PROVE local'[key[d]].ttl = local[key[d]].ttl
    <3>1. by[d] = "local" /\ m[key[d]].n # 0
      BY <1>4, <2>4
    <3>2. m[key[d]] = local[key[d]]
      BY <1>2, <2>1, <3>1 DEF Absent
    <3>3. key[d] # key[c]
      BY <1>1, <2>1, <3>1 DEF RefusedLocally
    <3>. QED
      BY <1>1, <1>2, <2>1, <3>2, <3>3
  <2>5. RefusedLocally(d)'
    BY <1>1, <2>1, <2>2, <2>4 DEF RefusedLocally
  <2>. QED
    BY <2>3, <2>5
<1>. QED
  BY <1>5, <1>6, <1>7, <1>8 DEF LimiterInv, Promises

LEMMA CountLocallyKeepsInv ==
  ASSUME LimiterInv, NEW c \in Callers, CountLocally(c)
  PROVE  LimiterInv'
<1>1. /\ pc[c] = "local" /\ local[key[c]].ttl # 0 /\ key[c] \in Keys
      /\ local[key[c]] \in Counter(0 .. Window)
      /\ local' = [local EXCEPT ![key[c]].n = Plus(@, 1)]
      /\ UNCHANGED <<redis, down, key, count>>
      /\ \/ /\ pc' = [pc EXCEPT ![c] = "refused"] /\ by' = [by EXCEPT ![c] = "local"]
            /\ wait' = [wait EXCEPT ![c] = Told(local[key[c]].ttl)]
         \/ pc' = [pc EXCEPT ![c] = "granted"] /\ UNCHANGED <<by, wait>>
  BY DEF CountLocally, Refuse, LimiterInv, Types
<1>2. /\ Told(local[key[c]].ttl) \in 0 .. Window
      /\ local[key[c]].ttl < Told(local[key[c]].ttl) + Second
  <2>1. local[key[c]].ttl \in 0 .. Window
    BY <1>1 DEF Counter
  <2>. QED
    BY <2>1, ToldIs
<1>3. /\ local' \in [Keys -> Counter(0 .. Window)]
      /\ \A k \in Keys : local'[k].ttl = local[k].ttl /\ (local'[k].n = 0 <=> local[k].n = 0)
  <2>1. Plus(local[key[c]].n, 1) \in 1 .. Limit + 1
    BY <1>1, PlusIs DEF Counter
  <2>2. local[key[c]].n # 0
    BY <1>1 DEF LimiterInv, CountersLive
  <2>3. /\ [local[key[c]] EXCEPT !.n = Plus(@, 1)] \in Counter(0 .. Window)
        /\ [local[key[c]] EXCEPT !.n = Plus(@, 1)].ttl = local[key[c]].ttl
        /\ [local[key[c]] EXCEPT !.n = Plus(@, 1)].n # 0
    BY <1>1, <2>1 DEF Counter
  <2>. QED
    BY <1>1, <2>2, <2>3 DEF LimiterInv, Types
<1>4. Types'
  <2>1. wait' \in [Callers -> 0 .. Window]
    BY <1>1, <1>2 DEF LimiterInv, Types
  <2>. QED
    BY <1>1, <1>3, <2>1 DEF LimiterInv, Types, Resting
<1>5. MapFits' /\ CountersLive'
  <2>1. InMap(local)' = InMap(local)
    BY <1>3 DEF InMap
  <2>. QED
    BY <1>1, <1>3, <2>1 DEF LimiterInv, MapFits, CountersLive
<1>6. ASSUME NEW d \in Callers PROVE RefusedByRedis(d)' /\ RefusedLocally(d)'
  <2>1. /\ RefusedByRedis(d) /\ RefusedLocally(d) /\ key[d] \in Keys
        /\ local'[key[d]].ttl = local[key[d]].ttl
    BY <1>3 DEF LimiterInv, Types, Promises
  <2>2. CASE d = c
    BY <1>1, <1>2, <2>1, <2>2 DEF RefusedByRedis, RefusedLocally, LimiterInv, Types
  <2>3. CASE d # c
    <3>1. pc'[d] = pc[d] /\ by'[d] = by[d] /\ wait'[d] = wait[d]
      BY <1>1, <2>3 DEF LimiterInv, Types
    <3>. QED
      BY <1>1, <2>1, <3>1 DEF RefusedByRedis, RefusedLocally
  <2>. QED
    BY <2>2, <2>3
<1>. QED
  BY <1>4, <1>5, <1>6 DEF LimiterInv, Promises

-----------------------------------------------------------------------------
(* The theorems *)

LEMMA LimiterInvStep ==
  ASSUME LimiterInv, [Next]_vars
  PROVE  LimiterInv'
<1>1. CASE UNCHANGED vars
  BY <1>1 DEF LimiterInv, Types, MapFits, InMap, CountersLive, Promises,
              RefusedByRedis, RefusedLocally, vars
<1>2. CASE Tick
  BY <1>2, TickKeepsInv
<1>3. CASE Resume
  BY <1>3, ResumeKeepsInv
<1>4. ASSUME NEW c \in Callers, CallStep(c) PROVE LimiterInv'
  BY <1>4, IncrKeepsInv, ExpireNXKeepsInv, PipelineFailsKeepsInv, ReadTTLKeepsInv,
     NewLocalWindowKeepsInv, CountLocallyKeepsInv DEF CallStep
<1>5. ASSUME NEW c \in Callers, NEW k \in Keys, Allow(c, k) PROVE LimiterInv'
  BY <1>5, AllowKeepsInv
<1>. QED
  BY <1>1, <1>2, <1>3, <1>4, <1>5 DEF Next

\* Types, the size of the map, and the promises of refusals, in every state.
THEOREM LimiterInvHolds == Spec => []LimiterInv
  BY InitInv, LimiterInvStep, PTL DEF Spec

\* limiter.go's local map never holds more than localMaxKeys windows, however many
\* visitors come, and counts and waits keep their ranges.
THEOREM LimiterTypes == Spec => []TypeOK
<1>1. LimiterInv => TypeOK
  BY DEF LimiterInv, Types, MapFits, TypeOK
<1>. QED
  BY <1>1, LimiterInvHolds, PTL

\* A visitor who waits as long as the header said is no longer refused by that counter,
\* or only for the rest of a second: less than half of it if Redis keeps the counter.
THEOREM WaitIsNearlyEnough == Spec => []RetryAfterIsNearlyEnough
<1>1. ASSUME LimiterInv PROVE RetryAfterIsNearlyEnough
  <2>. SUFFICES ASSUME NEW c \in Callers, pc[c] = "refused", wait[c] = 0
                PROVE  /\ by[c] = "redis" => 2 * redis[key[c]].ttl < Second
                       /\ by[c] = "local" => local[key[c]].ttl < Second
    BY DEF RetryAfterIsNearlyEnough
  <2>1. RefusedByRedis(c) /\ RefusedLocally(c)
    BY <1>1 DEF LimiterInv, Promises
  <2>. QED
    BY <2>1 DEF RefusedByRedis, RefusedLocally
<1>. QED
  BY <1>1, LimiterInvHolds, PTL

-----------------------------------------------------------------------------
(* How many a counter lets pass *)

VARIABLES
  admitted,  \* history: admitted[k]: calls to which k's counter in Redis, alive still,
             \* gave a number within the limit
  passed     \* history: passed[k]: calls that k's window in the map has granted

\* Only these calls are granted: PipelineFails turns some that were admitted away to the
\* map, ExpireNX grants the others.
Admits(c, k) == key[c] = k /\ pc[c] = "incr" /\ pc'[c] = "expire" /\ count'[c] <= Limit

Passes(c, k) == key[c] = k /\ pc[c] = "local" /\ pc'[c] = "granted"

NoneCounted == admitted = [k \in Keys |-> 0] /\ passed = [k \in Keys |-> 0]

Counted ==
  /\ admitted' = [k \in Keys |->
       IF redis'[k].n = 0 THEN 0
       ELSE IF \E c \in Callers : Admits(c, k) THEN admitted[k] + 1 ELSE admitted[k]]
  /\ passed' = [k \in Keys |->
       LET before == IF local[k].ttl = 0 /\ local'[k].ttl # 0 THEN 0 ELSE passed[k]
       IN IF local'[k].n = 0 THEN 0
          ELSE IF \E c \in Callers : Passes(c, k) THEN before + 1 ELSE before]

\* Spec with the two histories, which follow its steps and restrain none.
CountedSpec == Init /\ NoneCounted /\ [][Next /\ Counted]_<<vars, admitted, passed>>

\* A fixed window lets no more than Limit requests of a visitor pass: neither a counter
\* in Redis, from its first INCR to its end, nor a window of the process's own map.
LimitPerWindow == \A k \in Keys : admitted[k] <= Limit /\ passed[k] <= Limit

\* Each admission has its own number below the counter's.
Within(k) ==
  /\ admitted[k] \in 0 .. Limit /\ admitted[k] <= redis[k].n
  /\ passed[k] \in 0 .. Limit /\ passed[k] <= local[k].n

\* What a step other than Incr does to Redis's counters: none grows, none is admitted.
LEMMA CountersOnlyEnd ==
  ASSUME LimiterInv, Next, \A c \in Callers : ~Incr(c), NEW k \in Keys
  PROVE  /\ redis'[k].n \in {0, redis[k].n}
         /\ ~\E c \in Callers : Admits(c, k)
<1>1. redis[k].n \in 0 .. Limit + 1
  BY DEF LimiterInv, Types, Counter
<1>2. CASE Tick
  <2>1. redis'[k].n \in {0, redis[k].n}
    BY <1>1, <1>2 DEF Tick, Absent
  <2>. QED
    BY <1>2, <2>1 DEF Tick, Admits
<1>3. CASE Resume
  BY <1>3 DEF Resume, Admits
<1>4. ASSUME NEW c \in Callers, NEW j \in Keys, Allow(c, j) PROVE /\ redis'[k].n = redis[k].n
                                                                  /\ ~\E d \in Callers : Admits(d, k)
  BY <1>4 DEF Allow, Admits, LimiterInv, Types, Resting
<1>5. ASSUME NEW c \in Callers, CallStep(c) PROVE /\ redis'[k].n = redis[k].n
                                                  /\ ~\E d \in Callers : Admits(d, k)
  <2>1. /\ \A d \in Callers : pc[d] = "incr" /\ pc'[d] = "expire" => d = c /\ Incr(c)
        /\ UNCHANGED redis \/ Expire(c)
    BY <1>5 DEF CallStep, Incr, ExpireNX, PipelineFails, ReadTTL, NewLocalWindow, CountLocally,
                Refuse, LimiterInv, Types
  <2>2. redis'[k].n = redis[k].n
    BY <2>1, ExpireIs
  <2>. QED
    BY <2>1, <2>2 DEF Admits
<1>. QED
  BY <1>2, <1>3, <1>4, <1>5 DEF Next

\* INCR gives a number above all that it gave before, and counts one admission for it.
LEMMA IncrCounts ==
  ASSUME LimiterInv, NEW c \in Callers, Incr(c), NEW k \in Keys
  PROVE  /\ redis'[k].n \in Nat
         /\ (\E d \in Callers : Admits(d, k)) => redis'[k].n > redis[k].n /\ redis'[k].n <= Limit
         /\ redis'[k].n >= redis[k].n
<1>1. /\ redis[k].n \in 0 .. Limit + 1 /\ key[c] \in Keys
      /\ redis[key[c]].n \in 0 .. Limit + 1
  BY DEF LimiterInv, Types, Counter
<1>2. PICK d \in {1, 2} :
        /\ redis' = [redis EXCEPT ![key[c]] =
             [n |-> Plus(redis[key[c]].n, d),
              ttl |-> IF redis[key[c]].n = 0 THEN NoTTL ELSE redis[key[c]].ttl]]
        /\ count' = [count EXCEPT ![c] = Plus(redis[key[c]].n, d)]
        /\ pc' = [pc EXCEPT ![c] = "expire"]
  BY DEF Incr
<1>3. count'[c] = redis'[key[c]].n /\ redis'[key[c]].n = Plus(redis[key[c]].n, d)
  BY <1>1, <1>2 DEF LimiterInv, Types
<1>4. /\ Plus(redis[key[c]].n, d) \in Nat /\ Plus(redis[key[c]].n, d) >= redis[key[c]].n
      /\ Plus(redis[key[c]].n, d) <= Limit => Plus(redis[key[c]].n, d) > redis[key[c]].n
  BY <1>1 DEF Plus, Min2
<1>5. CASE k = key[c]
  <2>1. \A e \in Callers : Admits(e, k) => e = c
    BY <1>2 DEF Admits, LimiterInv, Types
  <2>. QED
    BY <1>3, <1>4, <1>5, <2>1 DEF Admits
<1>6. CASE k # key[c]
  <2>1. redis'[k] = redis[k]
    BY <1>1, <1>2, <1>6 DEF LimiterInv, Types
  <2>2. ~\E e \in Callers : Admits(e, k)
    BY <1>2, <1>6 DEF Admits, LimiterInv, Types
  <2>. QED
    BY <1>1, <2>1, <2>2
<1>. QED
  BY <1>5, <1>6

\* What a step does to a window of the map: it ends, it begins with one call, or it
\* grants a call a number of its own.
LEMMA WindowCounts ==
  ASSUME LimiterInv, Next, NEW k \in Keys
  PROVE  LET granted == \E c \in Callers : Passes(c, k)
         IN /\ local'[k].n \in Nat
            /\ \/ local'[k].n = 0
               \/ local[k].ttl = 0 /\ local'[k].ttl # 0 /\ local'[k].n = 1
               \/ local'[k].n > local[k].n /\ (granted => local'[k].n <= Limit)
                  /\ ~(local[k].ttl = 0 /\ local'[k].ttl # 0)
               \/ local'[k].n >= local[k].n /\ ~granted /\ ~(local[k].ttl = 0 /\ local'[k].ttl # 0)
<1> DEFINE granted == \E c \in Callers : Passes(c, k)
<1>1. /\ local[k].n \in 0 .. Limit + 1 /\ local[k].ttl \in 0 .. Window
      /\ local[k].ttl # 0 => local[k].n # 0
  BY DEF LimiterInv, Types, Counter, CountersLive
<1>2. CASE Tick
  <2>1. local'[k].n = local[k].n /\ (local[k].ttl = 0 => local'[k].ttl = 0)
    BY <1>1, <1>2 DEF Tick, LimiterInv, Types, Counter
  <2>2. ~granted
    BY <1>2 DEF Tick, Passes
  <2>. QED
    BY <1>1, <2>1, <2>2
<1>3. CASE Resume
  BY <1>1, <1>3 DEF Resume, Passes
<1>4. ASSUME NEW c \in Callers, NEW j \in Keys, Allow(c, j) PROVE UNCHANGED local /\ ~granted
  BY <1>4 DEF Allow, Passes, LimiterInv, Types, Resting
<1>5. ASSUME NEW c \in Callers, Incr(c) \/ ExpireNX(c) \/ PipelineFails(c) \/ ReadTTL(c)
      PROVE  UNCHANGED local /\ ~granted
  BY <1>5 DEF Incr, ExpireNX, PipelineFails, ReadTTL, Refuse, Passes, LimiterInv, Types
<1>6. ASSUME NEW c \in Callers, NewLocalWindow(c)
      PROVE  \/ local'[k].n = 0
             \/ local[k].ttl = 0 /\ local'[k].ttl # 0 /\ local'[k].n = 1
             \/ local'[k] = local[k] /\ ~granted
  <2> DEFINE m == IF Cardinality(InMap(local)) >= LocalMaxKeys THEN Pruned(local) ELSE local
  <2>1. /\ local[key[c]].ttl = 0 /\ key[c] \in Keys
        /\ local' = [m EXCEPT ![key[c]] = [n |-> 1, ttl |-> Window]]
        /\ pc' = [pc EXCEPT ![c] = "granted"] /\ UNCHANGED key
    BY <1>6 DEF NewLocalWindow, LimiterInv, Types
  <2>2. m \in [Keys -> Counter(0 .. Window)] /\ (m[k] = Absent \/ m[k] = local[k])
    BY PrunedIs DEF LimiterInv, Types
  <2> HIDE DEF m
  <2>3. CASE k = key[c]
    BY <2>1, <2>2, <2>3
  <2>4. CASE k # key[c]
    <3>1. local'[k] = m[k]
      BY <2>1, <2>2, <2>4
    <3>2. ~granted
      BY <2>1, <2>4 DEF Passes, LimiterInv, Types
    <3>. QED
      BY <2>2, <3>1, <3>2 DEF Absent
  <2>. QED
    BY <2>3, <2>4
<1>7. ASSUME NEW c \in Callers, CountLocally(c)
      PROVE  /\ local'[k].n \in Nat /\ local'[k].ttl = local[k].ttl
             /\ local'[k].n >= local[k].n
             /\ granted => local'[k].n > local[k].n /\ local'[k].n <= Limit
  <2>1. /\ key[c] \in Keys /\ local[key[c]].n \in 0 .. Limit + 1
        /\ local' = [local EXCEPT ![key[c]].n = Plus(@, 1)]
        /\ pc'[c] = "granted" => local[key[c]].n + 1 <= Limit
        /\ \A d \in Callers : d # c => pc'[d] = pc[d]
    BY <1>7 DEF CountLocally, Refuse, LimiterInv, Types, Counter
  <2>2. /\ Plus(local[key[c]].n, 1) \in Nat /\ Plus(local[key[c]].n, 1) >= local[key[c]].n
        /\ local[key[c]].n + 1 <= Limit => Plus(local[key[c]].n, 1) = local[key[c]].n + 1
    BY <2>1 DEF Plus, Min2
  <2>3. granted => key[c] = k /\ pc'[c] = "granted"
    BY <2>1 DEF Passes
  <2>4. /\ local'[k].ttl = local[k].ttl
        /\ local'[k].n = IF k = key[c] THEN Plus(local[key[c]].n, 1) ELSE local[k].n
    BY <2>1 DEF LimiterInv, Types, Counter
  <2>. QED
    BY <1>1, <2>1, <2>2, <2>3, <2>4
<1>8. CASE \E c \in Callers, j \in Keys : Allow(c, j)
  BY <1>1, <1>4, <1>8
<1>9. CASE \E c \in Callers : Incr(c) \/ ExpireNX(c) \/ PipelineFails(c) \/ ReadTTL(c)
  BY <1>1, <1>5, <1>9
<1>10. CASE \E c \in Callers : NewLocalWindow(c)
  BY <1>1, <1>6, <1>10
<1>11. CASE \E c \in Callers : CountLocally(c)
  BY <1>1, <1>7, <1>11
<1>. QED
  BY <1>2, <1>3, <1>8, <1>9, <1>10, <1>11 DEF Next, CallStep

\* At most Limit requests of a visitor pass per window, whatever is resent, lost or
\* counted by others between the two commands, and whatever the full map drops.
THEOREM WindowLimit == CountedSpec => []LimitPerWindow
<1> DEFINE Inv == /\ LimiterInv
                  /\ admitted = [k \in Keys |-> admitted[k]] /\ passed = [k \in Keys |-> passed[k]]
                  /\ \A k \in Keys : Within(k)
<1>1. Init /\ NoneCounted => Inv
  <2>. SUFFICES ASSUME Init, NoneCounted PROVE Inv
    OBVIOUS
  <2>1. \A k \in Keys : redis[k].n = 0 /\ local[k].n = 0
    BY DEF Init, Absent
  <2>2. \A k \in Keys : Within(k)
    BY <2>1 DEF NoneCounted, Within
  <2>3. admitted = [k \in Keys |-> admitted[k]] /\ passed = [k \in Keys |-> passed[k]]
    BY DEF NoneCounted
  <2>. QED
    BY <2>2, <2>3, InitInv
<1>2. ASSUME Inv, Next, Counted PROVE Inv'
  <2>1. LimiterInv'
    <3>1. LimiterInv /\ [Next]_vars => LimiterInv'
      BY LimiterInvStep
    <3>. QED
      BY <1>2, <3>1
  <2>2. admitted' = [k \in Keys |-> admitted'[k]] /\ passed' = [k \in Keys |-> passed'[k]]
    BY <1>2 DEF Counted
  <2>3. ASSUME NEW k \in Keys PROVE Within(k)'
    <3>1. Within(k) /\ redis[k].n \in 0 .. Limit + 1 /\ local[k].n \in 0 .. Limit + 1
      BY <1>2 DEF LimiterInv, Types, Counter
    <3>2. /\ admitted'[k] = IF redis'[k].n = 0 THEN 0
                            ELSE IF \E c \in Callers : Admits(c, k) THEN admitted[k] + 1 ELSE admitted[k]
          /\ passed'[k] = LET before == IF local[k].ttl = 0 /\ local'[k].ttl # 0 THEN 0 ELSE passed[k]
                          IN IF local'[k].n = 0 THEN 0
                             ELSE IF \E c \in Callers : Passes(c, k) THEN before + 1 ELSE before
      BY <1>2 DEF Counted
    <3>3. admitted'[k] \in 0 .. Limit /\ admitted'[k] <= redis'[k].n
      <4>1. CASE \A c \in Callers : ~Incr(c)
        BY <1>2, <3>1, <3>2, <4>1, CountersOnlyEnd DEF Within
      <4>2. ASSUME NEW c \in Callers, Incr(c) PROVE admitted'[k] \in 0 .. Limit /\ admitted'[k] <= redis'[k].n
        BY <1>2, <3>1, <3>2, <4>2, IncrCounts DEF Within
      <4>. QED
        BY <4>1, <4>2
    <3>4. passed'[k] \in 0 .. Limit /\ passed'[k] <= local'[k].n
      BY <1>2, <3>1, <3>2, WindowCounts DEF Within
    <3>. QED
      BY <3>3, <3>4 DEF Within
  <2>. QED
    BY <2>1, <2>2, <2>3
<1>3. ASSUME Inv, UNCHANGED <<vars, admitted, passed>> PROVE Inv'
  <2>1. LimiterInv'
    BY <1>3, LimiterInvStep DEF vars
  <2>2. UNCHANGED <<redis, local, admitted, passed>>
    BY <1>3 DEF vars
  <2>. QED
    BY <1>3, <2>1, <2>2 DEF Within
<1>4. Inv => LimitPerWindow
  BY DEF LimitPerWindow, Within
<1>. QED
  BY <1>1, <1>2, <1>3, <1>4, PTL DEF CountedSpec
=============================================================================
