------------------------- MODULE FetchCache_proofs --------------------------
(***************************************************************************)
(* Proofs about FetchCached and Invalidate for one key, for every number   *)
(* of instances, callers and versions and whatever Redis does.             *)
(***************************************************************************)
EXTENDS FetchCache, FiniteSetTheorems, TLAPS

Entries == [v : Nat, stale : BOOLEAN]

Labels == {"idle", "deleting", "reading", "get", "fill",
           "do", "spawned", "fetching", "storing", "setting", "waiting"}

CacheTypes ==
  /\ origin \in Nat
  /\ redis \in Entries
  /\ l1 \in [Instances -> Entries]
  /\ paused \in [Instances -> BOOLEAN]
  /\ leader \in [Instances -> Goroutines \cup {Nobody}]
  /\ pc \in [Goroutines -> Labels]
  /\ got \in [Goroutines -> Entries]
  /\ refresh \in [Callers -> [since : Nat, alone : BOOLEAN]]

\* A goroutine that loads is the one the group of its instance holds, the group holds
\* only goroutines that load, and those that wait have one to wait for.
Flights ==
  /\ \A g \in Goroutines : Loading(g) => leader[At(g)] = g
  /\ \A i \in Instances : leader[i] # Nobody => At(leader[i]) = i /\ Loading(leader[i])
  /\ \A g \in Goroutines : pc[g] = "waiting" => leader[At(g)] # Nobody

\* A refresh that nothing has disturbed is the only work under way: its copies are
\* gone until it has fetched, and what it fetched is no older than its beginning.
Undisturbed(c) ==
  /\ \A g \in Goroutines : g # Call(c) => pc[g] = "idle"
  /\ refresh[c].since <= origin
  /\ pc[Call(c)] \in {"deleting", "reading", "get"} => l1[On[c]] = None
  /\ pc[Call(c)] \in {"reading", "get"} => redis = None
  /\ pc[Call(c)] \notin {"idle", "fill", "waiting"}
  /\ pc[Call(c)] \in {"storing", "setting"} => got[Call(c)].v >= refresh[c].since

AloneInv == \A c \in Callers : refresh[c].alone => Undisturbed(c)

CacheInv == CacheTypes /\ Flights /\ AloneInv

-----------------------------------------------------------------------------

\* Goroutines have names of their own, and each belongs to one instance.
LEMMA Names ==
  /\ \A c \in Callers : /\ Call(c) \in Goroutines /\ Revalidation(c) \in Goroutines
                        /\ At(Call(c)) = On[c] /\ At(Revalidation(c)) = On[c]
                        /\ On[c] \in Instances
  /\ \A c, d \in Callers : (Call(c) = Call(d) <=> c = d) /\ Call(c) # Revalidation(d)
  /\ \A g \in Goroutines : At(g) \in Instances
  /\ Nobody \notin Goroutines
  BY CacheConstants DEF Call, Revalidation, Goroutines, At, Nobody

LEMMA NoneIsEntry == None \in Entries /\ NoRefresh \in [since : Nat, alone : BOOLEAN]
  BY DEF None, NoRefresh, Entries

LEMMA AgedIsEntry ==
  ASSUME NEW e \in Entries
  PROVE  Aged(e) \in Entries /\ Aged(e).v = e.v /\ (e = None => Aged(e) = None)
  BY DEF Aged, Entries, None

LEMMA InitInv == Init => CacheInv
<1>. SUFFICES ASSUME Init PROVE CacheInv
  OBVIOUS
<1>1. CacheTypes
  BY NoneIsEntry DEF Init, CacheTypes, Labels
<1>2. Flights
  BY Names DEF Init, Flights, Loading
<1>3. AloneInv
  BY DEF Init, AloneInv, NoRefresh
<1>. QED
  BY <1>1, <1>2, <1>3 DEF CacheInv

\* Flights depends on leaders and places alone.
LEMMA FlightsKept ==
  ASSUME CacheTypes, Flights, leader' = leader,
         \A g \in Goroutines : (Loading(g)' <=> Loading(g)) /\ (pc'[g] = "waiting" => pc[g] = "waiting")
  PROVE  Flights'
  BY Names DEF CacheTypes, Flights

\* Age, Publish, Expire, evictions and the end of a pause.
LEMMA SurroundingsKeepInv ==
  ASSUME CacheInv, Age \/ Publish \/ Expire \/ (\E i \in Instances : Evict(i) \/ Resume(i)) \/ UNCHANGED vars
  PROVE  CacheInv'
<1>1. UNCHANGED <<leader, pc, refresh>>
  BY DEF Age, Publish, Expire, Evict, Resume, vars
<1>2. /\ origin' \in Nat /\ origin' >= origin /\ redis' \in Entries /\ (redis = None => redis' = None)
      /\ l1' \in [Instances -> Entries]
      /\ \A i \in Instances : l1[i] = None => l1'[i] = None
      /\ got' \in [Goroutines -> Entries]
      /\ \A g \in Goroutines : got'[g].v = got[g].v
  <2>1. CASE Age
    BY <2>1, AgedIsEntry DEF CacheInv, CacheTypes, Age
  <2>2. CASE Publish \/ Expire \/ UNCHANGED vars
    BY <2>2, NoneIsEntry DEF CacheInv, CacheTypes, Publish, Expire, vars
  <2>3. CASE \E i \in Instances : Evict(i) \/ Resume(i)
    BY <2>3, NoneIsEntry DEF CacheInv, CacheTypes, Evict, Resume
  <2>. QED
    BY <2>1, <2>2, <2>3
<1>3. paused' \in [Instances -> BOOLEAN]
  BY DEF CacheInv, CacheTypes, Age, Publish, Expire, Evict, Resume, vars
<1>4. CacheTypes' /\ Flights'
  BY <1>1, <1>2, <1>3, FlightsKept DEF CacheInv, CacheTypes, Loading
<1>5. AloneInv'
  <2>. SUFFICES ASSUME NEW c \in Callers, refresh[c].alone PROVE Undisturbed(c)'
    BY <1>1 DEF AloneInv
  <2>1. Undisturbed(c) /\ refresh[c].since \in Nat /\ origin \in Nat
    BY DEF CacheInv, AloneInv, CacheTypes
  <2>. QED
    BY <1>1, <1>2, <2>1, Names DEF Undisturbed
<1>. QED
  BY <1>4, <1>5 DEF CacheInv

-----------------------------------------------------------------------------
(* The call *)

\* While another caller works, no refresh is undisturbed but its own.
LEMMA WorkDisturbs ==
  ASSUME CacheInv, NEW c \in Callers, NEW g \in {Call(c), Revalidation(c)}, pc[g] # "idle"
  PROVE  \A d \in Callers : refresh[d].alone => d = c /\ g = Call(c)
<1>. SUFFICES ASSUME NEW d \in Callers, refresh[d].alone PROVE g = Call(d)
  BY Names
<1>. QED
  BY Names DEF CacheInv, AloneInv, Undisturbed

LEMMA DisturbIs ==
  ASSUME CacheTypes, NEW c \in Callers
  PROVE  /\ Disturb(c) \in [Callers -> [since : Nat, alone : BOOLEAN]]
         /\ \A d \in Callers : Disturb(c)[d].alone => d = c /\ refresh[d].alone
         /\ \A d \in Callers : Disturb(c)[d].since = refresh[d].since
  BY DEF CacheTypes, Disturb

LEMMA EndedIs ==
  ASSUME NEW r \in [Callers -> [since : Nat, alone : BOOLEAN]], NEW R
  PROVE  /\ Ended(r, R) \in [Callers -> [since : Nat, alone : BOOLEAN]]
         /\ \A c \in Callers : Call(c) \in R => ~Ended(r, R)[c].alone
         /\ \A c \in Callers : Ended(r, R)[c].alone => Ended(r, R)[c] = r[c]
  BY NoneIsEntry DEF Ended, NoRefresh

LEMMA BeginRefreshKeepsInv ==
  ASSUME CacheInv, NEW c \in Callers, BeginRefresh(c)
  PROVE  CacheInv'
<1>1. CacheTypes'
  BY NoneIsEntry, DisturbIs, Names DEF CacheInv, CacheTypes, BeginRefresh, DropL1, Labels, Quiet
<1>2. Flights'
  BY Names, FlightsKept DEF CacheInv, CacheTypes, BeginRefresh, Loading
<1>3. AloneInv'
  <2>. SUFFICES ASSUME NEW d \in Callers, refresh'[d].alone PROVE Undisturbed(d)'
    BY DEF AloneInv
  <2>1. d = c /\ Quiet(c) /\ refresh'[c].since = origin
    BY DisturbIs DEF CacheInv, CacheTypes, BeginRefresh
  <2>2. pc'[Call(c)] = "deleting" /\ l1'[On[c]] = None /\ \A g \in Goroutines : g # Call(c) => pc'[g] = "idle"
    BY <2>1, Names DEF CacheInv, CacheTypes, BeginRefresh, DropL1, Quiet
  <2>. QED
    BY <2>1, <2>2 DEF CacheInv, CacheTypes, BeginRefresh, Undisturbed
<1>. QED
  BY <1>1, <1>2, <1>3 DEF CacheInv

LEMMA RedisWriteTypes ==
  ASSUME CacheTypes, NEW i \in Instances, NEW e \in Entries, NEW ok \in BOOLEAN, RedisWrite(i, e, ok)
  PROVE  /\ redis' \in Entries /\ paused' \in [Instances -> BOOLEAN]
         /\ ok => redis' = e
  BY DEF CacheTypes, RedisWrite

LEMMA DropRedisKeepsInv ==
  ASSUME CacheInv, NEW c \in Callers, DropRedis(c)
  PROVE  CacheInv'
<1>. PICK ok \in BOOLEAN : RedisWrite(On[c], None, ok) /\ refresh' = [refresh EXCEPT ![c].alone = @ /\ ok]
  BY DEF DropRedis
<1>1. redis' \in Entries /\ paused' \in [Instances -> BOOLEAN] /\ (ok => redis' = None)
  BY Names, NoneIsEntry, RedisWriteTypes DEF CacheInv
<1>2. CacheTypes'
  BY <1>1, Names DEF CacheInv, CacheTypes, DropRedis, Labels
<1>3. Flights'
  BY Names, FlightsKept DEF CacheInv, CacheTypes, DropRedis, Loading
<1>4. AloneInv'
  <2>. SUFFICES ASSUME NEW d \in Callers, refresh'[d].alone PROVE Undisturbed(d)'
    BY DEF AloneInv
  <2>1. refresh[d].alone /\ refresh'[d].since = refresh[d].since /\ (d = c => ok)
    BY DEF CacheInv, CacheTypes
  <2>2. d = c
    BY <2>1, Names, WorkDisturbs DEF DropRedis
  <2>3. Undisturbed(c) /\ redis' = None
    BY <1>1, <2>1, <2>2 DEF CacheInv, AloneInv
  <2>4. pc'[Call(c)] = "reading" /\ \A g \in Goroutines : g # Call(c) => pc'[g] = pc[g]
    BY Names DEF CacheInv, CacheTypes, DropRedis
  <2>. QED
    BY <2>1, <2>2, <2>3, <2>4, Names DEF DropRedis, Undisturbed
<1>. QED
  BY <1>2, <1>3, <1>4 DEF CacheInv

\* Serving an entry ends the call and may start a goroutine.
LEMMA ServeIs ==
  ASSUME CacheTypes, NEW c \in Callers, NEW e \in Entries, Serve(c, e)
  PROVE  /\ pc' \in [Goroutines -> Labels] /\ got' \in [Goroutines -> Entries]
         /\ pc'[Call(c)] = "idle" /\ pc'[Revalidation(c)] \in {pc[Revalidation(c)], "spawned"}
         /\ pc'[Revalidation(c)] # pc[Revalidation(c)] => pc[Revalidation(c)] = "idle"
         /\ \A g \in Goroutines \ {Call(c), Revalidation(c)} : pc'[g] = pc[g]
<1>1. AfterServing(c, e) \in [Goroutines -> Labels]
  BY Names DEF CacheTypes, AfterServing, Labels
<1>2. got' \in [Goroutines -> Entries]
  BY NoneIsEntry DEF CacheTypes, Serve
<1>. QED
  BY <1>1, <1>2, Names DEF CacheTypes, Serve, AfterServing

\* A call that ends leaves no undisturbed refresh: others were disturbed by it.
LEMMA EndOfCall ==
  ASSUME CacheInv, NEW c \in Callers, NEW e \in Entries, Serve(c, e), leader' = leader,
         pc[Call(c)] \in {"idle", "reading", "fill"},
         refresh' \in [Callers -> [since : Nat, alone : BOOLEAN]],
         \A d \in Callers : ~refresh'[d].alone
  PROVE  Flights' /\ AloneInv' /\ pc' \in [Goroutines -> Labels] /\ got' \in [Goroutines -> Entries]
<1>1. pc' \in [Goroutines -> Labels] /\ got' \in [Goroutines -> Entries]
  BY ServeIs DEF CacheInv
<1>2. Flights'
  <2>1. \A g \in Goroutines : (Loading(g)' <=> Loading(g)) /\ (pc'[g] = "waiting" => pc[g] = "waiting")
    BY ServeIs DEF CacheInv, Loading
  <2>. QED
    BY <2>1, FlightsKept DEF CacheInv
<1>. QED
  BY <1>1, <1>2 DEF AloneInv

LEMMA ReadL1KeepsInv ==
  ASSUME CacheInv, NEW c \in Callers, ReadL1(c)
  PROVE  CacheInv'
<1>1. CASE l1[On[c]] # None
  <2>1. Serve(c, l1[On[c]]) /\ refresh' = Ended(Disturb(c), {Call(c)}) /\ l1[On[c]] \in Entries
    BY <1>1, Names DEF ReadL1, CacheInv, CacheTypes
  <2>2. refresh' \in [Callers -> [since : Nat, alone : BOOLEAN]] /\ \A d \in Callers : ~refresh'[d].alone
    BY <2>1, DisturbIs, EndedIs DEF CacheInv
  <2>3. pc[Call(c)] \in {"idle", "reading", "fill"} /\ UNCHANGED <<origin, redis, l1, paused, leader>>
    BY DEF ReadL1
  <2>4. Flights' /\ AloneInv' /\ pc' \in [Goroutines -> Labels] /\ got' \in [Goroutines -> Entries]
    BY <2>1, <2>2, <2>3, EndOfCall
  <2>. QED
    BY <2>2, <2>3, <2>4 DEF CacheInv, CacheTypes
<1>2. CASE l1[On[c]] = None
  <2>1. pc' = [pc EXCEPT ![Call(c)] = "get"] /\ refresh' = Disturb(c) /\ UNCHANGED <<origin, redis, l1, paused, leader, got>>
    BY <1>2 DEF ReadL1
  <2>2. CacheTypes'
    BY <2>1, DisturbIs, Names DEF CacheInv, CacheTypes, Labels
  <2>3. Flights'
    BY <2>1, Names, FlightsKept DEF CacheInv, CacheTypes, ReadL1, Loading
  <2>4. AloneInv'
    <3>. SUFFICES ASSUME NEW d \in Callers, refresh'[d].alone PROVE Undisturbed(d)'
      BY DEF AloneInv
    <3>1. d = c /\ refresh[c].alone /\ refresh'[c].since = refresh[c].since
      BY <2>1, DisturbIs DEF CacheInv
    <3>2. Undisturbed(c) /\ pc[Call(c)] = "reading"
      BY <3>1 DEF CacheInv, AloneInv, ReadL1, Undisturbed
    <3>3. pc'[Call(c)] = "get" /\ \A g \in Goroutines : g # Call(c) => pc'[g] = pc[g]
      BY <2>1, Names DEF CacheInv, CacheTypes
    <3>. QED
      BY <2>1, <3>1, <3>2, <3>3 DEF Undisturbed
  <2>. QED
    BY <2>2, <2>3, <2>4 DEF CacheInv
<1>. QED
  BY <1>1, <1>2

\* Redis answers or does not; an undisturbed refresh finds nothing there.
LEMMA RedisReadKeepsInv ==
  ASSUME CacheInv, NEW c \in Callers, RedisHit(c) \/ RedisMiss(c)
  PROVE  CacheInv'
<1>1. /\ pc[Call(c)] = "get" /\ pc'[Call(c)] \in {"fill", "do"}
      /\ \A g \in Goroutines : g # Call(c) => pc'[g] = pc[g]
      /\ pc'[Call(c)] = "fill" => redis # None
      /\ UNCHANGED <<origin, redis, l1, leader, refresh>>
  BY Names DEF CacheInv, CacheTypes, RedisHit, RedisMiss
<1>2. CacheTypes'
  BY Names DEF CacheInv, CacheTypes, RedisHit, RedisMiss, Labels
<1>3. Flights'
  BY <1>1, FlightsKept DEF CacheInv, Loading
<1>4. AloneInv'
  <2>. SUFFICES ASSUME NEW d \in Callers, refresh[d].alone PROVE Undisturbed(d)'
    BY <1>1 DEF AloneInv
  <2>1. d = c /\ Undisturbed(c)
    BY <1>1, Names, WorkDisturbs DEF CacheInv, AloneInv
  <2>. QED
    BY <1>1, <2>1, Names DEF Undisturbed
<1>. QED
  BY <1>2, <1>3, <1>4 DEF CacheInv

LEMMA FillL1KeepsInv ==
  ASSUME CacheInv, NEW c \in Callers, FillL1(c)
  PROVE  CacheInv'
<1>1. /\ Serve(c, got[Call(c)]) /\ got[Call(c)] \in Entries /\ pc[Call(c)] = "fill"
      /\ refresh' = Ended(refresh, {Call(c)}) /\ UNCHANGED <<origin, redis, paused, leader>>
  BY Names DEF FillL1, CacheInv, CacheTypes
<1>2. refresh' \in [Callers -> [since : Nat, alone : BOOLEAN]] /\ \A d \in Callers : ~refresh'[d].alone
  BY <1>1, EndedIs, Names, WorkDisturbs DEF CacheInv, CacheTypes
<1>3. Flights' /\ AloneInv' /\ pc' \in [Goroutines -> Labels] /\ got' \in [Goroutines -> Entries]
  BY <1>1, <1>2, EndOfCall
<1>4. l1' \in [Instances -> Entries]
  BY <1>1 DEF FillL1, CacheInv, CacheTypes
<1>. QED
  BY <1>1, <1>2, <1>3, <1>4 DEF CacheInv, CacheTypes

-----------------------------------------------------------------------------
(* The load *)

\* Whoever works has a caller.
LEMMA CallerOf == \A g \in Goroutines : \E c \in Callers : g \in {Call(c), Revalidation(c)}
  BY DEF Goroutines, Call, Revalidation

\* An undisturbed refresh leads: nobody else is loading.
LEMMA UndisturbedLeads ==
  ASSUME CacheInv, NEW c \in Callers, refresh[c].alone, pc[Call(c)] = "do"
  PROVE  Leads(Call(c))
<1>1. \A g \in Goroutines : ~Loading(g)
  BY Names DEF CacheInv, AloneInv, Undisturbed, Loading
<1>. QED
  BY <1>1, Names DEF CacheInv, CacheTypes, Flights, Leads

LEMMA DoKeepsInv ==
  ASSUME CacheInv, NEW g \in Goroutines, Do(g)
  PROVE  CacheInv'
<1>1. CacheTypes'
  BY Names DEF CacheInv, CacheTypes, Do, Labels
<1>2. Flights'
  <2>1. CASE Leads(g)
    BY <2>1, Names DEF CacheInv, CacheTypes, Flights, Do, Leads, Loading
  <2>2. CASE ~Leads(g)
    BY <2>2, Names DEF CacheInv, CacheTypes, Flights, Do, Leads, Loading
  <2>. QED
    BY <2>1, <2>2
<1>3. AloneInv'
  <2>. SUFFICES ASSUME NEW c \in Callers, refresh[c].alone PROVE Undisturbed(c)'
    BY DEF AloneInv, Do
  <2>1. g = Call(c) /\ Undisturbed(c)
    BY DEF CacheInv, AloneInv, Undisturbed, Do
  <2>2. pc[g] = "do" \/ pc[g] = "spawned"
    BY DEF Do
  <2>3. Leads(g)
    <3>1. \A h \in Goroutines : ~Loading(h)
      BY <2>1, <2>2 DEF Undisturbed, Loading
    <3>. QED
      BY <3>1, Names DEF CacheInv, CacheTypes, Flights, Leads
  <2>4. pc'[g] = "fetching" /\ \A h \in Goroutines : h # g => pc'[h] = pc[h]
    BY <2>3 DEF CacheInv, CacheTypes, Do
  <2>. QED
    BY <2>1, <2>4 DEF Do, Undisturbed
<1>. QED
  BY <1>1, <1>2, <1>3 DEF CacheInv

LEMMA LoadingKeepsInv ==
  ASSUME CacheInv, NEW g \in Goroutines, FetchOk(g) \/ StoreL1(g)
  PROVE  CacheInv'
<1>1. /\ pc[g] \in {"fetching", "storing"} /\ pc'[g] \in {"storing", "setting"}
      /\ \A h \in Goroutines : h # g => pc'[h] = pc[h]
      /\ UNCHANGED <<origin, redis, paused, leader, refresh>>
  BY DEF CacheInv, CacheTypes, FetchOk, StoreL1
<1>2. CacheTypes'
  <2>1. origin \in Nat /\ got[g] \in Entries
    BY DEF CacheInv, CacheTypes
  <2>2. [v |-> origin, stale |-> FALSE] \in Entries
    BY <2>1 DEF Entries
  <2>3. got' \in [Goroutines -> Entries] /\ l1' \in [Instances -> Entries]
    <3>1. CASE FetchOk(g)
      <4>1. got' = [got EXCEPT ![g] = [v |-> origin, stale |-> FALSE]] /\ l1' = l1
        BY <3>1 DEF FetchOk
      <4>. QED
        BY <2>2, <4>1 DEF CacheInv, CacheTypes
    <3>2. CASE StoreL1(g)
      <4>1. l1' = [l1 EXCEPT ![At(g)] = got[g]] /\ got' = got
        BY <3>2 DEF StoreL1
      <4>. QED
        BY <2>1, <4>1 DEF CacheInv, CacheTypes
    <3>. QED
      BY <3>1, <3>2
  <2>4. pc' \in [Goroutines -> Labels]
    BY DEF CacheInv, CacheTypes, FetchOk, StoreL1, Labels
  <2>. QED
    BY <1>1, <2>3, <2>4 DEF CacheInv, CacheTypes
<1>3. Flights'
  BY <1>1, FlightsKept DEF CacheInv, Loading
<1>4. AloneInv'
  <2>. SUFFICES ASSUME NEW c \in Callers, refresh[c].alone PROVE Undisturbed(c)'
    BY <1>1 DEF AloneInv
  <2>1. g = Call(c) /\ Undisturbed(c)
    BY <1>1 DEF CacheInv, AloneInv, Undisturbed
  <2>2. got'[g].v >= refresh[c].since
    <3>1. CASE FetchOk(g)
      BY <2>1, <3>1 DEF CacheInv, CacheTypes, FetchOk, Undisturbed
    <3>2. CASE StoreL1(g)
      BY <2>1, <3>2 DEF StoreL1, Undisturbed
    <3>. QED
      BY <3>1, <3>2
  <2>. QED
    BY <1>1, <2>1, <2>2 DEF Undisturbed
<1>. QED
  BY <1>2, <1>3, <1>4 DEF CacheInv

\* The end of a flight releases everyone who waited for it and the group with them.
LEMMA EndFlightKeepsInv ==
  ASSUME CacheInv, NEW g \in Goroutines, EndFlight(g), Loading(g), UNCHANGED <<origin, l1>>,
         redis' \in Entries, paused' \in [Instances -> BOOLEAN]
  PROVE  CacheInv'
<1>1. /\ \A h \in Goroutines : pc'[h] = IF h \in Released(g) THEN "idle" ELSE pc[h]
      /\ g \in Released(g) /\ leader[At(g)] = g
  BY DEF CacheInv, Flights, EndFlight, Released
<1>2. CacheTypes'
  BY EndedIs, NoneIsEntry, Names DEF CacheInv, CacheTypes, EndFlight, Labels
<1>3. Flights'
  <2>1. ASSUME NEW h \in Goroutines, Loading(h)' PROVE leader'[At(h)] = h
    <3>1. h \notin Released(g) /\ Loading(h) /\ h # g
      BY <1>1, <2>1 DEF Loading
    <3>2. leader[At(h)] = h /\ At(h) # At(g)
      BY <1>1, <3>1 DEF CacheInv, Flights
    <3>. QED
      BY <3>2, Names DEF CacheInv, CacheTypes, EndFlight
  <2>2. ASSUME NEW i \in Instances, leader'[i] # Nobody
        PROVE  At(leader[i])' = i /\ Loading(leader[i])'
    <3>1. i # At(g) /\ leader'[i] = leader[i]
      BY <2>2, Names DEF CacheInv, CacheTypes, EndFlight
    <3>2. At(leader[i]) = i /\ Loading(leader[i]) /\ leader[i] \in Goroutines
      BY <2>2, <3>1 DEF CacheInv, CacheTypes, Flights
    <3>3. leader[i] \notin Released(g)
      BY <3>1, <3>2 DEF Released
    <3>. QED
      BY <1>1, <3>1, <3>2, <3>3 DEF Loading
  <2>3. ASSUME NEW h \in Goroutines, pc'[h] = "waiting" PROVE leader'[At(h)] # Nobody
    <3>1. h \notin Released(g) /\ pc[h] = "waiting"
      BY <1>1, <2>3
    <3>2. At(h) # At(g) /\ leader[At(h)] # Nobody
      BY <3>1 DEF CacheInv, Flights, Released
    <3>. QED
      BY <3>2, Names DEF CacheInv, CacheTypes, EndFlight
  <2>. QED
    BY <2>1, <2>2, <2>3 DEF Flights
<1>4. AloneInv'
  <2>. SUFFICES ASSUME NEW c \in Callers, refresh'[c].alone PROVE FALSE
    BY DEF AloneInv
  <2>1. refresh[c].alone /\ Call(c) \notin Released(g)
    BY EndedIs DEF CacheInv, CacheTypes, EndFlight
  <2>2. g = Call(c)
    BY <2>1 DEF CacheInv, AloneInv, Undisturbed, Loading
  <2>. QED
    BY <1>1, <2>1, <2>2
<1>. QED
  BY <1>2, <1>3, <1>4 DEF CacheInv

LEMMA FlightEndsKeepInv ==
  ASSUME CacheInv, NEW g \in Goroutines, FetchFails(g) \/ \E ok \in BOOLEAN : SetRedis(g, ok)
  PROVE  CacheInv'
<1>1. CASE FetchFails(g)
  BY <1>1, EndFlightKeepsInv DEF FetchFails, Loading, CacheInv, CacheTypes
<1>2. ASSUME NEW ok \in BOOLEAN, SetRedis(g, ok)
      PROVE  CacheInv'
  <2>1. redis' \in Entries /\ paused' \in [Instances -> BOOLEAN]
    BY <1>2, Names, RedisWriteTypes DEF SetRedis, CacheInv, CacheTypes
  <2>. QED
    BY <1>2, <2>1, EndFlightKeepsInv DEF SetRedis, Loading
<1>. QED
  BY <1>1, <1>2

LEMMA NextKeepsInv == CacheInv /\ [Next]_vars => CacheInv'
<1>. SUFFICES ASSUME CacheInv, [Next]_vars PROVE CacheInv'
  OBVIOUS
<1>1. ASSUME NEW c \in Callers, Arrive(c) \/ CallStep(c) PROVE CacheInv'
  BY <1>1, BeginRefreshKeepsInv, DropRedisKeepsInv, ReadL1KeepsInv, RedisReadKeepsInv, FillL1KeepsInv
     DEF Arrive, CallStep
<1>2. ASSUME NEW g \in Goroutines, LoadStep(g) PROVE CacheInv'
  BY <1>2, DoKeepsInv, LoadingKeepsInv, FlightEndsKeepInv DEF LoadStep
<1>. QED
  BY <1>1, <1>2, SurroundingsKeepInv DEF Next

-----------------------------------------------------------------------------

\* Whatever Redis does and however calls, loads and refreshes interleave: the
\* inductive invariant of the cache.
THEOREM CacheInvHolds == Spec => []CacheInv
  BY InitInv, NextKeepsInv, PTL DEF Spec

\* No key is fetched twice at once on an instance, and nobody waits for nothing.
THEOREM FlightIsShared == Spec => []OneFlight
<1>1. CacheInv => OneFlight
  <2>. SUFFICES ASSUME CacheInv, NEW i \in Instances
                PROVE  /\ Cardinality({g \in Goroutines : At(g) = i /\ Loading(g)}) <= 1
                       /\ (\E g \in Goroutines : At(g) = i /\ pc[g] = "waiting") => Loading(leader[i])
    BY DEF OneFlight
  <2>. DEFINE S == {g \in Goroutines : At(g) = i /\ Loading(g)}
  <2>1. S \subseteq {leader[i]}
    BY DEF CacheInv, Flights
  <2>2. S = {} \/ S = {leader[i]}
    BY <2>1
  <2>3. Cardinality(S) <= 1
    <3>1. CASE S = {}
      BY <3>1, FS_EmptySet
    <3>2. CASE S = {leader[i]}
      <4>1. Cardinality({leader[i]}) = 1
        BY FS_Singleton
      <4>. QED
        BY <3>2, <4>1
    <3>. QED
      BY <2>2, <3>1, <3>2
  <2>4. (\E g \in Goroutines : At(g) = i /\ pc[g] = "waiting") => Loading(leader[i])
    BY DEF CacheInv, Flights
  <2>. QED
    BY <2>3, <2>4
<1>. QED
  BY <1>1, CacheInvHolds, PTL

\* A refresh that nothing disturbs answers what the origin had when it began, or newer.
THEOREM RefreshIsCurrent == Spec => UndisturbedRefreshIsCurrent
<1>1. CacheInv => \A c \in Refreshers :
        refresh[c].alone /\ Returned(c) # Error => Returned(c) >= refresh[c].since
  <2>. SUFFICES ASSUME CacheInv, NEW c \in Refreshers, refresh[c].alone, Returned(c) # Error
                PROVE  Returned(c) >= refresh[c].since
    OBVIOUS
  <2>1. c \in Callers /\ Undisturbed(c)
    BY CacheConstants DEF CacheInv, AloneInv
  <2>2. pc[Call(c)] = "setting"
    BY <2>1 DEF Returned, Undisturbed, Error, None
  <2>3. leader[On[c]] = Call(c)
    BY <2>1, <2>2, Names DEF CacheInv, Flights, Loading
  <2>. QED
    BY <2>1, <2>2, <2>3 DEF Returned, Undisturbed
<1>2. CacheInv /\ [Next]_vars =>
        [\A c \in Refreshers :
           refresh[c].alone /\ Returns(c) /\ Returned(c) # Error => Returned(c) >= refresh[c].since]_vars
  BY <1>1
<1>. QED
  BY <1>2, CacheInvHolds, PTL DEF UndisturbedRefreshIsCurrent, Spec

-----------------------------------------------------------------------------
(* Copies *)

\* No copy of the entry is newer than what the origin has: neither a cache, nor a
\* goroutine on its way from one to another, holds a version that was never published.
Published ==
  /\ origin \in 1 .. MaxVersion
  /\ redis.v <= origin
  /\ \A i \in Instances : l1[i].v <= origin
  /\ \A g \in Goroutines : got[g].v <= origin

LEMMA InitPublished == Init => Published
  BY CacheConstants, Names DEF Init, Published, None

LEMMA NextPublished == CacheInv /\ Published /\ [Next]_vars => Published'
<1>. SUFFICES ASSUME CacheInv, Published, [Next]_vars PROVE Published'
  OBVIOUS
<1>. USE DEF Published
<1>t. CacheTypes /\ None.v = 0 /\ None \in Entries
  BY NoneIsEntry DEF CacheInv, None
<1>o. origin \in Nat /\ origin >= 0
  BY <1>t DEF CacheTypes
<1>1. CASE Age
  <2>1. Aged(redis).v = redis.v
    BY <1>t, AgedIsEntry DEF CacheTypes
  <2>2. \A i \in Instances : Aged(l1[i]).v = l1[i].v
    BY <1>t, AgedIsEntry DEF CacheTypes
  <2>3. \A g \in Goroutines : Aged(got[g]).v = got[g].v
    BY <1>t, AgedIsEntry DEF CacheTypes
  <2>. QED
    BY <1>1, <2>1, <2>2, <2>3 DEF Age
<1>2. CASE Publish
  <2>1. UNCHANGED <<redis, l1, got>> /\ origin' = origin + 1 /\ origin < MaxVersion
    BY <1>2 DEF Publish
  <2>2. redis.v \in Nat /\ (\A i \in Instances : l1[i].v \in Nat) /\ \A g \in Goroutines : got[g].v \in Nat
    BY <1>t DEF CacheTypes, Entries
  <2>. QED
    BY <2>1, <2>2, <1>o, CacheConstants
<1>3. CASE Expire
  BY <1>3, <1>t, <1>o DEF Expire
<1>4. ASSUME NEW i \in Instances, Evict(i) \/ Resume(i) PROVE Published'
  BY <1>4, <1>t, <1>o DEF CacheTypes, Evict, Resume
<1>5. ASSUME NEW c \in Callers, Arrive(c) \/ CallStep(c) PROVE Published'
  <2>0. origin' = origin
    BY <1>5 DEF Arrive, CallStep, BeginRefresh, DropRedis, ReadL1, RedisHit, RedisMiss, FillL1
  <2>1. CASE BeginRefresh(c)
    BY <2>0, <2>1, <1>t, <1>o, Names DEF CacheTypes, BeginRefresh, DropL1
  <2>2. CASE DropRedis(c)
    <3>1. redis' \in {redis, None} /\ UNCHANGED <<l1, got>>
      BY <2>2 DEF DropRedis, RedisWrite
    <3>. QED
      BY <2>0, <3>1, <1>t, <1>o
  <2>3. CASE ReadL1(c)
    BY <2>0, <2>3, <1>t, <1>o, Names DEF CacheTypes, ReadL1, Serve
  <2>4. CASE RedisHit(c)
    BY <2>0, <2>4, <1>t, <1>o, Names DEF CacheTypes, RedisHit
  <2>5. CASE RedisMiss(c)
    BY <2>0, <2>5 DEF RedisMiss
  <2>6. CASE FillL1(c)
    BY <2>0, <2>6, <1>t, <1>o, Names DEF CacheTypes, FillL1, Serve
  <2>. QED
    BY <1>5, <2>1, <2>2, <2>3, <2>4, <2>5, <2>6 DEF Arrive, CallStep
<1>6. ASSUME NEW g \in Goroutines, LoadStep(g) PROVE Published'
  <2>0. origin' = origin
    BY <1>6 DEF LoadStep, Do, FetchOk, FetchFails, StoreL1, SetRedis
  <2>1. CASE Do(g)
    BY <2>0, <2>1 DEF Do
  <2>2. CASE FetchOk(g)
    BY <2>0, <2>2, <1>t, <1>o DEF CacheTypes, FetchOk
  <2>3. CASE FetchFails(g)
    BY <2>0, <2>3, <1>t, <1>o DEF CacheTypes, FetchFails, EndFlight
  <2>4. CASE StoreL1(g)
    BY <2>0, <2>4, <1>t, <1>o DEF CacheTypes, StoreL1
  <2>5. ASSUME NEW ok \in BOOLEAN, SetRedis(g, ok) PROVE Published'
    <3>1. redis' \in {redis, got[g]} /\ l1' = l1 /\ got' = [got EXCEPT ![g] = None]
      BY <2>5 DEF SetRedis, RedisWrite, EndFlight
    <3>. QED
      BY <2>0, <3>1, <1>t, <1>o DEF CacheTypes
  <2>. QED
    BY <1>6, <2>1, <2>2, <2>3, <2>4, <2>5 DEF LoadStep
<1>7. CASE UNCHANGED vars
  BY <1>7 DEF vars
<1>. QED
  BY <1>1, <1>2, <1>3, <1>4, <1>5, <1>6, <1>7 DEF Next

\* Nothing is served that the origin never had: whatever order copies travel in between
\* the origin, Redis and the L1 maps, none of them runs ahead of the origin.
THEOREM CopiesArePublished == Spec => []Published
<1>1. Init /\ []CacheInv /\ [][Next]_vars => []Published
  BY InitPublished, NextPublished, PTL
<1>. QED
  BY <1>1, CacheInvHolds, PTL DEF Spec

-----------------------------------------------------------------------------
(* Calls are finite *)

\* Whose steps take goroutine g on: its own, or those of the goroutine that loads for it.
Driver(g) == IF pc[g] = "waiting" THEN leader[At(g)] ELSE g

\* The steps a goroutine has before it that loads, or waits for a load, in its place.
LoadLeft(g) ==
  CASE pc[g] = "fetching" -> 3
    [] pc[g] = "storing" -> 2
    [] pc[g] = "setting" -> 1
    [] OTHER -> 0

\* The most steps that are left of the work of goroutine g.
StepsLeft(g) ==
  CASE pc[g] = "idle" -> 0
    [] pc[g] = "deleting" -> 7
    [] pc[g] = "reading" -> 6
    [] pc[g] = "get" -> 5
    [] pc[g] \in {"do", "spawned"} -> 4
    [] pc[g] = "fill" -> 1
    [] OTHER -> LoadLeft(Driver(g))

\* A step of goroutine h, a call's or a load's.
StepOf(h) == LoadStep(h) \/ \E c \in Callers : h = Call(c) /\ CallStep(c)

\* Whoever is under way has steps left, and a driver that is under way itself.
AllUnderWay ==
  \A g \in Goroutines :
    pc[g] # "idle" => /\ StepsLeft(g) \in 1 .. 7
                      /\ Driver(g) \in Goroutines
                      /\ pc[Driver(g)] \notin {"idle", "waiting"}

\* A step of its driver brings a goroutine nearer to its end, and no other sets it back.
Advances(g) ==
  pc[g] # "idle" => /\ StepsLeft(g)' <= StepsLeft(g)
                    /\ StepOf(Driver(g)) => StepsLeft(g)' < StepsLeft(g)

LEMMA DriverIs ==
  ASSUME CacheInv, NEW g \in Goroutines, pc[g] # "idle"
  PROVE  /\ Driver(g) \in Goroutines
         /\ At(Driver(g)) = At(g)
         /\ pc[Driver(g)] \notin {"idle", "waiting"}
         /\ pc[g] = "waiting" => Loading(Driver(g)) /\ Driver(g) = leader[At(g)]
         /\ pc[g] # "waiting" => Driver(g) = g
  BY Names DEF CacheInv, CacheTypes, Flights, Driver, Loading

\* What is left at each place.
LeftTable(g) ==
  /\ pc[g] \in Labels
  /\ pc[g] = "idle" => StepsLeft(g) = 0
  /\ pc[g] = "deleting" => StepsLeft(g) = 7
  /\ pc[g] = "reading" => StepsLeft(g) = 6
  /\ pc[g] = "get" => StepsLeft(g) = 5
  /\ pc[g] \in {"do", "spawned"} => StepsLeft(g) = 4
  /\ pc[g] = "fetching" => StepsLeft(g) = 3
  /\ pc[g] = "storing" => StepsLeft(g) = 2
  /\ pc[g] \in {"setting", "fill"} => StepsLeft(g) = 1
  /\ pc[g] = "waiting" =>
       LET h == leader[At(g)] IN
         /\ h \in Goroutines /\ At(h) = At(g)
         /\ \/ pc[h] = "fetching" /\ StepsLeft(g) = 3
            \/ pc[h] = "storing" /\ StepsLeft(g) = 2
            \/ pc[h] = "setting" /\ StepsLeft(g) = 1

LEMMA LeftIs == CacheInv => \A g \in Goroutines : LeftTable(g)
<1>. SUFFICES ASSUME CacheInv, NEW g \in Goroutines PROVE LeftTable(g)
  OBVIOUS
<1>1. pc[g] \in Labels
  BY DEF CacheInv, CacheTypes
<1>2. ASSUME NEW h \in Goroutines, Loading(h) PROVE StepsLeft(h) = LoadLeft(h)
  BY <1>2 DEF StepsLeft, Driver, Loading
<1>3. CASE Loading(g)
  BY <1>1, <1>2, <1>3 DEF LeftTable, LoadLeft, Loading
<1>4. CASE pc[g] = "waiting"
  <2>. DEFINE h == leader[At(g)]
  <2>1. h \in Goroutines /\ At(h) = At(g) /\ Loading(h) /\ Driver(g) = h
    BY <1>4, DriverIs DEF Driver
  <2>2. StepsLeft(g) = LoadLeft(h)
    BY <1>4, <2>1 DEF StepsLeft
  <2>. QED
    BY <1>1, <1>4, <2>1, <2>2 DEF LeftTable, LoadLeft, Loading
<1>5. CASE ~Loading(g) /\ pc[g] # "waiting"
  BY <1>1, <1>5 DEF LeftTable, StepsLeft, Loading, Labels
<1>. QED
  BY <1>3, <1>4, <1>5

LEMMA LeftIsNext == CacheInv' => \A g \in Goroutines : LeftTable(g)'
<1>1. (CacheInv => \A g \in Goroutines : LeftTable(g))'
  BY LeftIs, PTL
<1>. QED
  BY <1>1

LEMMA LeftBound ==
  ASSUME CacheInv, NEW g \in Goroutines, pc[g] # "idle"
  PROVE  StepsLeft(g) \in 1 .. 7
<1>1. LeftTable(g)
  BY LeftIs
<1>. QED
  BY <1>1 DEF LeftTable, Labels

LEMMA UnderWay == CacheInv => AllUnderWay
  BY DriverIs, LeftBound DEF AllUnderWay

\* A goroutine that stays where it is, and whose leader does, has as much left as before.
LEMMA LeftKept ==
  ASSUME NEW g \in Goroutines, LeftTable(g), LeftTable(g)', pc'[g] = pc[g],
         pc[g] = "waiting" => leader'[At(g)] = leader[At(g)] /\ pc'[leader[At(g)]] = pc[leader[At(g)]]
  PROVE  StepsLeft(g)' = StepsLeft(g)
<1>1. CASE pc[g] = "waiting"
  BY <1>1 DEF LeftTable, At
<1>2. CASE pc[g] # "waiting"
  BY <1>2 DEF LeftTable, Labels
<1>. QED
  BY <1>1, <1>2

\* A step moves a goroutine on: it changes place, or it waits and its leader does.
Moves(g) == pc'[Driver(g)] # pc[Driver(g)]

Nearer(g) ==
  pc[g] # "idle" => /\ StepsLeft(g)' <= StepsLeft(g)
                    /\ Moves(g) => StepsLeft(g)' < StepsLeft(g)

\* Those who take no part in a step.
LEMMA BystanderKept ==
  ASSUME CacheInv, CacheInv', NEW g \in Goroutines, pc[g] # "idle", pc'[g] = pc[g],
         pc[g] = "waiting" => leader'[At(g)] = leader[At(g)] /\ pc'[leader[At(g)]] = pc[leader[At(g)]]
  PROVE  Nearer(g)
<1>1. LeftTable(g) /\ LeftTable(g)' /\ StepsLeft(g) \in 1 .. 7
  BY LeftIs, LeftIsNext, LeftBound
<1>2. StepsLeft(g)' = StepsLeft(g)
  BY <1>1, LeftKept
<1>3. ~Moves(g)
  BY DEF Moves, Driver
<1>. QED
  BY <1>1, <1>2, <1>3 DEF Nearer

\* A step of a call: it goes down by itself, and can only start a goroutine besides.
LEMMA CallNearer ==
  ASSUME CacheInv, CacheInv', NEW c \in Callers, Arrive(c) \/ CallStep(c), NEW g \in Goroutines
  PROVE  Nearer(g)
<1>. SUFFICES ASSUME pc[g] # "idle" PROVE Nearer(g)
  BY DEF Nearer
<1>t. CacheTypes
  BY DEF CacheInv
<1>1. /\ leader' = leader
      /\ ~Loading(Call(c)) /\ pc[Call(c)] # "waiting"
      /\ \A h \in Goroutines : h = Call(c) \/ pc[h] = "idle" \/ pc'[h] = pc[h]
  <2>1. CASE BeginRefresh(c)
    BY <2>1, <1>t, Names DEF CacheTypes, BeginRefresh, Loading
  <2>2. CASE DropRedis(c)
    BY <2>2, <1>t, Names DEF CacheTypes, DropRedis, Loading
  <2>3. CASE ReadL1(c)
    <3>1. leader' = leader /\ ~Loading(Call(c)) /\ pc[Call(c)] # "waiting"
      BY <2>3 DEF ReadL1, Loading
    <3>2. pc' = AfterServing(c, l1[On[c]]) \/ pc' = [pc EXCEPT ![Call(c)] = "get"]
      BY <2>3 DEF ReadL1, Serve
    <3>. QED
      BY <1>t, <3>1, <3>2, Names DEF CacheTypes, AfterServing
  <2>4. CASE RedisHit(c) \/ RedisMiss(c)
    BY <2>4, <1>t, Names DEF CacheTypes, RedisHit, RedisMiss, Loading
  <2>5. CASE FillL1(c)
    BY <2>5, <1>t, Names DEF CacheTypes, FillL1, Serve, AfterServing, Loading
  <2>. QED
    BY <2>1, <2>2, <2>3, <2>4, <2>5 DEF Arrive, CallStep
<1>2. CASE g # Call(c)
  <2>1. pc[g] = "waiting" => leader[At(g)] \in Goroutines /\ Loading(leader[At(g)])
    BY DriverIs
  <2>. QED
    BY <1>1, <1>2, <2>1, BystanderKept DEF Loading
<1>3. CASE g = Call(c)
  <2>1. LeftTable(g) /\ LeftTable(g)'
    BY LeftIs, LeftIsNext
  <2>2. StepsLeft(g)' < StepsLeft(g)
    <3>1. CASE DropRedis(c)
      BY <1>3, <1>t, <2>1, <3>1 DEF CacheTypes, DropRedis, LeftTable
    <3>2. CASE ReadL1(c)
      <4>1. pc[g] = "reading"
        BY <1>3, <3>2 DEF ReadL1
      <4>2. pc'[g] \in {"idle", "get"}
        BY <1>3, <1>t, <3>2, Names DEF CacheTypes, ReadL1, Serve, AfterServing
      <4>. QED
        BY <2>1, <4>1, <4>2 DEF LeftTable
    <3>3. CASE RedisHit(c) \/ RedisMiss(c)
      <4>1. pc[g] = "get" /\ pc'[g] \in {"fill", "do"}
        BY <1>3, <1>t, <3>3, Names DEF CacheTypes, RedisHit, RedisMiss
      <4>. QED
        BY <2>1, <4>1 DEF LeftTable
    <3>4. CASE FillL1(c)
      <4>1. pc[g] = "fill" /\ pc'[g] = "idle"
        BY <1>3, <1>t, <3>4, Names DEF CacheTypes, FillL1, Serve, AfterServing
      <4>. QED
        BY <2>1, <4>1 DEF LeftTable
    <3>5. CASE BeginRefresh(c)
      BY <1>3, <3>5 DEF BeginRefresh
    <3>. QED
      BY <3>1, <3>2, <3>3, <3>4, <3>5 DEF Arrive, CallStep
  <2>3. StepsLeft(g) \in 1 .. 7 /\ StepsLeft(g)' \in 0 .. 7
    BY <2>1 DEF LeftTable, Labels
  <2>. QED
    BY <2>2, <2>3 DEF Nearer
<1>. QED
  BY <1>2, <1>3

\* A step of a load: it takes the leader on, and everyone who waits for it.
LEMMA LoadNearer ==
  ASSUME CacheInv, CacheInv', NEW h \in Goroutines, LoadStep(h), NEW g \in Goroutines
  PROVE  Nearer(g)
<1>. SUFFICES ASSUME pc[g] # "idle" PROVE Nearer(g)
  BY DEF Nearer
<1>t. CacheTypes /\ Flights
  BY DEF CacheInv
<1>0. LeftTable(g) /\ LeftTable(g)' /\ StepsLeft(g) \in 1 .. 7
  BY LeftIs, LeftIsNext, LeftBound
<1>1. CASE Do(h)
  <2>1. /\ \A x \in Goroutines : x # h => pc'[x] = pc[x]
        /\ pc[h] \in {"do", "spawned"} /\ pc'[h] \in {"fetching", "waiting"}
    BY <1>1, <1>t DEF Do, CacheTypes
  <2>2. CASE g = h
    BY <2>1, <2>2, <1>0 DEF LeftTable, Nearer
  <2>3. CASE g # h
    <3>1. pc[g] = "waiting" => leader[At(g)] \in Goroutines /\ Loading(leader[At(g)])
      BY DriverIs
    <3>2. pc[g] = "waiting" => leader'[At(g)] = leader[At(g)] /\ leader[At(g)] # h
      BY <1>1, <1>t, <2>1, <3>1, Names DEF Do, Leads, CacheTypes, Loading
    <3>. QED
      BY <2>1, <2>3, <3>1, <3>2, BystanderKept
  <2>. QED
    BY <2>2, <2>3
<1>2. CASE FetchOk(h) \/ StoreL1(h)
  <2>1. /\ \A x \in Goroutines : x # h => pc'[x] = pc[x]
        /\ leader' = leader
        /\ \/ pc[h] = "fetching" /\ pc'[h] = "storing"
           \/ pc[h] = "storing" /\ pc'[h] = "setting"
    BY <1>2, <1>t DEF FetchOk, StoreL1, CacheTypes
  <2>2. CASE g = h
    BY <2>1, <2>2, <1>0 DEF LeftTable, Nearer
  <2>3. CASE g # h /\ pc[g] = "waiting" /\ leader[At(g)] = h
    <3>1. leader'[At(g)] = h /\ pc'[g] = "waiting"
      BY <2>1, <2>3
    <3>. QED
      BY <2>1, <2>3, <3>1, <1>0 DEF LeftTable, Nearer, At
  <2>4. CASE g # h /\ (pc[g] = "waiting" => leader[At(g)] # h)
    BY <2>1, <2>4, DriverIs, BystanderKept
  <2>. QED
    BY <2>2, <2>3, <2>4
<1>3. CASE EndFlight(h) /\ Loading(h)
  <2>1. \A x \in Goroutines : pc'[x] = IF x \in Released(h) THEN "idle" ELSE pc[x]
    BY <1>3 DEF EndFlight
  <2>2. CASE g \in Released(h)
    BY <2>1, <2>2, <1>0 DEF LeftTable, Nearer
  <2>3. CASE g \notin Released(h)
    <3>1. ASSUME pc[g] = "waiting"
          PROVE  leader'[At(g)] = leader[At(g)] /\ pc'[leader[At(g)]] = pc[leader[At(g)]]
      <4>1. At(g) # At(h)
        BY <2>3, <3>1 DEF Released
      <4>2. leader'[At(g)] = leader[At(g)]
        BY <1>3, <1>t, <4>1, Names DEF EndFlight, CacheTypes
      <4>3. leader[At(g)] \in Goroutines /\ Loading(leader[At(g)]) /\ At(leader[At(g)]) = At(g)
        BY <3>1, DriverIs
      <4>4. leader[At(g)] \notin Released(h)
        BY <4>1, <4>3 DEF Released, Loading
      <4>. QED
        BY <2>1, <4>2, <4>3, <4>4
    <3>. QED
      BY <2>1, <2>3, <3>1, BystanderKept
  <2>. QED
    BY <2>2, <2>3
<1>. QED
  BY <1>1, <1>2, <1>3 DEF LoadStep, FetchFails, SetRedis, Loading

\* The surroundings leave everyone where they are.
LEMMA NextNearer == CacheInv /\ CacheInv' /\ [Next]_vars => \A g \in Goroutines : Nearer(g)
<1>. SUFFICES ASSUME CacheInv, CacheInv', [Next]_vars, NEW g \in Goroutines, pc[g] # "idle" PROVE Nearer(g)
  BY DEF Nearer
<1>1. CASE Age \/ Publish \/ Expire \/ (\E i \in Instances : Evict(i) \/ Resume(i)) \/ UNCHANGED vars
  <2>1. UNCHANGED <<leader, pc>>
    BY <1>1 DEF Age, Publish, Expire, Evict, Resume, vars
  <2>. QED
    BY <2>1, BystanderKept
<1>. QED
  BY <1>1, CallNearer, LoadNearer DEF Next

\* Steps of a call and of a load take their goroutine elsewhere.
LEMMA StepMoves ==
  ASSUME CacheInv, NEW h \in Goroutines, StepOf(h)
  PROVE  pc'[h] # pc[h]
<1>t. CacheTypes
  BY DEF CacheInv
<1>1. CASE LoadStep(h)
  <2>1. CASE Do(h) \/ FetchOk(h) \/ StoreL1(h)
    BY <2>1, <1>t DEF CacheTypes, Do, FetchOk, StoreL1
  <2>2. CASE EndFlight(h) /\ Loading(h)
    BY <2>2 DEF EndFlight, Released, Loading
  <2>. QED
    BY <1>1, <2>1, <2>2 DEF LoadStep, FetchFails, SetRedis, Loading
<1>2. ASSUME NEW c \in Callers, h = Call(c), CallStep(c) PROVE pc'[h] # pc[h]
  <2>1. CASE DropRedis(c) \/ RedisHit(c) \/ RedisMiss(c)
    BY <2>1, <1>2, <1>t DEF CacheTypes, DropRedis, RedisHit, RedisMiss
  <2>2. CASE FillL1(c)
    BY <2>2, <1>2, <1>t, Names DEF CacheTypes, FillL1, Serve, AfterServing
  <2>3. CASE c \in Refreshers /\ ReadL1(c)
    BY <2>3, <1>2, <1>t, Names DEF CacheTypes, ReadL1, Serve, AfterServing
  <2>. QED
    BY <1>2, <2>1, <2>2, <2>3 DEF CallStep
<1>. QED
  BY <1>1, <1>2 DEF StepOf

\* The safety half of EveryCallReturns.  A call or a revalidation has at most seven steps
\* before it; it waits only for a goroutine that loads and waits for nobody; and each step
\* of that goroutine, or its own, leaves it fewer, whatever the others do meanwhile.
THEOREM CallsAreFinite ==
  Spec => /\ []AllUnderWay
          /\ [][\A g \in Goroutines : Advances(g)]_vars
<1>1. CacheInv /\ CacheInv' /\ [Next]_vars => [\A g \in Goroutines : Advances(g)]_vars
  <2>. SUFFICES ASSUME CacheInv, CacheInv', [Next]_vars, NEW g \in Goroutines, pc[g] # "idle"
                PROVE  Advances(g)
    BY DEF Advances
  <2>1. Nearer(g)
    BY NextNearer
  <2>2. StepOf(Driver(g)) => Moves(g)
    BY StepMoves, DriverIs DEF Moves
  <2>. QED
    BY <2>1, <2>2 DEF Advances, Nearer
<1>2. CacheInv => AllUnderWay
  BY UnderWay
<1>. QED
  BY <1>1, <1>2, CacheInvHolds, PTL DEF Spec
=============================================================================
