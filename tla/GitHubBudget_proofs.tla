------------------------ MODULE GitHubBudget_proofs -------------------------
(***************************************************************************)
(* Proofs about the guard of GitHub's budget, for every set of callers,    *)
(* every quota and every reserve.                                          *)
(***************************************************************************)
EXTENDS GitHubBudget, TLAPS, FiniteSetTheorems

\* What was taken from the reserve was taken from the window.
BudgetInv ==
  /\ TypeOK
  /\ over <= Quota - left

LEMMA InitBudget == Init => BudgetInv
  BY BudgetConstants DEF Init, BudgetInv, TypeOK, NoHeader, Times

LEMMA WindowKeepsBudget == BudgetInv /\ NewWindow => BudgetInv'
<1>. SUFFICES ASSUME BudgetInv, NewWindow PROVE BudgetInv'
  OBVIOUS
<1>1. left' = Quota /\ over' = 0 /\ left' \in 0 .. Quota /\ over' \in 0 .. Quota
  BY BudgetConstants DEF NewWindow
<1>2. resetAt' \in Times
  BY DEF BudgetInv, TypeOK, NewWindow, Passed, Times
<1>3. header' \in [Callers -> [remaining : {Unknown} \cup 0 .. Quota, reset : Times]]
  BY DEF BudgetInv, TypeOK, NewWindow, Passed, Times
<1>4. \A c \in Callers : pc'[c] \notin {"recordRemaining", "recordReset"} => header'[c] = NoHeader
  BY DEF BudgetInv, TypeOK, NewWindow, Passed, NoHeader
<1>. QED
  BY <1>1, <1>2, <1>3, <1>4, BudgetConstants DEF BudgetInv, TypeOK, NewWindow

LEMMA CallerKeepsBudget ==
  ASSUME BudgetInv, NEW c \in Callers, Check(c) \/ RequestFails(c) \/ Record(c)
  PROVE  BudgetInv'
<1>1. CASE Check(c) \/ RequestFails(c)
  BY <1>1 DEF BudgetInv, TypeOK, Check, LoadRemaining, LoadReset, ClearRemaining, ClearReset,
     RequestFails, Goto, Times
<1>2. CASE RecordRemaining(c)
  BY <1>2 DEF BudgetInv, TypeOK, RecordRemaining, AfterCount, Goto
<1>3. CASE RecordReset(c)
  BY <1>3 DEF BudgetInv, TypeOK, RecordReset, NoHeader, Goto, Times
<1>. QED
  BY <1>1, <1>2, <1>3 DEF Record

LEMMA RequestKeepsBudget ==
  ASSUME BudgetInv, NEW c \in Callers, Request(c)
  PROVE  BudgetInv'
<1>. PICK n \in {0, 1} : n <= left /\ Counted(c, n)
  BY DEF Request
<1>1. /\ left' \in 0 .. Quota /\ over' \in 0 .. Quota /\ over' <= Quota - left'
      /\ left' = left - n
  BY BudgetConstants DEF BudgetInv, TypeOK, Counted
<1>2. header' \in [Callers -> [remaining : {Unknown} \cup 0 .. Quota, reset : Times]]
  BY <1>1 DEF BudgetInv, TypeOK, Counted, Times
<1>. QED
  BY <1>1, <1>2 DEF BudgetInv, TypeOK, Request, Counted, Goto

LEMMA NextKeepsBudget == BudgetInv /\ [Next]_vars => BudgetInv'
<1>1. BudgetInv /\ UNCHANGED vars => BudgetInv'
  BY DEF vars, BudgetInv, TypeOK
<1>. QED
  BY <1>1, WindowKeepsBudget, CallerKeepsBudget, RequestKeepsBudget DEF Next

\* Type correctness, and no window gives more of the reserve than it has requests.
THEOREM BudgetTypes == Spec => []TypeOK
<1>1. BudgetInv => TypeOK
  BY DEF BudgetInv
<1>. QED
  BY <1>1, InitBudget, NextKeepsBudget, PTL DEF Spec

-----------------------------------------------------------------------------
(* How much of the reserve is taken *)

\* Numbers of the form 2 * (1 + ... + k), and six times the sums of these sums.
Tri(k) == k * (k + 1)
Tet(k) == k * (k + 1) * (k + 2)

\* One more.
LEMMA TriStep == ASSUME NEW k \in Int PROVE Tri(k) \in Int /\ Tri(k + 1) = Tri(k) + 2 * k + 2
  BY DEF Tri

\* Likewise for the sums of the sums.
LEMMA TetStep == ASSUME NEW k \in Int PROVE Tet(k) \in Int /\ Tet(k + 1) = Tet(k) + 3 * Tri(k + 1)
<1>1. (k + 1) * (k + 2) * (k + 3) = (k + 1) * (k + 2) * k + 3 * ((k + 1) * (k + 2))
  OBVIOUS
<1>2. (k + 1) * (k + 2) * k = k * (k + 1) * (k + 2)
  OBVIOUS
<1>. QED
  BY <1>1, <1>2 DEF Tri, Tet

\* They grow, and by at least as much as their number does.
LEMMA TriGrows ==
  ASSUME NEW j \in Nat, NEW m \in Nat
  PROVE  Tri(j) <= Tri(j + m) /\ (j >= 1 => Tri(j) + 2 * m <= Tri(j + m)) /\ Tri(j) >= 2 * j
<1>1. Tri(j + m) = Tri(j) + 2 * (j * m) + m * m + m /\ Tri(j) = j * j + j
  BY DEF Tri
<1>2. j * m >= 0 /\ m * m >= m /\ j * j >= j /\ j * m \in Nat /\ m * m \in Nat /\ j * j \in Nat
  OBVIOUS
<1>3. j >= 1 => j * m >= m
  OBVIOUS
<1>. QED
  BY <1>1, <1>2, <1>3

\* What a caller is about to do to the reserve: it is free to check the budget or will send
\* once ("sends"); it will clear the reset time and send ("clears"); it opens the guard
\* once ("opens"), or also brings a reset time that has passed ("opensTwice"), or only that
\* ("expires"); it closes the guard with a low count ("closes"), after which it renews the
\* reset time ("renews").
Kind(c) ==
  IF pc[c] \in {"idle", "low"} THEN "free"
  ELSE IF pc[c] = "sending" THEN "sends"
  ELSE IF pc[c] = "clearReset" THEN "clears"
  ELSE IF pc[c] = "clearRemaining" THEN "opens"
  ELSE IF pc[c] = "recordRemaining" /\ Allows(header[c].remaining)
       THEN IF header[c].reset = "past" THEN "opensTwice" ELSE "opens"
  ELSE IF header[c].reset = "past" THEN "expires"
  ELSE IF pc[c] = "recordRemaining" THEN "closes" ELSE "renews"

\* The callers of some kinds, and how many there are of one.
Of(kinds) == {c \in Callers : Kind(c) \in kinds}
Num(k) == Cardinality(Of({k}))

\* There are finitely many of them.
LEMMA NumIsNat ==
  ASSUME NEW kinds, NEW k
  PROVE  IsFiniteSet(Of(kinds)) /\ Cardinality(Of(kinds)) \in Nat /\ Num(k) \in Nat
  BY BudgetConstants, FS_Subset, FS_CardinalityType DEF Of, Num

\* A caller that becomes of another kind is one less of the one and one more of the other.
LEMMA NumMoves ==
  ASSUME NEW c \in Callers, NEW k, \A d \in Callers \ {c} : Kind(d)' = Kind(d)
  PROVE  /\ Num(k) \in Nat /\ Num(k)' \in Nat
         /\ Num(k)' = Num(k) - (IF Kind(c) = k THEN 1 ELSE 0) + (IF Kind(c)' = k THEN 1 ELSE 0)
         /\ Kind(c) = k => Num(k) >= 1
         /\ Kind(c)' = k => Num(k)' >= 1
<1> DEFINE rest == {d \in Callers \ {c} : Kind(d) = k}
<1>1. IsFiniteSet(rest) /\ Cardinality(rest) \in Nat /\ c \notin rest
  BY BudgetConstants, FS_Subset, FS_CardinalityType
<1>2. Cardinality(rest \cup {c}) = Cardinality(rest) + 1
  BY <1>1, FS_AddElement
<1>3. Of({k}) = IF Kind(c) = k THEN rest \cup {c} ELSE rest
  BY DEF Of
<1>4. Of({k})' = IF Kind(c)' = k THEN rest \cup {c} ELSE rest
  BY DEF Of
<1> HIDE DEF rest
<1>5. Num(k) = Cardinality(rest) + (IF Kind(c) = k THEN 1 ELSE 0)
  BY <1>1, <1>2, <1>3 DEF Num
<1>6. Num(k)' = Cardinality(rest) + (IF Kind(c)' = k THEN 1 ELSE 0)
  BY <1>1, <1>2, <1>4 DEF Num
<1>. QED
  BY <1>1, <1>5, <1>6

\* Kinds are counted one by one.
LEMMA NumSplit ==
  ASSUME NEW kinds, NEW k, k \notin kinds
  PROVE  Cardinality(Of(kinds \cup {k})) = Cardinality(Of(kinds)) + Num(k)
<1>1. Of(kinds \cup {k}) = Of(kinds) \cup Of({k}) /\ Of(kinds) \cap Of({k}) = {}
  BY DEF Of
<1>2. Cardinality({}) = 0
  BY FS_EmptySet
<1>3. IsFiniteSet(Of(kinds)) /\ IsFiniteSet(Of({k})) /\ Cardinality(Of(kinds)) \in Nat /\ Num(k) \in Nat
  BY NumIsNat
<1>4. Cardinality(Of(kinds) \cup Of({k})) = Cardinality(Of(kinds)) + Cardinality(Of({k})) - Cardinality({})
  BY <1>1, <1>3, FS_Union
<1>5. Cardinality(Of({k})) = Num(k)
  BY DEF Num
<1>6. Cardinality(Of(kinds \cup {k})) = Cardinality(Of(kinds) \cup Of({k}))
  BY <1>1
<1>. QED
  BY <1>2, <1>3, <1>4, <1>5, <1>6

\* Every caller is of one kind.
LEMMA NumSum ==
  Cardinality(Callers) = Num("free") + Num("sends") + Num("clears") + Num("opens") + Num("opensTwice")
                         + Num("expires") + Num("closes") + Num("renews")
<1> DEFINE K1 == {"free"}  K2 == K1 \cup {"sends"}  K3 == K2 \cup {"clears"}  K4 == K3 \cup {"opens"}  K5 == K4 \cup {"opensTwice"}
           K6 == K5 \cup {"expires"}  K7 == K6 \cup {"closes"}  K8 == K7 \cup {"renews"}
           C(kinds) == Cardinality(Of(kinds))
<1>1. C(K1) = Num("free")
  BY DEF Num
<1>2. C(K2) = C(K1) + Num("sends")
  BY NumSplit
<1>3. C(K3) = C(K2) + Num("clears")
  BY NumSplit
<1>4. C(K4) = C(K3) + Num("opens")
  BY NumSplit
<1>5. C(K5) = C(K4) + Num("opensTwice")
  BY NumSplit
<1>6. C(K6) = C(K5) + Num("expires")
  BY NumSplit
<1>7. C(K7) = C(K6) + Num("closes")
  BY NumSplit
<1>8. C(K8) = C(K7) + Num("renews")
  BY NumSplit
<1>9. Of(K8) = Callers
  BY DEF Of, Kind
<1>10. C(K8) = Cardinality(Callers)
  BY <1>9
<1> HIDE DEF K1, K2, K3, K4, K5, K6, K7, K8, C
<1>. QED
  BY <1>1, <1>2, <1>3, <1>4, <1>5, <1>6, <1>7, <1>8, <1>10

\* What the callers can still take, sixfold, less what depends on their number alone.  Those
\* that are free take one each while the guard is open, or open it one after the other once
\* the reset time has passed; the rest open it for all that have become free by then.
Can(time, count, free, sends, clears, opens, expires, closes, renews) ==
  LET held == closes + renews + clears
      calm == held + free + sends
      soon == calm + opens
  IN 6 * clears + (IF time = "past" THEN -3 * Tri(held) ELSE 6 * sends - 3 * Tri(calm))
     + (IF Allows(count) THEN 6 * (IF time = "past" THEN renews ELSE renews + free) ELSE 0)
     - Tet(soon) + 3 * Tri(soon) - 3 * Tri(soon + expires - 1)

Potential ==
  Can(resetAt, remaining, Num("free"), Num("sends"), Num("clears"), Num("opens"),
      Num("expires"), Num("closes"), Num("renews"))

\* Six times MaxOver.
Most(n) == IF n < 2 THEN 6 * n ELSE Tet(n) + 3 * Tri(n - 1) - 6

\* While the reserve is being used, what was taken and what can still be is no more than
\* MaxOver.
OverInv ==
  /\ TypeOK
  /\ left >= Reserve => over = 0
  /\ left < Reserve => LET n == Cardinality(Callers)
                       IN 6 * over + Potential + Tet(n) + 3 * Tri(n - 1) <= Most(n)

-----------------------------------------------------------------------------
(* What the callers can still take never grows *)

\* Counts of the seven kinds that matter.
Counts(f, s, c, o, x, l, w) ==
  /\ f \in Nat /\ s \in Nat /\ c \in Nat /\ o \in Nat /\ x \in Nat /\ l \in Nat /\ w \in Nat

\* A caller passes the open guard.
LEMMA CanPass ==
  ASSUME NEW t, NEW n, NEW f, NEW s, NEW c, NEW o, NEW x, NEW l, NEW w,
         Counts(f, s, c, o, x, l, w), f >= 1, Allows(n)
  PROVE  Can(t, n, f - 1, s + 1, c, o, x, l, w) <= Can(t, n, f, s, c, o, x, l, w)
<1> DEFINE held == l + w + c
           calm == held + f + s
           soon == calm + o
<1>1. held \in Nat /\ calm \in Nat /\ soon \in Nat /\ soon + x - 1 \in Int
  BY DEF Counts
<1>2. /\ Tri(held) \in Int /\ Tri(calm) \in Int /\ Tri(soon) \in Int /\ Tri(soon + x - 1) \in Int
      /\ Tet(soon) \in Int
  BY <1>1, TriStep, TetStep
<1>3. held + (f - 1) + (s + 1) = calm
  BY DEF Counts
<1>. HIDE DEF held, calm, soon
<1>. QED
  BY <1>1, <1>2, <1>3 DEF Can, Counts, held, calm, soon

\* A caller sees that the reset time has passed.
LEMMA CanSee ==
  ASSUME NEW t, NEW n, NEW f, NEW s, NEW c, NEW o, NEW x, NEW l, NEW w,
         Counts(f, s, c, o, x, l, w), f >= 1
  PROVE  Can("past", n, f - 1, s, c, o + 1, x, l, w) <= Can("past", n, f, s, c, o, x, l, w)
<1> DEFINE held == l + w + c
           calm == held + f + s
           soon == calm + o
<1>1. held \in Nat /\ calm \in Nat /\ soon \in Nat /\ soon + x - 1 \in Int
  BY DEF Counts
<1>2. /\ Tri(held) \in Int /\ Tri(calm) \in Int /\ Tri(soon) \in Int /\ Tri(soon + x - 1) \in Int
      /\ Tet(soon) \in Int
  BY <1>1, TriStep, TetStep
<1>3. held + (f - 1) + s + (o + 1) = soon
  BY DEF Counts
<1>. HIDE DEF held, calm, soon
<1>. QED
  BY <1>1, <1>2, <1>3 DEF Can, Counts, held, calm, soon

\* A request fails.
LEMMA CanFail ==
  ASSUME NEW t, NEW n, NEW f, NEW s, NEW c, NEW o, NEW x, NEW l, NEW w,
         Counts(f, s, c, o, x, l, w), s >= 1
  PROVE  Can(t, n, f + 1, s - 1, c, o, x, l, w) <= Can(t, n, f, s, c, o, x, l, w)
<1> DEFINE held == l + w + c
           calm == held + f + s
           soon == calm + o
<1>1. held \in Nat /\ calm \in Nat /\ soon \in Nat /\ soon + x - 1 \in Int
  BY DEF Counts
<1>2. /\ Tri(held) \in Int /\ Tri(calm) \in Int /\ Tri(soon) \in Int /\ Tri(soon + x - 1) \in Int
      /\ Tet(soon) \in Int
  BY <1>1, TriStep, TetStep
<1>3. held + (f + 1) + (s - 1) = calm
  BY DEF Counts
<1>. HIDE DEF held, calm, soon
<1>. QED
  BY <1>1, <1>2, <1>3 DEF Can, Counts, held, calm, soon

\* A request counts, one or nothing.
LEMMA CanSend ==
  ASSUME NEW t, NEW n, NEW f, NEW s, NEW c, NEW o, NEW x, NEW l, NEW w,
         Counts(f, s, c, o, x, l, w), s >= 1
  PROVE  Can(t, n, f, s - 1, c, o, x, l + 1, w) + 6 <= Can(t, n, f, s, c, o, x, l, w)
<1> DEFINE held == l + w + c
           calm == held + f + s
           soon == calm + o
<1>1. held \in Nat /\ calm \in Nat /\ soon \in Nat /\ soon + x - 1 \in Int
  BY DEF Counts
<1>2. /\ Tri(held) \in Int /\ Tri(calm) \in Int /\ Tri(soon) \in Int /\ Tri(soon + x - 1) \in Int
      /\ Tet(soon) \in Int
  BY <1>1, TriStep, TetStep
<1>3. (l + 1) + w + c = held + 1 /\ held + 1 + f + (s - 1) = calm
  BY DEF Counts
<1>4. Tri(held + 1) = Tri(held) + 2 * held + 2
  BY <1>1, TriStep
<1>. HIDE DEF held, calm, soon
<1>. QED
  BY <1>1, <1>2, <1>3, <1>4 DEF Can, Counts, held, calm, soon

\* A caller clears the count.
LEMMA CanClear ==
  ASSUME NEW t, NEW n, NEW n2, NEW f, NEW s, NEW c, NEW o, NEW x, NEW l, NEW w,
         Counts(f, s, c, o, x, l, w), o >= 1, Allows(n2)
  PROVE  Can(t, n2, f, s, c + 1, o - 1, x, l, w) <= Can(t, n, f, s, c, o, x, l, w)
<1> DEFINE held == l + w + c
           calm == held + f + s
           soon == calm + o
<1>1. held \in Nat /\ calm \in Nat /\ soon \in Nat /\ soon + x - 1 \in Int
  BY DEF Counts
<1>2. /\ Tri(held) \in Int /\ Tri(calm) \in Int /\ Tri(soon) \in Int /\ Tri(soon + x - 1) \in Int
      /\ Tet(soon) \in Int
  BY <1>1, TriStep, TetStep
<1>3. l + w + (c + 1) = held + 1 /\ (held + 1) + f + s = calm + 1 /\ (calm + 1) + (o - 1) = soon
  BY DEF Counts
<1>4. Tri(held + 1) = Tri(held) + 2 * held + 2 /\ Tri(calm + 1) = Tri(calm) + 2 * calm + 2
  BY <1>1, TriStep
<1>5. w <= held /\ w + f <= calm
  BY DEF Counts
<1>. HIDE DEF held, calm, soon
<1>. QED
  BY <1>1, <1>2, <1>3, <1>4, <1>5 DEF Can, Counts, held, calm, soon

\* A caller clears the reset time.
LEMMA CanForget ==
  ASSUME NEW t, NEW t2, NEW n, NEW f, NEW s, NEW c, NEW o, NEW x, NEW l, NEW w,
         Counts(f, s, c, o, x, l, w), c >= 1, t2 # "past"
  PROVE  Can(t2, n, f, s + 1, c - 1, o, x, l, w) <= Can(t, n, f, s, c, o, x, l, w)
<1> DEFINE held == l + w + c
           calm == held + f + s
           soon == calm + o
<1>1. held \in Nat /\ calm \in Nat /\ soon \in Nat /\ soon + x - 1 \in Int
  BY DEF Counts
<1>2. /\ Tri(held) \in Int /\ Tri(calm) \in Int /\ Tri(soon) \in Int /\ Tri(soon + x - 1) \in Int
      /\ Tet(soon) \in Int
  BY <1>1, TriStep, TetStep
<1>3. l + w + (c - 1) = held - 1 /\ (held - 1) + f + (s + 1) = calm
  BY DEF Counts
<1>4. calm = held + (f + s) /\ f + s \in Nat /\ held >= 1
  BY DEF Counts
<1>5. Tri(held) + 2 * (f + s) <= Tri(calm)
  BY <1>1, <1>4, TriGrows
<1>. HIDE DEF held, calm, soon
<1>. QED
  BY <1>1, <1>2, <1>3, <1>4, <1>5 DEF Can, Counts, held, calm, soon

\* A response of this window renews the reset time.
LEMMA CanRenew ==
  ASSUME NEW t, NEW t2, NEW n, NEW f, NEW s, NEW c, NEW o, NEW x, NEW l, NEW w,
         Counts(f, s, c, o, x, l, w), w >= 1, t2 # "past"
  PROVE  Can(t2, n, f + 1, s, c, o, x, l, w - 1) <= Can(t, n, f, s, c, o, x, l, w)
<1> DEFINE held == l + w + c
           calm == held + f + s
           soon == calm + o
<1>1. held \in Nat /\ calm \in Nat /\ soon \in Nat /\ soon + x - 1 \in Int
  BY DEF Counts
<1>2. /\ Tri(held) \in Int /\ Tri(calm) \in Int /\ Tri(soon) \in Int /\ Tri(soon + x - 1) \in Int
      /\ Tet(soon) \in Int
  BY <1>1, TriStep, TetStep
<1>3. l + (w - 1) + c = held - 1 /\ (held - 1) + (f + 1) + s = calm
  BY DEF Counts
<1>4. calm = held + (f + s) /\ f + s \in Nat /\ held >= 1
  BY DEF Counts
<1>5. Tri(held) + 2 * (f + s) <= Tri(calm)
  BY <1>1, <1>4, TriGrows
<1>. HIDE DEF held, calm, soon
<1>. QED
  BY <1>1, <1>2, <1>3, <1>4, <1>5 DEF Can, Counts, held, calm, soon

\* A low count is recorded, of this window or of the last one.
LEMMA CanClose ==
  ASSUME NEW t, NEW n, NEW n2, NEW f, NEW s, NEW c, NEW o, NEW x, NEW l, NEW w,
         Counts(f, s, c, o, x, l, w), ~Allows(n2)
  PROVE  /\ l >= 1 => Can(t, n2, f, s, c, o, x, l - 1, w + 1) <= Can(t, n, f, s, c, o, x, l, w)
         /\ Can(t, n2, f, s, c, o, x, l, w) <= Can(t, n, f, s, c, o, x, l, w)
<1> DEFINE held == l + w + c
           calm == held + f + s
           soon == calm + o
<1>1. held \in Nat /\ calm \in Nat /\ soon \in Nat /\ soon + x - 1 \in Int
  BY DEF Counts
<1>2. /\ Tri(held) \in Int /\ Tri(calm) \in Int /\ Tri(soon) \in Int /\ Tri(soon + x - 1) \in Int
      /\ Tet(soon) \in Int
  BY <1>1, TriStep, TetStep
<1>3. (l - 1) + (w + 1) + c = held
  BY DEF Counts
<1>. HIDE DEF held, calm, soon
<1>. QED
  BY <1>1, <1>2, <1>3 DEF Can, Counts, held, calm, soon

\* A count above the reserve is recorded late.
LEMMA CanOpen ==
  ASSUME NEW t, NEW n, NEW n2, NEW f, NEW s, NEW c, NEW o, NEW x, NEW l, NEW w,
         Counts(f, s, c, o, x, l, w), o >= 1, Allows(n2)
  PROVE  Can(t, n2, f, s, c, o - 1, x, l, w + 1) <= Can(t, n, f, s, c, o, x, l, w)
<1> DEFINE held == l + w + c
           calm == held + f + s
           soon == calm + o
<1>1. held \in Nat /\ calm \in Nat /\ soon \in Nat /\ soon + x - 1 \in Int
  BY DEF Counts
<1>2. /\ Tri(held) \in Int /\ Tri(calm) \in Int /\ Tri(soon) \in Int /\ Tri(soon + x - 1) \in Int
      /\ Tet(soon) \in Int
  BY <1>1, TriStep, TetStep
<1>3. l + (w + 1) + c = held + 1 /\ (held + 1) + f + s = calm + 1 /\ (calm + 1) + (o - 1) = soon
  BY DEF Counts
<1>4. Tri(held + 1) = Tri(held) + 2 * held + 2 /\ Tri(calm + 1) = Tri(calm) + 2 * calm + 2
  BY <1>1, TriStep
<1>5. w <= held /\ w + f <= calm
  BY DEF Counts
<1>. HIDE DEF held, calm, soon
<1>. QED
  BY <1>1, <1>2, <1>3, <1>4, <1>5 DEF Can, Counts, held, calm, soon

\* Such a count of the last window, whose reset time has passed since.
LEMMA CanOpenTwice ==
  ASSUME NEW t, NEW n, NEW n2, NEW f, NEW s, NEW c, NEW o, NEW x, NEW l, NEW w,
         Counts(f, s, c, o, x, l, w), Allows(n2)
  PROVE  Can(t, n2, f, s, c, o, x + 1, l, w) <= Can(t, n, f, s, c, o, x, l, w)
<1> DEFINE held == l + w + c
           calm == held + f + s
           soon == calm + o
<1>1. held \in Nat /\ calm \in Nat /\ soon \in Nat /\ soon + x - 1 \in Int
  BY DEF Counts
<1>2. /\ Tri(held) \in Int /\ Tri(calm) \in Int /\ Tri(soon) \in Int /\ Tri(soon + x - 1) \in Int
      /\ Tet(soon) \in Int
  BY <1>1, TriStep, TetStep
<1>3. soon + (x + 1) - 1 = (soon + x - 1) + 1
  BY DEF Counts
<1>4. Tri((soon + x - 1) + 1) = Tri(soon + x - 1) + 2 * (soon + x - 1) + 2
  BY <1>1, TriStep
<1>5. w <= soon /\ w + f <= soon
  BY DEF Counts
<1>. HIDE DEF held, calm, soon
<1>. QED
  BY <1>1, <1>2, <1>3, <1>4, <1>5 DEF Can, Counts, held, calm, soon

\* A response of the last window brings a reset time that has passed.
LEMMA CanExpire ==
  ASSUME NEW t, NEW n, NEW f, NEW s, NEW c, NEW o, NEW x, NEW l, NEW w,
         Counts(f, s, c, o, x, l, w), x >= 1
  PROVE  Can("past", n, f + 1, s, c, o, x - 1, l, w) <= Can(t, n, f, s, c, o, x, l, w)
<1> DEFINE held == l + w + c
           calm == held + f + s
           soon == calm + o
<1>1. held \in Nat /\ calm \in Nat /\ soon \in Nat /\ soon + x - 1 \in Int
  BY DEF Counts
<1>2. /\ Tri(held) \in Int /\ Tri(calm) \in Int /\ Tri(soon) \in Int /\ Tri(soon + x - 1) \in Int
      /\ Tet(soon) \in Int
  BY <1>1, TriStep, TetStep
<1>3. held + (f + 1) + s = calm + 1 /\ (calm + 1) + o = soon + 1 /\ (soon + 1) + (x - 1) - 1 = soon + x - 1
  BY DEF Counts
<1>4. Tet(soon + 1) = Tet(soon) + 3 * Tri(soon + 1)
  BY <1>1, TetStep
<1>5. Tri(soon + 1) \in Int
  BY <1>1, TriStep
<1>6. calm = held + (f + s) /\ f + s \in Nat /\ soon = calm + o
  BY DEF Counts
<1>. HIDE DEF held, calm, soon
<1>7. f + s \in Nat /\ o \in Nat
  BY DEF Counts
<1>8. Tri(held) <= Tri(calm)
  BY <1>1, <1>6, <1>7, TriGrows
<1>9. Tri(calm) <= Tri(soon)
  BY <1>1, <1>6, <1>7, TriGrows
<1>10. Tri(soon) >= 0 /\ Tri(held) >= 0
  <2>1. Tri(soon) >= 2 * soon /\ Tri(held) >= 2 * held
    BY <1>1, TriGrows
  <2>. QED
    BY <1>1, <1>2, <2>1
<1>. QED
  BY <1>1, <1>2, <1>3, <1>4, <1>5, <1>6, <1>8, <1>9, <1>10 DEF Can, Counts, held, calm, soon

\* They grow from -1 on.
LEMMA TriOfLess ==
  ASSUME NEW j \in Int, j >= -1, NEW m \in Nat
  PROVE  Tri(j) <= Tri(j + m)
<1>1. CASE j \in Nat
  BY <1>1, TriGrows
<1>2. CASE j = -1
  <2>1. Tri(-1) = 0 /\ Tri(-1 + m) = (m - 1) * m
    BY DEF Tri
  <2>2. (m - 1) * m >= 0
    <3>1. CASE m = 0
      BY <3>1
    <3>2. CASE m >= 1
      <4>1. m - 1 \in Nat
        BY <3>2
      <4>. QED
        BY <4>1
    <3>. QED
      BY <3>1, <3>2
  <2>. QED
    BY <1>2, <2>1, <2>2
<1>. QED
  BY <1>1, <1>2

\* So do the sums of the sums.
LEMMA TetGrows ==
  ASSUME NEW j \in Nat, NEW m \in Nat
  PROVE  Tet(j) <= Tet(j + m)
<1>1. (j + m) * (j + m + 1) >= j * (j + 1) /\ (j + m) * (j + m + 1) \in Nat /\ j * (j + 1) \in Nat
  BY TriGrows DEF Tri
<1>2. \A u, v, p, q \in Nat : p <= q /\ u <= v => p * u <= q * v
  OBVIOUS
<1>3. (j * (j + 1)) * (j + 2) <= ((j + m) * (j + m + 1)) * (j + m + 2)
  BY <1>1, <1>2
<1>. QED
  BY <1>3 DEF Tet

\* They are large against their number.
LEMMA TetIsLarge ==
  ASSUME NEW k \in Nat, k >= 1
  PROVE  Tet(k) >= 6 * k /\ (k >= 2 => Tet(k) >= 12 * k)
<1>1. Tet(k) = k * ((k + 1) * (k + 2))
  BY DEF Tet
<1>2. (k + 1) * (k + 2) >= 6 /\ (k >= 2 => (k + 1) * (k + 2) >= 12) /\ (k + 1) * (k + 2) \in Nat
  OBVIOUS
<1>3. \A u, v \in Nat : u <= v => k * u <= k * v
  OBVIOUS
<1>. QED
  BY <1>1, <1>2, <1>3

\* What can still be taken is not negative.
LEMMA CanAtLeast ==
  ASSUME NEW t, NEW n, NEW f, NEW s, NEW c, NEW o, NEW x, NEW l, NEW w,
         Counts(f, s, c, o, x, l, w), NEW b \in Nat
  PROVE  LET all == f + s + c + o + b + x + l + w
         IN Can(t, n, f, s, c, o, x, l, w) + Tet(all) + 3 * Tri(all - 1) >= 0
<1> DEFINE held == l + w + c
           calm == held + f + s
           soon == calm + o
           all  == f + s + c + o + b + x + l + w
<1>1. held \in Nat /\ calm \in Nat /\ soon \in Nat /\ all \in Nat /\ soon + x - 1 \in Int
  BY DEF Counts
<1>2. /\ Tri(held) \in Int /\ Tri(calm) \in Int /\ Tri(soon) \in Int /\ Tri(soon + x - 1) \in Int
      /\ Tri(all - 1) \in Int /\ Tet(soon) \in Int /\ Tet(all) \in Int
  BY <1>1, TriStep, TetStep
<1>3. /\ f + s \in Nat /\ x + b \in Nat /\ calm = held + (f + s) /\ soon = calm + o
      /\ soon + (x + b) = all /\ (soon + x - 1) + b = all - 1 /\ soon + x - 1 >= -1
  BY DEF Counts
<1>. HIDE DEF held, calm, soon, all
<1>4. Tri(held) <= Tri(calm)
  BY <1>1, <1>3, TriGrows
<1>5. Tri(calm) <= Tri(soon)
  BY <1>1, <1>3, TriGrows DEF Counts
<1>6. Tri(soon + x - 1) <= Tri(all - 1)
  BY <1>1, <1>3, TriOfLess
<1>7. Tet(soon) <= Tet(all)
  BY <1>1, <1>3, TetGrows
<1>. QED
  BY <1>1, <1>2, <1>4, <1>5, <1>6, <1>7 DEF Can, Counts, held, calm, soon, all

\* When the count falls below the reserve, the caller that took it there is about to close
\* the guard.
LEMMA CanAtFirst ==
  ASSUME NEW t, NEW n, NEW f, NEW s, NEW c, NEW o, NEW x, NEW l, NEW w,
         Counts(f, s, c, o, x, l, w), l >= 1
  PROVE  Can(t, n, f, s, c, o, x, l, w) + 6 <= 0
<1> DEFINE held == l + w + c
           calm == held + f + s
           soon == calm + o
<1>1. held \in Nat /\ calm \in Nat /\ soon \in Nat /\ soon - 1 \in Nat /\ soon + x - 1 \in Int
  BY DEF Counts
<1>2. /\ Tri(held) \in Int /\ Tri(calm) \in Int /\ Tri(soon) \in Int /\ Tri(soon + x - 1) \in Int
      /\ Tri(soon - 1) \in Int /\ Tet(soon) \in Int
  BY <1>1, TriStep, TetStep
<1>3. (soon - 1) + x = soon + x - 1 /\ (soon - 1) + 1 = soon
  BY DEF Counts
<1>. HIDE DEF held, calm, soon
<1>4. Tri(soon - 1) <= Tri(soon + x - 1)
  BY <1>1, <1>3, TriGrows DEF Counts
<1>5. Tri(soon) = Tri(soon - 1) + 2 * (soon - 1) + 2
  BY <1>1, <1>3, TriStep
<1>6. Tet(soon) >= 6 * soon
  BY <1>1, TetIsLarge
<1>7. Tri(held) >= 2 * held /\ Tri(calm) >= 2 * calm
  BY <1>1, TriGrows
<1>. QED
  BY <1>1, <1>2, <1>4, <1>5, <1>6, <1>7 DEF Can, Counts, held, calm, soon

\* No more than one request for each caller is within the bound.
LEMMA MostIsEnough ==
  ASSUME NEW n \in Nat
  PROVE  /\ 6 * n <= Most(n) /\ Most(n) \in Int /\ Tet(n) \in Int /\ Tri(n - 1) \in Int
         /\ n >= 1 => Tet(n) + 3 * Tri(n - 1) - 6 <= Most(n)
<1>1. Tet(n) \in Int /\ Tri(n - 1) \in Int
  BY TetStep, TriStep
<1>2. CASE n = 0
  BY <1>1, <1>2 DEF Most
<1>3. CASE n = 1
  <2>1. Tet(1) = 6 /\ Tri(0) = 0
    BY DEF Tet, Tri
  <2>. QED
    BY <1>3, <2>1 DEF Most
<1>4. CASE n >= 2
  <2>1. Tet(n) >= 12 * n
    BY <1>4, TetIsLarge
  <2>2. Tri(n - 1) >= 0
    <3>1. n - 1 \in Nat
      BY <1>4
    <3>2. Tri(n - 1) >= 2 * (n - 1)
      BY <3>1, TriGrows
    <3>. QED
      BY <1>1, <3>1, <3>2
  <2>. QED
    BY <1>1, <1>4, <2>1, <2>2 DEF Most
<1>. QED
  BY <1>2, <1>3, <1>4

\* What can still be taken is a number.
LEMMA CanIsInt ==
  ASSUME NEW t, NEW n, NEW f, NEW s, NEW c, NEW o, NEW x, NEW l, NEW w, Counts(f, s, c, o, x, l, w)
  PROVE  Can(t, n, f, s, c, o, x, l, w) \in Int
<1> DEFINE held == l + w + c
           calm == held + f + s
           soon == calm + o
<1>1. held \in Nat /\ calm \in Nat /\ soon \in Nat /\ soon + x - 1 \in Int
  BY DEF Counts
<1>2. /\ Tri(held) \in Int /\ Tri(calm) \in Int /\ Tri(soon) \in Int /\ Tri(soon + x - 1) \in Int
      /\ Tet(soon) \in Int
  BY <1>1, TriStep, TetStep
<1>. HIDE DEF held, calm, soon
<1>. QED
  BY <1>1, <1>2 DEF Can, Counts, held, calm, soon

-----------------------------------------------------------------------------
(* The steps *)

\* A caller's step moves it from one kind to another.
From(a, b, k) == (IF b = k THEN 1 ELSE 0) - (IF a = k THEN 1 ELSE 0)

\* The counts before the step, and after it.
LEMMA OneMoves ==
  ASSUME TypeOK, NEW c \in Callers, \A d \in Callers \ {c} : pc'[d] = pc[d] /\ header'[d] = header[d],
         NEW a, NEW b, Kind(c) = a, Kind(c)' = b
  PROVE  /\ Counts(Num("free"), Num("sends"), Num("clears"), Num("opens"), Num("expires"), Num("closes"), Num("renews"))
         /\ Num("free")' = Num("free") + From(a, b, "free")
         /\ Num("sends")' = Num("sends") + From(a, b, "sends")
         /\ Num("clears")' = Num("clears") + From(a, b, "clears")
         /\ Num("opens")' = Num("opens") + From(a, b, "opens")
         /\ Num("expires")' = Num("expires") + From(a, b, "expires")
         /\ Num("closes")' = Num("closes") + From(a, b, "closes")
         /\ Num("renews")' = Num("renews") + From(a, b, "renews")
         /\ Num(a) >= 1
<1>1. \A d \in Callers \ {c} : Kind(d)' = Kind(d)
  BY DEF Kind
<1>2. \A k : /\ Num(k) \in Nat /\ Num(k)' = Num(k) + From(a, b, k)
             /\ a = k => Num(k) >= 1
  BY <1>1, NumMoves DEF From
<1>. QED
  BY <1>2 DEF Counts


\* A caller passes the guard, is refused, clears the budget, or its request fails.
LEMMA CheckKeepsPotential ==
  ASSUME TypeOK, NEW c \in Callers, Check(c) \/ RequestFails(c)
  PROVE  Potential' <= Potential
<1>0. \A d \in Callers \ {c} : pc'[d] = pc[d] /\ header'[d] = header[d]
  BY DEF TypeOK, Check, LoadRemaining, LoadReset, ClearRemaining, ClearReset, RequestFails, Goto
<1>1. CASE LoadRemaining(c) /\ Allows(remaining)
  <2>1. Kind(c) = "free" /\ Kind(c)' = "sends" /\ resetAt' = resetAt /\ remaining' = remaining
    BY <1>1 DEF TypeOK, LoadRemaining, Goto, Kind
  <2>2. /\ Counts(Num("free"), Num("sends"), Num("clears"), Num("opens"), Num("expires"), Num("closes"), Num("renews"))
        /\ Num("free")' = Num("free") - 1 /\ Num("sends")' = Num("sends") + 1 /\ Num("clears")' = Num("clears")
        /\ Num("opens")' = Num("opens") /\ Num("expires")' = Num("expires")
        /\ Num("closes")' = Num("closes") /\ Num("renews")' = Num("renews") /\ Num("free") >= 1
    BY <1>0, <2>1, OneMoves DEF From, Counts
  <2>. QED
    BY <1>1, <2>1, <2>2, CanPass DEF Potential
<1>2. CASE LoadRemaining(c) /\ ~Allows(remaining)
  <2>1. Kind(c) = "free" /\ Kind(c)' = "free" /\ resetAt' = resetAt /\ remaining' = remaining
    BY <1>2 DEF TypeOK, LoadRemaining, Goto, Kind
  <2>2. /\ Counts(Num("free"), Num("sends"), Num("clears"), Num("opens"), Num("expires"), Num("closes"), Num("renews"))
        /\ Num("free")' = Num("free") /\ Num("sends")' = Num("sends") /\ Num("clears")' = Num("clears")
        /\ Num("opens")' = Num("opens") /\ Num("expires")' = Num("expires")
        /\ Num("closes")' = Num("closes") /\ Num("renews")' = Num("renews") /\ Num("free") >= 1
    BY <1>0, <2>1, OneMoves DEF From, Counts
  <2>. QED
    BY <1>2, <2>1, <2>2, CanIsInt DEF Potential
<1>3. CASE LoadReset(c) /\ ResetPassed(resetAt)
  <2>1. Kind(c) = "free" /\ Kind(c)' = "opens" /\ resetAt = "past" /\ resetAt' = resetAt /\ remaining' = remaining
    BY <1>3 DEF TypeOK, LoadReset, ResetPassed, Goto, Kind
  <2>2. /\ Counts(Num("free"), Num("sends"), Num("clears"), Num("opens"), Num("expires"), Num("closes"), Num("renews"))
        /\ Num("free")' = Num("free") - 1 /\ Num("sends")' = Num("sends") /\ Num("clears")' = Num("clears")
        /\ Num("opens")' = Num("opens") + 1 /\ Num("expires")' = Num("expires")
        /\ Num("closes")' = Num("closes") /\ Num("renews")' = Num("renews") /\ Num("free") >= 1
    BY <1>0, <2>1, OneMoves DEF From, Counts
  <2>. QED
    BY <1>3, <2>1, <2>2, CanSee DEF Potential
<1>4. CASE LoadReset(c) /\ ~ResetPassed(resetAt)
  <2>1. Kind(c) = "free" /\ Kind(c)' = "free" /\ resetAt' = resetAt /\ remaining' = remaining
    BY <1>4 DEF TypeOK, LoadReset, Goto, Kind
  <2>2. /\ Counts(Num("free"), Num("sends"), Num("clears"), Num("opens"), Num("expires"), Num("closes"), Num("renews"))
        /\ Num("free")' = Num("free") /\ Num("sends")' = Num("sends") /\ Num("clears")' = Num("clears")
        /\ Num("opens")' = Num("opens") /\ Num("expires")' = Num("expires")
        /\ Num("closes")' = Num("closes") /\ Num("renews")' = Num("renews") /\ Num("free") >= 1
    BY <1>0, <2>1, OneMoves DEF From, Counts
  <2>. QED
    BY <1>4, <2>1, <2>2, CanIsInt DEF Potential
<1>5. CASE ClearRemaining(c)
  <2>1. Kind(c) = "opens" /\ Kind(c)' = "clears" /\ resetAt' = resetAt /\ Allows(remaining')
    BY <1>5 DEF TypeOK, ClearRemaining, Allows, Unknown, Goto, Kind
  <2>2. /\ Counts(Num("free"), Num("sends"), Num("clears"), Num("opens"), Num("expires"), Num("closes"), Num("renews"))
        /\ Num("free")' = Num("free") /\ Num("sends")' = Num("sends") /\ Num("clears")' = Num("clears") + 1
        /\ Num("opens")' = Num("opens") - 1 /\ Num("expires")' = Num("expires")
        /\ Num("closes")' = Num("closes") /\ Num("renews")' = Num("renews") /\ Num("opens") >= 1
    BY <1>0, <2>1, OneMoves DEF From, Counts
  <2>. QED
    BY <1>5, <2>1, <2>2, CanClear DEF Potential
<1>6. CASE ClearReset(c)
  <2>1. Kind(c) = "clears" /\ Kind(c)' = "sends" /\ resetAt' # "past" /\ remaining' = remaining
    BY <1>6 DEF TypeOK, ClearReset, Goto, Kind
  <2>2. /\ Counts(Num("free"), Num("sends"), Num("clears"), Num("opens"), Num("expires"), Num("closes"), Num("renews"))
        /\ Num("free")' = Num("free") /\ Num("sends")' = Num("sends") + 1 /\ Num("clears")' = Num("clears") - 1
        /\ Num("opens")' = Num("opens") /\ Num("expires")' = Num("expires")
        /\ Num("closes")' = Num("closes") /\ Num("renews")' = Num("renews") /\ Num("clears") >= 1
    BY <1>0, <2>1, OneMoves DEF From, Counts
  <2>. QED
    BY <1>6, <2>1, <2>2, CanForget DEF Potential
<1>7. CASE RequestFails(c)
  <2>1. Kind(c) = "sends" /\ Kind(c)' = "free" /\ resetAt' = resetAt /\ remaining' = remaining
    BY <1>7 DEF TypeOK, RequestFails, Goto, Kind
  <2>2. /\ Counts(Num("free"), Num("sends"), Num("clears"), Num("opens"), Num("expires"), Num("closes"), Num("renews"))
        /\ Num("free")' = Num("free") + 1 /\ Num("sends")' = Num("sends") - 1 /\ Num("clears")' = Num("clears")
        /\ Num("opens")' = Num("opens") /\ Num("expires")' = Num("expires")
        /\ Num("closes")' = Num("closes") /\ Num("renews")' = Num("renews") /\ Num("sends") >= 1
    BY <1>0, <2>1, OneMoves DEF From, Counts
  <2>. QED
    BY <1>7, <2>1, <2>2, CanFail DEF Potential
<1>. QED
  BY <1>1, <1>2, <1>3, <1>4, <1>5, <1>6, <1>7 DEF Check

\* A response is recorded, of this window or of the last one.
LEMMA RecordKeepsPotential ==
  ASSUME TypeOK, NEW c \in Callers, Record(c)
  PROVE  Potential' <= Potential
<1>0. \A d \in Callers \ {c} : pc'[d] = pc[d] /\ header'[d] = header[d]
  BY DEF TypeOK, Record, RecordRemaining, RecordReset, Goto
<1> DEFINE high == Allows(header[c].remaining)
           past == header[c].reset = "past"
<1>1. CASE RecordRemaining(c) /\ high /\ past
  <2>1. Kind(c) = "opensTwice" /\ Kind(c)' = "expires" /\ resetAt' = resetAt /\ remaining' = header[c].remaining
    BY <1>1 DEF TypeOK, RecordRemaining, AfterCount, Goto, Kind
  <2>2. /\ Counts(Num("free"), Num("sends"), Num("clears"), Num("opens"), Num("expires"), Num("closes"), Num("renews"))
        /\ Num("free")' = Num("free") /\ Num("sends")' = Num("sends") /\ Num("clears")' = Num("clears")
        /\ Num("opens")' = Num("opens") /\ Num("expires")' = Num("expires") + 1
        /\ Num("closes")' = Num("closes") /\ Num("renews")' = Num("renews") /\ Num("opensTwice") >= 1
    BY <1>0, <2>1, OneMoves DEF From, Counts
  <2>. QED
    BY <1>1, <2>1, <2>2, CanOpenTwice DEF Potential
<1>2. CASE RecordRemaining(c) /\ high /\ ~past
  <2>1. Kind(c) = "opens" /\ Kind(c)' = "renews" /\ resetAt' = resetAt /\ remaining' = header[c].remaining
    BY <1>2 DEF TypeOK, RecordRemaining, AfterCount, Goto, Kind
  <2>2. /\ Counts(Num("free"), Num("sends"), Num("clears"), Num("opens"), Num("expires"), Num("closes"), Num("renews"))
        /\ Num("free")' = Num("free") /\ Num("sends")' = Num("sends") /\ Num("clears")' = Num("clears")
        /\ Num("opens")' = Num("opens") - 1 /\ Num("expires")' = Num("expires")
        /\ Num("closes")' = Num("closes") /\ Num("renews")' = Num("renews") + 1 /\ Num("opens") >= 1
    BY <1>0, <2>1, OneMoves DEF From, Counts
  <2>. QED
    BY <1>2, <2>1, <2>2, CanOpen DEF Potential
<1>3. CASE RecordRemaining(c) /\ ~high /\ past
  <2>1. Kind(c) = "expires" /\ Kind(c)' = "expires" /\ resetAt' = resetAt /\ remaining' = header[c].remaining
    BY <1>3 DEF TypeOK, RecordRemaining, AfterCount, Goto, Kind
  <2>2. /\ Counts(Num("free"), Num("sends"), Num("clears"), Num("opens"), Num("expires"), Num("closes"), Num("renews"))
        /\ Num("free")' = Num("free") /\ Num("sends")' = Num("sends") /\ Num("clears")' = Num("clears")
        /\ Num("opens")' = Num("opens") /\ Num("expires")' = Num("expires")
        /\ Num("closes")' = Num("closes") /\ Num("renews")' = Num("renews") /\ Num("expires") >= 1
    BY <1>0, <2>1, OneMoves DEF From, Counts
  <2>. QED
    BY <1>3, <2>1, <2>2, CanClose DEF Potential
<1>4. CASE RecordRemaining(c) /\ ~high /\ ~past
  <2>1. Kind(c) = "closes" /\ Kind(c)' = "renews" /\ resetAt' = resetAt /\ remaining' = header[c].remaining
    BY <1>4 DEF TypeOK, RecordRemaining, AfterCount, Goto, Kind
  <2>2. /\ Counts(Num("free"), Num("sends"), Num("clears"), Num("opens"), Num("expires"), Num("closes"), Num("renews"))
        /\ Num("free")' = Num("free") /\ Num("sends")' = Num("sends") /\ Num("clears")' = Num("clears")
        /\ Num("opens")' = Num("opens") /\ Num("expires")' = Num("expires")
        /\ Num("closes")' = Num("closes") - 1 /\ Num("renews")' = Num("renews") + 1 /\ Num("closes") >= 1
    BY <1>0, <2>1, OneMoves DEF From, Counts
  <2>. QED
    BY <1>4, <2>1, <2>2, CanClose DEF Potential
<1>5. CASE RecordReset(c) /\ past
  <2>1. Kind(c) = "expires" /\ Kind(c)' = "free" /\ resetAt' = "past" /\ remaining' = remaining
    BY <1>5 DEF TypeOK, RecordReset, Goto, Kind
  <2>2. /\ Counts(Num("free"), Num("sends"), Num("clears"), Num("opens"), Num("expires"), Num("closes"), Num("renews"))
        /\ Num("free")' = Num("free") + 1 /\ Num("sends")' = Num("sends") /\ Num("clears")' = Num("clears")
        /\ Num("opens")' = Num("opens") /\ Num("expires")' = Num("expires") - 1
        /\ Num("closes")' = Num("closes") /\ Num("renews")' = Num("renews") /\ Num("expires") >= 1
    BY <1>0, <2>1, OneMoves DEF From, Counts
  <2>. QED
    BY <1>5, <2>1, <2>2, CanExpire DEF Potential
<1>6. CASE RecordReset(c) /\ ~past
  <2>1. Kind(c) = "renews" /\ Kind(c)' = "free" /\ resetAt' # "past" /\ remaining' = remaining
    BY <1>6 DEF TypeOK, RecordReset, Goto, Kind
  <2>2. /\ Counts(Num("free"), Num("sends"), Num("clears"), Num("opens"), Num("expires"), Num("closes"), Num("renews"))
        /\ Num("free")' = Num("free") + 1 /\ Num("sends")' = Num("sends") /\ Num("clears")' = Num("clears")
        /\ Num("opens")' = Num("opens") /\ Num("expires")' = Num("expires")
        /\ Num("closes")' = Num("closes") /\ Num("renews")' = Num("renews") - 1 /\ Num("renews") >= 1
    BY <1>0, <2>1, OneMoves DEF From, Counts
  <2>. QED
    BY <1>6, <2>1, <2>2, CanRenew DEF Potential
<1>. QED
  BY <1>1, <1>2, <1>3, <1>4, <1>5, <1>6 DEF Record

\* A request that takes from the reserve is paid for, and its caller will close the guard.
LEMMA RequestKeepsPotential ==
  ASSUME TypeOK, TypeOK', NEW c \in Callers, Request(c), left' < Reserve
  PROVE  /\ Potential' + 6 <= Potential
         /\ Potential' + 6 <= 0
<1>0. \A d \in Callers \ {c} : pc'[d] = pc[d] /\ header'[d] = header[d]
  BY DEF TypeOK, Request, Counted, Goto
<1>1. PICK n \in {0, 1} : n <= left /\ Counted(c, n)
  BY DEF Request
<1>2. header'[c] = [remaining |-> left', reset |-> "future"] /\ left' \in Nat /\ ~Allows(left')
  BY <1>1, BudgetConstants DEF TypeOK, Counted, Allows
<1>3. Kind(c) = "sends" /\ Kind(c)' = "closes" /\ resetAt' = resetAt /\ remaining' = remaining
  BY <1>2 DEF TypeOK, Request, Goto, Kind
<1>4. /\ Counts(Num("free"), Num("sends"), Num("clears"), Num("opens"), Num("expires"), Num("closes"), Num("renews"))
      /\ Num("free")' = Num("free") /\ Num("sends")' = Num("sends") - 1 /\ Num("clears")' = Num("clears")
      /\ Num("opens")' = Num("opens") /\ Num("expires")' = Num("expires")
      /\ Num("closes")' = Num("closes") + 1 /\ Num("renews")' = Num("renews") /\ Num("sends") >= 1
  BY <1>0, <1>3, OneMoves DEF From, Counts
<1>5. Counts(Num("free")', Num("sends")', Num("clears")', Num("opens")', Num("expires")', Num("closes")', Num("renews")')
      /\ Num("closes")' >= 1
  BY <1>4 DEF Counts
<1>6. Potential' + 6 <= 0
  BY <1>5, CanAtFirst DEF Potential
<1>7. Potential' + 6 <= Potential
  BY <1>3, <1>4, CanSend DEF Potential
<1>. QED
  BY <1>6, <1>7

\* What can still be taken is a number.
LEMMA PotentialIsInt == Potential \in Int
<1>1. Counts(Num("free"), Num("sends"), Num("clears"), Num("opens"), Num("expires"), Num("closes"), Num("renews"))
  BY NumIsNat DEF Counts
<1>. QED
  BY <1>1, CanIsInt DEF Potential

\* The callers cannot take less than nothing.
LEMMA PotentialIsEnough ==
  Potential + Tet(Cardinality(Callers)) + 3 * Tri(Cardinality(Callers) - 1) >= 0
<1>1. Counts(Num("free"), Num("sends"), Num("clears"), Num("opens"), Num("expires"), Num("closes"), Num("renews"))
      /\ Num("opensTwice") \in Nat
  BY NumIsNat DEF Counts
<1>2. Cardinality(Callers) = Num("free") + Num("sends") + Num("clears") + Num("opens") + Num("opensTwice")
                             + Num("expires") + Num("closes") + Num("renews")
  BY NumSum
<1>. QED
  BY <1>1, <1>2, CanAtLeast DEF Potential

-----------------------------------------------------------------------------
(* The bound *)

\* At first all callers are free, the budget is unknown, and each may take one.
LEMMA InitOver == Init => OverInv
<1>. SUFFICES ASSUME Init PROVE OverInv
  OBVIOUS
<1> DEFINE n == Cardinality(Callers)
<1>1. n \in Nat
  BY BudgetConstants, FS_CardinalityType
<1>2. Of({"free"}) = Callers /\ \A k : k # "free" => Of({k}) = {}
  BY DEF Init, Of, Kind
<1>3. Num("free") = n /\ \A k : k # "free" => Num(k) = 0
  BY <1>2, FS_EmptySet DEF Num
<1>4. Potential = Can(resetAt, remaining, n, 0, 0, 0, 0, 0, 0)
  BY <1>3 DEF Potential
<1>5. Tri(n) \in Int /\ Tri(n - 1) \in Int /\ Tet(n) \in Int
  BY <1>1, TriStep, TetStep
<1>6. resetAt # "past" /\ Allows(remaining)
  BY DEF Init, Allows, Unknown
<1>. HIDE DEF n
<1>7. Can(resetAt, remaining, n, 0, 0, 0, 0, 0, 0) = 6 * n - Tet(n) - 3 * Tri(n - 1)
  BY <1>1, <1>5, <1>6 DEF Can
<1>8. 6 * n <= Most(n) /\ Most(n) \in Int
  BY <1>1, MostIsEnough
<1>9. 6 * over + Potential + Tet(n) + 3 * Tri(n - 1) <= Most(n)
  BY <1>1, <1>4, <1>5, <1>7, <1>8 DEF Init
<1>10. TypeOK /\ over = 0
  BY InitBudget DEF BudgetInv, Init
<1>. QED
  BY <1>9, <1>10 DEF OverInv, n

\* One request more is paid for by what can be taken no longer.
LEMMA Paid ==
  ASSUME NEW o1 \in Int, NEW o2 \in Int, NEW p1 \in Int, NEW p2 \in Int, NEW t \in Int, NEW u \in Int, NEW m \in Int,
         p2 + 6 <= p1, p2 + 6 <= 0
  PROVE  /\ (o2 <= o1 + 1 /\ 6 * o1 + p1 + t + 3 * u <= m) => 6 * o2 + p2 + t + 3 * u <= m
         /\ (o2 = 0 /\ t + 3 * u - 6 <= m) => 6 * o2 + p2 + t + 3 * u <= m
  OBVIOUS

\* Every step keeps the balance.
LEMMA NextOver == OverInv /\ TypeOK' /\ [Next]_vars => OverInv'
<1>. SUFFICES ASSUME OverInv, TypeOK', [Next]_vars PROVE OverInv'
  OBVIOUS
<1> DEFINE n == Cardinality(Callers)
           Fits == 6 * over + Potential + Tet(n) + 3 * Tri(n - 1) <= Most(n)
<1>1. n \in Nat
  BY BudgetConstants, FS_CardinalityType
<1>2. /\ Potential \in Int /\ Potential' \in Int /\ Tet(n) \in Int /\ Tri(n - 1) \in Int /\ Most(n) \in Int
      /\ left \in Int /\ left' \in Int /\ over \in Int /\ over' \in Int /\ Reserve \in Int
  <2>1. Potential \in Int /\ (Potential \in Int)'
    BY PotentialIsInt, PTL
  <2>. QED
    BY <1>1, <2>1, MostIsEnough, BudgetConstants DEF OverInv, TypeOK
<1>3. ASSUME left' = left, over' = over, Potential' <= Potential PROVE OverInv'
  <2>1. CASE left >= Reserve
    BY <1>2, <1>3, <2>1 DEF OverInv
  <2>2. CASE left < Reserve
    <3>1. Fits
      BY <2>2 DEF OverInv
    <3>2. Fits'
      BY <1>2, <1>3, <3>1
    <3>. QED
      BY <1>2, <1>3, <2>2, <3>2 DEF OverInv
  <2>. QED
    BY <1>2, <2>1, <2>2
<1>4. CASE UNCHANGED vars
  <2>1. Potential' = Potential
    BY <1>4 DEF vars, Potential, Num, Of, Kind
  <2>. QED
    BY <1>2, <1>3, <1>4, <2>1 DEF vars
<1>5. CASE NewWindow
  BY <1>5, BudgetConstants DEF NewWindow, OverInv
<1>6. ASSUME NEW c \in Callers, Check(c) \/ RequestFails(c) PROVE OverInv'
  <2>1. left' = left /\ over' = over
    BY <1>6 DEF Check, LoadRemaining, LoadReset, ClearRemaining, ClearReset, RequestFails
  <2>2. Potential' <= Potential
    BY <1>6, CheckKeepsPotential DEF OverInv
  <2>. QED
    BY <1>3, <2>1, <2>2
<1>7. ASSUME NEW c \in Callers, Record(c) PROVE OverInv'
  <2>1. left' = left /\ over' = over
    BY <1>7 DEF Record, RecordRemaining, RecordReset
  <2>2. Potential' <= Potential
    BY <1>7, RecordKeepsPotential DEF OverInv
  <2>. QED
    BY <1>3, <2>1, <2>2
<1>8. ASSUME NEW c \in Callers, Request(c) PROVE OverInv'
  <2>1. PICK k \in {0, 1} : left' = left - k /\ over' = IF left < Reserve THEN over + k ELSE over
    BY <1>8 DEF Request, Counted
  <2>2. CASE left' >= Reserve
    BY <1>2, <2>1, <2>2 DEF OverInv
  <2>3. CASE left' < Reserve
    <3>1. Potential' + 6 <= Potential /\ Potential' + 6 <= 0
      BY <1>8, <2>3, RequestKeepsPotential DEF OverInv
    <3>2. n >= 1
      <4>1. n # 0
        BY <1>8, BudgetConstants, FS_EmptySet
      <4>. QED
        BY <1>1, <4>1
    <3>3. Tet(n) + 3 * Tri(n - 1) - 6 <= Most(n)
      BY <1>1, <3>2, MostIsEnough
    <3>4. CASE left >= Reserve
      <4>1. over' = 0
        BY <1>2, <2>1, <3>4 DEF OverInv
      <4>2. 6 * over' + Potential' + Tet(n) + 3 * Tri(n - 1) <= Most(n)
        BY <1>2, <3>1, <3>3, <4>1, Paid
      <4>. QED
        BY <1>2, <2>3, <4>2 DEF OverInv
    <3>5. CASE left < Reserve
      <4>1. Fits
        BY <3>5 DEF OverInv
      <4>2. over' <= over + 1
        BY <1>2, <2>1
      <4>3. 6 * over + Potential + Tet(n) + 3 * Tri(n - 1) <= Most(n)
        BY <4>1
      <4>. HIDE DEF n, Fits
      <4>4. PICK p \in Int, q \in Int : p = Potential /\ q = Potential'
        BY <1>2
      <4>5. q + 6 <= p /\ q + 6 <= 0 /\ 6 * over + p + Tet(n) + 3 * Tri(n - 1) <= Most(n)
        BY <3>1, <4>3, <4>4
      <4>6. 6 * over' + q + Tet(n) + 3 * Tri(n - 1) <= Most(n)
        BY <1>2, <4>2, <4>5, Paid
      <4>7. 6 * over' + Potential' + Tet(n) + 3 * Tri(n - 1) <= Most(n)
        BY <4>4, <4>6
      <4>. QED
        BY <1>2, <2>3, <4>7 DEF OverInv, n
    <3>. QED
      BY <1>2, <3>4, <3>5
  <2>. QED
    BY <1>2, <2>2, <2>3
<1>. QED
  BY <1>4, <1>5, <1>6, <1>7, <1>8 DEF Next

\* What can still be taken is not negative, so what was taken is within the bound.
LEMMA OverIsBounded == OverInv => OvershootBounded
<1>. SUFFICES ASSUME OverInv PROVE OvershootBounded
  OBVIOUS
<1> DEFINE n == Cardinality(Callers)
<1>1. n \in Nat
  BY BudgetConstants, FS_CardinalityType
<1>2. /\ Potential \in Int /\ Potential + Tet(n) + 3 * Tri(n - 1) >= 0
      /\ 6 * n <= Most(n) /\ Most(n) \in Int /\ Tet(n) \in Int /\ Tri(n - 1) \in Int
      /\ over \in Nat /\ left \in Int /\ Reserve \in Int
  BY <1>1, PotentialIsInt, PotentialIsEnough, MostIsEnough, BudgetConstants DEF OverInv, TypeOK
<1>3. 6 * over <= Most(n)
  <2>1. CASE left >= Reserve
    <3>. HIDE DEF n
    <3>1. over = 0
      BY <2>1 DEF OverInv
    <3>. QED
      BY <1>1, <1>2, <3>1
  <2>2. CASE left < Reserve
    <3>1. 6 * over + Potential + Tet(n) + 3 * Tri(n - 1) <= Most(n)
      BY <2>2 DEF OverInv
    <3>. HIDE DEF n
    <3>. QED
      BY <1>2, <3>1
  <2>. QED
    BY <1>2, <2>1, <2>2
<1>4. MaxOver = IF n < 2 THEN n ELSE (Tet(n) + 3 * Tri(n - 1)) \div 6 - 1
  <2>1. 3 * Tri(n - 1) = 3 * n * (n - 1)
    BY <1>1 DEF Tri
  <2>. QED
    BY <2>1 DEF MaxOver, Tet
<1>. HIDE DEF n
<1>5. CASE n < 2
  BY <1>1, <1>2, <1>3, <1>4, <1>5 DEF Most, OvershootBounded
<1>6. CASE n >= 2
  <2>1. PICK e \in Int : e = Tet(n) + 3 * Tri(n - 1)
    BY <1>2
  <2>2. 6 * over + 6 <= e
    BY <1>1, <1>2, <1>3, <1>6, <2>1 DEF Most
  <2>3. over <= e \div 6 - 1
    BY <1>2, <2>2
  <2>. QED
    BY <1>1, <1>4, <1>6, <2>1, <2>3 DEF OvershootBounded
<1>. QED
  BY <1>1, <1>5, <1>6

\* However late responses are recorded and whenever windows end, the callers take no more
\* than MaxOver from the reserve: the guard is late, and never absent.
THEOREM ReserveIsKept == Spec => []OvershootBounded
<1>. QED
  BY InitOver, NextOver, OverIsBounded, BudgetTypes, PTL DEF Spec

-----------------------------------------------------------------------------
(* Why the guard opens again *)

\* While the count is low its reset time is known, or the response that brought the
\* count is about to write it.  The guard can then clear itself once that has passed.
LowHasReset ==
  Allows(remaining) \/ resetAt # "unset" \/ \E c \in Callers : pc[c] = "recordReset"

\* A response in hand has a reset time, and without an overlap a call that is between
\* the two stores that clear finds the count as it left it.
ClearInv ==
  /\ TypeOK
  /\ LowHasReset
  /\ \A c \in Callers :
       /\ pc[c] \in {"recordRemaining", "recordReset"} => header[c].reset # "unset"
       /\ pc[c] = "clearReset" => Allows(remaining)

LEMMA InitClear == Init => ClearInv
  BY InitBudget DEF Init, BudgetInv, ClearInv, LowHasReset, Allows, Unknown

LEMMA StepKeepsClear ==
  ASSUME ClearInv, ~Overlap, ~Overlap', TypeOK', NEW c \in Callers,
         Check(c) \/ Request(c) \/ RequestFails(c) \/ Record(c)
  PROVE  ClearInv'
<1>1. CASE LoadRemaining(c) \/ LoadReset(c) \/ RequestFails(c)
  BY <1>1 DEF ClearInv, LowHasReset, TypeOK, LoadRemaining, LoadReset, RequestFails, Goto
<1>2. CASE ClearRemaining(c)
  BY <1>2 DEF ClearInv, LowHasReset, TypeOK, ClearRemaining, Goto, Allows, Unknown
<1>3. CASE ClearReset(c)
  BY <1>3 DEF ClearInv, LowHasReset, TypeOK, ClearReset, Goto
<1>4. CASE Request(c)
  BY <1>4 DEF ClearInv, LowHasReset, TypeOK, Request, Counted, Goto
<1>5. CASE RecordRemaining(c)
  <2>1. pc'[c] = "recordReset" /\ \A d \in Callers \ {c} : pc'[d] = pc[d]
    BY <1>5 DEF ClearInv, TypeOK, RecordRemaining, AfterCount, Goto
  <2>2. \A d \in Callers : pc'[d] # "clearReset"
    BY <2>1 DEF Overlap
  <2>. QED
    BY <1>5, <2>1, <2>2 DEF ClearInv, LowHasReset, RecordRemaining
<1>6. CASE RecordReset(c)
  <2>1. resetAt' # "unset"
    BY <1>6 DEF ClearInv, RecordReset
  <2>2. pc'[c] = "idle" /\ \A d \in Callers \ {c} : pc'[d] = pc[d] /\ header'[d] = header[d]
    BY <1>6 DEF ClearInv, TypeOK, RecordReset, Goto
  <2>. QED
    BY <1>6, <2>1, <2>2 DEF ClearInv, LowHasReset, RecordReset
<1>. QED
  BY <1>1, <1>2, <1>3, <1>4, <1>5, <1>6 DEF Check, Record

LEMMA NextKeepsClear == ClearInv /\ TypeOK' /\ [Next]_vars /\ ~Overlap /\ ~Overlap' => ClearInv'
<1>. SUFFICES ASSUME ClearInv, TypeOK', [Next]_vars, ~Overlap, ~Overlap' PROVE ClearInv'
  OBVIOUS
<1>1. CASE UNCHANGED vars
  BY <1>1 DEF vars, ClearInv, LowHasReset
<1>2. CASE NewWindow
  BY <1>2 DEF ClearInv, LowHasReset, TypeOK, NewWindow, Passed
<1>. QED
  BY <1>1, <1>2, StepKeepsClear DEF Next

\* Unless a response is recorded between the two stores of a clear, a low count never
\* stands without its reset time: the guard cannot be stuck for ever.
THEOREM StuckNeedsOverlap == Spec /\ []~Overlap => []LowHasReset
<1>1. ClearInv => LowHasReset
  BY DEF ClearInv
<1>. QED
  BY <1>1, InitClear, NextKeepsClear, BudgetTypes, PTL DEF Spec
=============================================================================
