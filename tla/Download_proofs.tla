--------------------------- MODULE Download_proofs ----------------------------
(***************************************************************************)
(* Theorems about Download, for any releases, any contents of files, any   *)
(* answers of the model and any order of probes, scans and expiries.       *)
(***************************************************************************)
EXTENDS Download, TLAPS, WellFoundedInduction, SequenceTheorems, FiniteSetTheorems

\* The release page asks for no pinned file.
PageHasNoPin == req.kind = "page" => req.pin = NoPin

PinInv == PageHasNoPin /\ PinnedOrNothing

\* A decision that is served names the pinned file, whoever made it.
Keeps(r, d) == r.pin # NoPin /\ ShouldAutoSelect(d) => d.asset = r.pin

\* The rules are given the pinned file alone.
LEMMA RulesKeepPin ==
  ASSUME NEW r, NEW assets
  PROVE  Keeps(r, RuleDecision(r, assets))
<1>. SUFFICES ASSUME r.pin # NoPin, ShouldAutoSelect(RuleDecision(r, assets))
              PROVE  RuleDecision(r, assets).asset = r.pin
  BY DEF Keeps
<1> DEFINE d == DecideAsset(<<assets[r.pin]>>, r.v)
<1>1. RuleDecision(r, assets) = OnlyPinned(d, r.pin)
  BY DEF RuleDecision
<1> HIDE DEF d
<1>2. CASE d.asset = NoAsset
  BY <1>1, <1>2 DEF OnlyPinned, ShouldAutoSelect
<1>3. CASE d.asset # NoAsset
  <2>1. RuleDecision(r, assets) = [d EXCEPT !.asset = r.pin]
    BY <1>1, <1>3 DEF OnlyPinned
  <2>. QED
    BY <2>1 DEF ShouldAutoSelect
<1>. QED
  BY <1>2, <1>3

\* What Jev says of another file than the pinned one is dropped.
LEMMA JevKeepsPin ==
  ASSUME NEW r, NEW assets, NEW d
  PROVE  Keeps(r, PinChecked(r, assets, d))
  BY DEF Keeps, PinChecked, Abstain, ShouldAutoSelect

\* An offer is looked up for the pinned file and names it.
LEMMA OffersKeepPin ==
  ASSUME NEW r, NEW o
  PROVE  Keeps(r, [status |-> "selected", asset |-> r.pin, confidence |-> o.confidence])
  BY DEF Keeps

\* Offers, Jev and the rules alike.
LEMMA DecisionsKeepPin ==
  ASSUME NEW r, NEW assets, NEW c \in Decisions(r, assets)
  PROVE  Keeps(r, c.d)
<1>1. \/ c \in {[d |-> [status |-> "selected", asset |-> r.pin, confidence |-> o.confidence], how |-> "offer"] :
                  o \in OfferedDownload(r, assets)}
      \/ c \in {[d |-> RuleDecision(r, assets), how |-> "rules"]}
      \/ \E ds : c \in {[d |-> PinChecked(r, assets, d), how |-> "jev"] : d \in ds}
  BY Zenon DEF Decisions
<1>2. CASE c \in {[d |-> [status |-> "selected", asset |-> r.pin, confidence |-> o.confidence], how |-> "offer"] :
                    o \in OfferedDownload(r, assets)}
  BY <1>2, OffersKeepPin
<1>3. CASE c \in {[d |-> RuleDecision(r, assets), how |-> "rules"]}
  BY <1>3, RulesKeepPin
<1>4. CASE \E ds : c \in {[d |-> PinChecked(r, assets, d), how |-> "jev"] : d \in ds}
  BY <1>4, JevKeepsPin
<1>. QED
  BY <1>1, <1>2, <1>3, <1>4

-----------------------------------------------------------------------------
(* The steps *)

\* A request keeps its kind and pin until it is answered.
LEMMA ProbesKeepInv ==
  ASSUME PinInv, UNCHANGED answer, req'.kind = req.kind, req'.pin = req.pin
  PROVE  PinInv'
  BY DEF PinInv, PageHasNoPin, PinnedOrNothing, Answered

\* A new request sets its own pin and leaves the last answer as it is.
LEMMA AskKeepsInv ==
  ASSUME PinInv, NEW kind, NEW v, NEW pin, Ask(kind, v, pin)
  PROVE  PinInv'
<1>1. answer' = answer /\ (pin # NoPin => kind # "page")
  BY DEF Ask
<1>2. req'.kind = kind /\ req'.pin = pin
  BY DEF Ask
<1>. QED
  BY <1>1, <1>2 DEF PinInv, PageHasNoPin, PinnedOrNothing, Answered

\* A click is answered by one of the decisions, so with its pin or with nothing.
LEMMA AnswerKeepsInv ==
  ASSUME PinInv, Answer
  PROVE  PinInv'
<1>0. PICK libc \in Libcs : \E c \in Decisions(req, Described(req, libc)) :
        answer' = [kind |-> req.kind, req |-> req, how |-> c.how, status |-> c.d.status,
                   served |-> IF ShouldAutoSelect(c.d) THEN {[v |-> req.v, place |-> c.d.asset]} ELSE {}]
  BY DEF Answer
<1>1. PICK c \in Decisions(req, Described(req, libc)) :
        answer' = [kind |-> req.kind, req |-> req, how |-> c.how, status |-> c.d.status,
                   served |-> IF ShouldAutoSelect(c.d) THEN {[v |-> req.v, place |-> c.d.asset]} ELSE {}]
  BY <1>0
<1>2. Keeps(req, c.d)
  BY DecisionsKeepPin
<1>3. answer'.req.pin # NoPin => \A s \in answer'.served : s.place = answer'.req.pin
  BY <1>1, <1>2 DEF Keeps
<1>4. req' = Idle
  BY DEF Answer
<1>. QED
  BY <1>3, <1>4 DEF PinInv, PageHasNoPin, PinnedOrNothing, Answered, Idle

\* A page answers without a pin.
LEMMA AnswerPageKeepsInv ==
  ASSUME PinInv, AnswerPage
  PROVE  PinInv'
<1>1. req' = Idle /\ req.pin = NoPin
  BY DEF AnswerPage, PinInv, PageHasNoPin
<1>2. PICK libc \in Libcs :
        answer' = [kind |-> "page", req |-> req, how |-> "rules", status |-> "",
                   served |-> PagePicks(Described(req, libc))]
  BY DEF AnswerPage
<1>3. answer'.req.pin = NoPin
  BY <1>1, <1>2
<1>. QED
  BY <1>1, <1>3 DEF PinInv, PageHasNoPin, PinnedOrNothing, Answered, Idle

-----------------------------------------------------------------------------
(* The theorem *)

\* redirect.go: whatever was clicked is downloaded or nothing is, although between the
\* page and the click offers expire, files are replaced and Jev may decide anew.
THEOREM ClickedOrNothing == Spec => []PinnedOrNothing
<1>1. Init => PinInv
  BY DEF Init, PinInv, PageHasNoPin, PinnedOrNothing, Answered, Idle
<1>2. ASSUME PinInv, [Next]_vars PROVE PinInv'
  <2>1. CASE UNCHANGED vars
    BY <1>2, <2>1 DEF PinInv, PageHasNoPin, PinnedOrNothing, Answered, vars
  <2>2. ASSUME NEW kind, NEW v, NEW pin, Ask(kind, v, pin) PROVE PinInv'
    BY <1>2, <2>2, AskKeepsInv
  <2>3. ASSUME NEW i, ProbeCached(i) \/ ProbePasses(i) \/ ProbeReads(i) \/ ProbeFails(i) PROVE PinInv'
    <3>1. UNCHANGED answer /\ \E got, live : Probed(i, got, live)
      BY <2>3 DEF ProbeCached, ProbePasses, ProbeReads, ProbeFails
    <3>2. req'.kind = req.kind /\ req'.pin = req.pin
      BY <3>1 DEF Probed
    <3>. QED
      BY <1>2, <3>1, <3>2, ProbesKeepInv
  <2>4. CASE Deadline
    <3>1. UNCHANGED answer /\ req'.kind = req.kind /\ req'.pin = req.pin
      BY <2>4 DEF Deadline
    <3>. QED
      BY <1>2, <3>1, ProbesKeepInv
  <2>5. CASE Answer
    BY <1>2, <2>5, AnswerKeepsInv
  <2>6. CASE AnswerPage
    BY <1>2, <2>6, AnswerPageKeepsInv
  <2>7. CASE Leave
    BY <1>2, <2>7 DEF Leave, PinInv, PageHasNoPin, PinnedOrNothing, Answered
  <2>8. CASE UNCHANGED <<req, answer>>
    BY <1>2, <2>8 DEF PinInv, PageHasNoPin, PinnedOrNothing, Answered
  <2>9. ASSUME NEW x, \/ ScanCompletes(x) \/ Reupload(x) \/ CacheExpires(x) \/ OfferExpires(x)
                      \/ ManifestExpires \/ RefreshRelease
        PROVE  UNCHANGED <<req, answer>>
    BY <2>9 DEF ScanCompletes, Reupload, CacheExpires, OfferExpires, ManifestExpires, RefreshRelease
  <2>. QED
    BY <1>2, <2>1, <2>2, <2>3, <2>4, <2>5, <2>6, <2>7, <2>8, <2>9 DEF Next
<1>. QED
  BY <1>1, <1>2, PTL DEF Spec, PinInv

\* A set of numbers has a least one: the order of the numbers is well-founded.
LEMMA LeastOfNaturals ==
  ASSUME NEW S, S \subseteq Nat, S # {}
  PROVE  \E m \in S : \A k \in S : m <= k
<1>1. PICK m \in S : \A k \in S : <<k, m>> \notin OpToRel(<, Nat)
  BY NatLessThanWellFounded, WFMin, Zenon
<1>2. \A k \in S : ~(k < m)
  BY <1>1, Zenon DEF OpToRel
<1>. QED
  BY <1>2

\* So has a family of numbers.
LEMMA LeastValue ==
  ASSUME NEW S, S # {}, NEW f, \A i \in S : f[i] \in Nat
  PROVE  \E i \in S : \A j \in S : f[i] <= f[j]
<1> DEFINE values == {f[i] : i \in S}
<1>1. values \subseteq Nat /\ values # {}
  OBVIOUS
<1>2. PICK m \in values : \A k \in values : m <= k
  <2> HIDE DEF values
  <2>. QED
    BY <1>1, LeastOfNaturals
<1>. QED
  BY <1>2

\* The order of emulated CPUs.
LEMMA EmulationRanks ==
  ASSUME NEW os, NEW cpu, NEW program, Emulates(os, cpu, program)
  PROVE  EmulationRank(os, cpu, program) \in Nat
<1>1. PICK i \in DOMAIN Emulation(os, cpu) : Emulation(os, cpu)[i] = program
  BY DEF Emulates
<1>2. DOMAIN Emulation(os, cpu) \subseteq Nat
  BY DEF Emulation
<1>3. EmulationRank(os, cpu, program) \in DOMAIN Emulation(os, cpu)
  BY <1>1 DEF EmulationRank
<1>. QED
  BY <1>2, <1>3

\* The cost of emulation is a place among its ranks.
LEMMA EmulationCosts ==
  ASSUME NEW f, NEW v
  PROVE  EmulationCost(f, v) \in Nat
<1> DEFINE ranks == {EmulationRank(v.os, v.cpu, t.cpu) : t \in {x \in f.targets : Emulates(v.os, v.cpu, x.cpu)}}
<1>1. ranks \subseteq Nat
  BY EmulationRanks
<1>2. CASE ranks = {}
  BY <1>2 DEF EmulationCost
<1>3. CASE ranks # {}
  <2>1. \E m \in ranks : \A k \in ranks : m <= k
    BY <1>1, <1>3, LeastOfNaturals
  <2>2. (CHOOSE m \in ranks : \A k \in ranks : m <= k) \in Nat
    BY <1>1, <2>1
  <2>. QED
    BY <2>2 DEF EmulationCost
<1>. QED
  BY <1>2, <1>3

\* Every policy step leaves some of the candidates.
LEMMA ShortlistIsShort ==
  ASSUME NEW S, S # {}, NEW f, NEW g, NEW rank, NEW v
  PROVE  Shortlist(S, f, g, rank, v) \subseteq S /\ Shortlist(S, f, g, rank, v) # {}
<1> DEFINE hit(i)  == v.os \in g[i].os \/ g[i].formatOS = v.os
           main(i) == "cli" \notin g[i].marks
           cpu(i)  == v.cpu # "" /\ g[i].cpu # {}
           exact(i) == v.cpu # "" /\ v.cpu \in g[i].cpu
           both(i) == Universal(f[i], v)
           main1   == Prefer(Prefer(S, hit), main)
           setup   == SetupFirst(main1, g, rank, v)
           named   == Prefer(setup, cpu)
           cost    == [i \in named |-> EmulationCost(g[i], v)]
           closest == {i \in named : \A j \in named : cost[i] <= cost[j]}
           last    == Prefer(Prefer(closest, exact), both)
<1>1. main1 \subseteq S /\ main1 # {}
  BY DEF Prefer
<1>2. setup \subseteq main1 /\ setup # {}
  <2> HIDE DEF main1
  <2>. QED
    BY <1>1 DEF SetupFirst
<1>3. named \subseteq setup /\ named # {}
  <2> HIDE DEF setup
  <2>. QED
    BY <1>2 DEF Prefer
<1>4. closest \subseteq named /\ closest # {}
  <2> HIDE DEF named
  <2>1. {cost[i] : i \in named} \subseteq Nat
    BY EmulationCosts
  <2>2. PICK m \in {cost[i] : i \in named} : \A k \in {cost[i] : i \in named} : m <= k
    <3> HIDE DEF cost
    <3>. QED
      BY <1>3, <2>1, LeastOfNaturals
  <2>. QED
    BY <2>2
<1>5. last \subseteq closest /\ last # {}
  <2> HIDE DEF closest
  <2>. QED
    BY <1>4 DEF Prefer
<1>6. Shortlist(S, f, g, rank, v) = last
  BY DEF Shortlist
<1> HIDE DEF last, closest, named, setup, main1
<1>. QED
  BY <1>1, <1>2, <1>3, <1>4, <1>5, <1>6

\* The lists of formats are sequences, whichever of two packages comes first.
Listed(exts) == Len(exts) \in Nat /\ DOMAIN exts = 1 .. Len(exts)

\* Every system that the picker knows has its list of formats.
LEMMA ExtensionsAreListed ==
  ASSUME NEW v, v.os \in Platforms
  PROVE  Listed(Extensions(v))
<1>1. Platforms = {"windows", "macos", "linux", "android", "ios"}
  BY DEF Platforms, PlatformExts
<1>2. DOMAIN PlatformExts.windows = 1 .. 12 /\ Len(PlatformExts.windows) = 12
  BY DEF PlatformExts
<1>3. DOMAIN PlatformExts.macos = 1 .. 13 /\ Len(PlatformExts.macos) = 13
  BY DEF PlatformExts
<1>4. DOMAIN PlatformExts.linux = 1 .. 19 /\ Len(PlatformExts.linux) = 19
  BY DEF PlatformExts
<1>5. DOMAIN PlatformExts.android = 1 .. 13 /\ Len(PlatformExts.android) = 13
  BY DEF PlatformExts
<1>6. DOMAIN PlatformExts.ios = 1 .. 1 /\ Len(PlatformExts.ios) = 1
  BY DEF PlatformExts
<1> DEFINE swapped == [PlatformExts.linux EXCEPT ![2] = "rpm", ![3] = "deb"]
<1>7. DOMAIN swapped = 1 .. 19 /\ Len(swapped) = 19
  BY <1>4
<1>8. \/ Extensions(v) = swapped
      \/ Extensions(v) = PlatformExts[v.os]
  BY DEF Extensions
<1>9. CASE Extensions(v) = swapped
  <2>1. Listed(swapped)
    <3>1. Len(swapped) \in Nat /\ DOMAIN swapped = 1 .. Len(swapped)
      BY <1>7
    <3>. QED
      BY <3>1 DEF Listed
  <2>. QED
    BY <1>9, <2>1
<1>10. CASE Extensions(v) = PlatformExts[v.os]
  <2>1. PlatformExts[v.os] \in {PlatformExts.windows, PlatformExts.macos, PlatformExts.linux, PlatformExts.android, PlatformExts.ios}
    BY <1>1
  <2>. QED
    BY <1>2, <1>3, <1>4, <1>5, <1>6, <1>10, <2>1 DEF Listed
<1>. QED
  BY <1>8, <1>9, <1>10

\* A rank is a place in the list, or -1 for a format that is preferred or not listed.
LEMMA RanksAreNumbers ==
  ASSUME NEW exts, Listed(exts), NEW endings, NEW prefer
  PROVE  RankIn(exts, endings, prefer) \in Int /\ RankIn(exts, endings, prefer) >= -1
<1> DEFINE hits == {i \in DOMAIN exts : exts[i] \in endings}
           hit  == CHOOSE i \in hits : \A j \in hits : i <= j
<1>1. hits \subseteq Nat /\ \A i \in hits : i >= 1
  BY DEF Listed
<1>2. CASE hits = {}
  BY <1>2 DEF RankIn, NoRank
<1>3. CASE hits # {}
  <2>1. hit \in hits
    <3> HIDE DEF hits
    <3>. QED
      BY <1>1, <1>3, LeastOfNaturals
  <2>2. RankIn(exts, endings, prefer) = IF prefer # "" /\ prefer = PreferKey(exts[hit]) THEN -1 ELSE hit - 1
    BY <1>3 DEF RankIn
  <2>3. hit \in Nat /\ hit >= 1
    <3> HIDE DEF hit, hits
    <3>. QED
      BY <1>1, <2>1
  <2> HIDE DEF hit, hits
  <2>4. RankIn(exts, endings, prefer) \in {-1, hit - 1}
    BY <2>2
  <2>. QED
    BY <2>3, <2>4
<1>. QED
  BY <1>2, <1>3

\* The rank of a file for a visitor is one of these.
LEMMA RankForNumbers ==
  ASSUME NEW f, NEW v, v.os \in Platforms
  PROVE  RankFor(f, v) \in Int /\ RankFor(f, v) >= -1
<1>1. Len(Extensions(v)) \in Nat
  BY ExtensionsAreListed DEF Listed
<1>2. ExtRank(f.suffix, v) \in Int /\ ExtRank(f.suffix, v) >= -1
  BY ExtensionsAreListed, RanksAreNumbers DEF ExtRank
<1>3. RankFor(f, v) \in {ExtRank(f.suffix, v), Len(Extensions(v)), 99}
  BY DEF RankFor, NoRank
<1>. QED
  BY <1>1, <1>2, <1>3

\* The last two places of a score are natural numbers.
LEMMA WidthsAndPenalties ==
  ASSUME NEW f, NEW want
  PROVE  ArchBitWidth(f) \in Nat /\ LibcPenalty(f, want) \in Nat
BY DEF ArchBitWidth, LibcPenalty

\* Scores are lists of four numbers; only the rank of the format may be -1.
Scores(list, score, a, b, c, d) ==
  \A i \in list : /\ a[i] \in Int /\ a[i] >= -1 /\ b[i] \in Nat /\ c[i] \in Nat /\ d[i] \in Nat
                  /\ score[i] = <<a[i], b[i], c[i], d[i]>>

\* None is better, and none before it is as good.
Leads(list, score, i) == \A j \in list \ {i} : ~Better(score[j], score[i]) /\ (j < i => score[j] # score[i])

\* Scores are compared place by place, so a list has a best file: the first of those
\* with the least rank, width, penalty and number of variants.
LEMMA SomeoneIsBest ==
  ASSUME NEW list, list \subseteq Nat, list # {},
         NEW a, NEW b, NEW c, NEW d, NEW score, Scores(list, score, a, b, c, d)
  PROVE  \E i \in list : Leads(list, score, i)
<1>. USE DEF Scores
<1> DEFINE up == [i \in list |-> a[i] + 1]
<1>1. PICK p \in list : \A j \in list : a[p] <= a[j]
  <2>1. \A i \in list : up[i] \in Nat
    OBVIOUS
  <2>2. PICK p \in list : \A j \in list : up[p] <= up[j]
    <3> HIDE DEF up
    <3>. QED
      BY <2>1, LeastValue
  <2>. QED
    BY <2>2
<1> DEFINE A == {i \in list : a[i] = a[p]}
<1>2. PICK q \in A : \A j \in A : b[q] <= b[j]
  BY LeastValue
<1> DEFINE B == {i \in A : b[i] = b[q]}
<1>3. PICK r \in B : \A j \in B : c[r] <= c[j]
  BY LeastValue
<1> DEFINE C == {i \in B : c[i] = c[r]}
<1>4. PICK s \in C : \A j \in C : d[s] <= d[j]
  BY LeastValue
<1> DEFINE D == {i \in C : d[i] = d[s]}
<1>5. PICK e \in D : \A j \in D : e <= j
  BY LeastOfNaturals
<1>6. SUFFICES ASSUME NEW j \in list \ {e}
               PROVE  ~Better(score[j], score[e]) /\ (j < e => score[j] # score[e])
  BY <1>5 DEF Leads
<1>7. /\ a[e] <= a[j]
      /\ a[e] = a[j] => b[e] <= b[j]
      /\ a[e] = a[j] /\ b[e] = b[j] => c[e] <= c[j]
      /\ a[e] = a[j] /\ b[e] = b[j] /\ c[e] = c[j] => d[e] <= d[j]
      /\ a[e] = a[j] /\ b[e] = b[j] /\ c[e] = c[j] /\ d[e] = d[j] => j \in D
  BY <1>1, <1>2, <1>3, <1>4, <1>5
<1>8. score[j] = <<a[j], b[j], c[j], d[j]>> /\ score[e] = <<a[e], b[e], c[e], d[e]>>
  BY <1>5
<1>9. j < e => score[j] # score[e]
  BY <1>5, <1>7, <1>8
<1>10. ~Better(score[j], score[e])
  <2>0. e \in list /\ j \in list
    BY <1>5
  <2>1. /\ a[e] \in Int /\ b[e] \in Int /\ c[e] \in Int /\ d[e] \in Int
        /\ a[j] \in Int /\ b[j] \in Int /\ c[j] \in Int /\ d[j] \in Int
    BY <2>0
  <2> HIDE DEF D
  <2>2. ASSUME NEW i \in DOMAIN score[j], score[j][i] < score[e][i], \A k \in 1 .. i - 1 : score[j][k] = score[e][k]
        PROVE  FALSE
    <3>1. i \in {1, 2, 3, 4}
      BY <1>8
    <3>2. CASE i = 1
      BY <1>7, <1>8, <2>1, <2>2, <3>2
    <3>3. CASE i = 2
      <4>1. a[j] = a[e]
        BY <1>8, <2>2, <3>3, 1 \in 1 .. i - 1
      <4>. QED
        BY <4>1, <1>7, <1>8, <2>1, <2>2, <3>3
    <3>4. CASE i = 3
      <4>1. a[j] = a[e] /\ b[j] = b[e]
        BY <1>8, <2>2, <3>4, 1 \in 1 .. i - 1, 2 \in 1 .. i - 1
      <4>. QED
        BY <4>1, <1>7, <1>8, <2>1, <2>2, <3>4
    <3>5. CASE i = 4
      <4>1. a[j] = a[e] /\ b[j] = b[e] /\ c[j] = c[e]
        BY <1>8, <2>2, <3>5, 1 \in 1 .. i - 1, 2 \in 1 .. i - 1, 3 \in 1 .. i - 1
      <4>. QED
        BY <4>1, <1>7, <1>8, <2>1, <2>2, <3>5
    <3>. QED
      BY <3>1, <3>2, <3>3, <3>4, <3>5
  <2>. QED
    BY <2>2 DEF Better
<1>. QED
  BY <1>9, <1>10

\* The asset that Best names is one of the list.
LEMMA BestIsListed ==
  ASSUME NEW list, list \subseteq Nat, list # {}, NEW g, NEW rank, NEW v,
         \A i \in list : rank[i] \in Int /\ rank[i] >= -1 /\ g[i].variants \in Nat
  PROVE  Best(list, g, rank, v).asset \in list
<1> DEFINE score == [i \in list |-> <<rank[i], ArchBitWidth(g[i]), LibcPenalty(g[i], v.libc), g[i].variants>>]
           best  == CHOOSE i \in list : \A j \in list \ {i} :
                       ~Better(score[j], score[i]) /\ (j < i => score[j] # score[i])
           width == [i \in list |-> ArchBitWidth(g[i])]
           libc  == [i \in list |-> LibcPenalty(g[i], v.libc)]
           named == [i \in list |-> g[i].variants]
<1>1. \A i \in list : width[i] \in Nat /\ libc[i] \in Nat
  BY WidthsAndPenalties
<1>2. \A i \in list : score[i] = <<rank[i], width[i], libc[i], named[i]>> /\ named[i] \in Nat
  OBVIOUS
<1>3. \E i \in list : Leads(list, score, i)
  <2> HIDE DEF score, width, libc, named
  <2>1. Scores(list, score, rank, width, libc, named)
    BY <1>1, <1>2 DEF Scores
  <2>. QED
    BY <2>1, SomeoneIsBest, Zenon
<1>4. best \in list
  <2> HIDE DEF score
  <2>. QED
    BY <1>3 DEF Leads
<1>5. Best(list, g, rank, v).asset = best
  BY DEF Best
<1>. QED
  BY <1>4, <1>5

\* How many variants a file has is read off its name and never changed.
LEMMA VariantsOfFacts ==
  ASSUME NEW a, NEW f, NEW v, NEW libc
  PROVE  FactsForTarget(FactsForAsset(a, libc), v).variants = a.name.variants
BY DEF FactsForTarget, FactsForAsset

\* The rules name a file that they judged to be a candidate, or none.
LEMMA RulesNameACandidate ==
  ASSUME NEW assets, DOMAIN assets \subseteq Nat, NEW v,
         \A i \in DOMAIN assets : FactsForTarget(assets[i].facts, v).variants \in Nat,
         DecideAsset(assets, v).asset # NoAsset
  PROVE  /\ v.os \in Platforms
         /\ DecideAsset(assets, v).asset \in DOMAIN assets
         /\ Verdict(assets[DecideAsset(assets, v).asset], assets[DecideAsset(assets, v).asset].facts, v) = "candidate"
<1> DEFINE cands == {i \in DOMAIN assets : Verdict(assets[i], assets[i].facts, v) = "candidate"}
           f    == [i \in cands |-> assets[i].facts]
           g    == [i \in cands |-> FactsForTarget(f[i], v)]
           rank == [i \in cands |-> RankFor(g[i], v)]
           list == Shortlist(cands, f, g, rank, v)
<1>1. v.os \in Platforms /\ cands # {} /\ DecideAsset(assets, v) = BestCandidate(assets, cands, v)
  BY DEF DecideAsset, Abstain
<1>2. DecideAsset(assets, v) = Best(list, g, rank, v)
  <2> HIDE DEF cands
  <2>. QED
    BY <1>1 DEF BestCandidate
<1>3. \A i \in cands : rank[i] \in Int /\ rank[i] >= -1 /\ g[i].variants \in Nat
  BY <1>1, RankForNumbers
<1>4. list \subseteq cands /\ list # {}
  <2> HIDE DEF cands, f, g, rank
  <2>. QED
    BY <1>1, ShortlistIsShort
<1>5. Best(list, g, rank, v).asset \in list
  <2>1. cands \subseteq Nat
    OBVIOUS
  <2> HIDE DEF cands, f, g, rank, list
  <2>. QED
    BY <2>1, <1>3, <1>4, BestIsListed
<1>. QED
  <2>1. DecideAsset(assets, v).asset \in cands
    <3> HIDE DEF cands, f, g, rank, list
    <3>. QED
      BY <1>2, <1>4, <1>5
  <2>. QED
    BY <1>1, <2>1

-----------------------------------------------------------------------------
(* Whoever decides, the file was judged to fit the visitor *)

\* A candidate of the rules, or of the guard before Jev.
Accepts(a, v) == v.os \in Platforms /\ (Verdict(a, a.facts, v) = "candidate" \/ ValidateSelection(a, v))

\* What Jev is asked about passed the guard's own validation.
LEMMA CandidatesAreValid ==
  ASSUME NEW assets, NEW v, NEW i \in Candidates(assets, v)
  PROVE  i \in DOMAIN assets /\ ValidateSelection(assets[i], v)
BY DEF Candidates, Prefer

\* What may run is some of what was judged.
LEMMA RunnableAreJudged ==
  ASSUME NEW judged
  PROVE  Runnable(judged) \subseteq DOMAIN judged
BY DEF Runnable, Prefer

\* Jev chooses among the files put to it: the only one that runs, or the answer.
LEMMA JevNamesACandidate ==
  ASSUME NEW assets, NEW v, NEW attrs,
         NEW ch \in ChoicesAmong(Runnable(Judged(assets, v, attrs))),
         JevDecision(assets, v, attrs, ch).asset # NoAsset
  PROVE  v.os \in Platforms /\ JevDecision(assets, v, attrs, ch).asset \in Candidates(assets, v)
<1> DEFINE judged == Judged(assets, v, attrs)
           pool   == Runnable(judged)
<1>1. v.os \in Platforms /\ JevDecision(assets, v, attrs, ch) = GatedChoice(assets, v, judged, ch)
  BY DEF JevDecision, Immediate, Abstain
<1>2. pool \subseteq Candidates(assets, v)
  BY RunnableAreJudged DEF Judged
<1> HIDE DEF judged
<1>3. GatedChoice(assets, v, judged, ch).asset \in pool
  <2> DEFINE alone == Cardinality(pool) = 1
             chosen == IF alone THEN CHOOSE i \in pool : TRUE ELSE ch.option
  <2>1. pool # {} /\ ~(~alone /\ ch.option = Insufficient) /\ GatedChoice(assets, v, judged, ch).asset = chosen
    BY <1>1 DEF GatedChoice, Abstain
  <2>2. CASE alone
    BY <2>1, <2>2
  <2>3. CASE ~alone
    <3>1. ch \in ChoicesAmong(pool)
      BY DEF judged
    <3>2. ch.option \in pool \cup {Insufficient}
      BY <3>1 DEF ChoicesAmong, ChoiceAnswers, NoChoice
    <3>. QED
      BY <2>1, <2>3, <3>2
  <2>. QED
    BY <2>2, <2>3
<1>. QED
  BY <1>1, <1>2, <1>3

\* What is known of files by their places, with a number of variants each.
Knows(assets) ==
  /\ DOMAIN assets \subseteq Nat \ {0}
  /\ \A i \in DOMAIN assets : \A v : FactsForTarget(assets[i].facts, v).variants \in Nat

\* The rules choose a file whose verdict is that of a candidate, and only the pinned one of a click.
LEMMA RulesAccept ==
  ASSUME NEW r, NEW assets, Knows(assets), r.pin \in {NoPin} \cup DOMAIN assets,
         RuleDecision(r, assets).asset # NoAsset
  PROVE  RuleDecision(r, assets).asset \in DOMAIN assets /\ Accepts(assets[RuleDecision(r, assets).asset], r.v)
<1>1. CASE r.pin = NoPin
  <2>1. RuleDecision(r, assets) = DecideAsset(assets, r.v)
    BY <1>1 DEF RuleDecision
  <2>. QED
    BY <2>1, RulesNameACandidate DEF Knows, Accepts
<1>2. CASE r.pin # NoPin
  <2> DEFINE one == <<assets[r.pin]>>
             d   == DecideAsset(one, r.v)
  <2>1. RuleDecision(r, assets) = OnlyPinned(d, r.pin)
    BY <1>2 DEF RuleDecision
  <2>2. DOMAIN one = {1} /\ one[1] = assets[r.pin] /\ r.pin \in DOMAIN assets
    BY <1>2
  <2> HIDE DEF one
  <2>3. d.asset # NoAsset /\ RuleDecision(r, assets) = [d EXCEPT !.asset = r.pin]
    BY <2>1 DEF OnlyPinned
  <2>4. \A i \in DOMAIN one : FactsForTarget(one[i].facts, r.v).variants \in Nat
    BY <2>2 DEF Knows
  <2>5. r.v.os \in Platforms /\ d.asset \in DOMAIN one /\ Verdict(one[d.asset], one[d.asset].facts, r.v) = "candidate"
    BY <2>2, <2>3, <2>4, RulesNameACandidate
  <2>6. d.asset = 1
    BY <2>2, <2>5
  <2>7. DecideAsset(one, r.v) = BestCandidate(one, {i \in DOMAIN one : Verdict(one[i], one[i].facts, r.v) = "candidate"}, r.v)
    BY <2>3 DEF DecideAsset, Abstain
  <2>8. RuleDecision(r, assets).asset = r.pin
    BY <2>3, <2>7 DEF BestCandidate, Best
  <2>. QED
    BY <2>2, <2>5, <2>6, <2>8 DEF Accepts
<1>. QED
  BY <1>1, <1>2

\* Offers are made to visitors of a known system.
OffersKnowTheSystem == \A o \in offers : o.v.os \in Platforms

\* Whoever decides, what is chosen by itself is a candidate or passed validation:
\* an offer and Jev's answer are validated, the rules judge.
LEMMA DecisionsAccept ==
  ASSUME NEW r, NEW assets, Knows(assets), DOMAIN r.files = DOMAIN assets, r.pin \in {NoPin} \cup DOMAIN assets,
         OffersKnowTheSystem, NEW c \in Decisions(r, assets), ShouldAutoSelect(c.d)
  PROVE  c.d.asset \in DOMAIN assets /\ Accepts(assets[c.d.asset], r.v)
<1> DEFINE choices(attrs) == ChoicesAmong(Runnable(Judged(assets, r.v, attrs)))
           byOffer(o) == [status |-> "selected", asset |-> r.pin, confidence |-> o.confidence]
<1>1. \/ \E o \in OfferedDownload(r, assets) : c.d = byOffer(o)
      \/ c.d = RuleDecision(r, assets)
      \/ \E attrs : \E ch \in choices(attrs) : c.d = PinChecked(r, assets, JevDecision(assets, r.v, attrs, ch))
  <2> DEFINE ids   == {r.files[i] : i \in DOMAIN r.files}
             byJev == UNION {{JevDecision(assets, r.v, attrs, ch) : ch \in choices(attrs)} : attrs \in [ids -> AttrOptions]}
  <2>1. \/ c \in {[d |-> byOffer(o), how |-> "offer"] : o \in OfferedDownload(r, assets)}
        \/ c \in {[d |-> RuleDecision(r, assets), how |-> "rules"]}
        \/ c \in {[d |-> PinChecked(r, assets, d), how |-> "jev"] : d \in byJev}
    BY Zenon DEF Decisions
  <2>2. CASE c \in {[d |-> byOffer(o), how |-> "offer"] : o \in OfferedDownload(r, assets)}
    BY <2>2
  <2>3. CASE c \in {[d |-> RuleDecision(r, assets), how |-> "rules"]}
    BY <2>3
  <2>4. CASE c \in {[d |-> PinChecked(r, assets, d), how |-> "jev"] : d \in byJev}
    <3>1. PICK d \in byJev : c.d = PinChecked(r, assets, d)
      <4> HIDE DEF byJev
      <4>. QED
        BY <2>4
    <3>2. PICK attrs : \E ch \in choices(attrs) : d = JevDecision(assets, r.v, attrs, ch)
      BY <3>1
    <3>. QED
      BY <3>1, <3>2
  <2>. QED
    BY <2>1, <2>2, <2>3, <2>4
<1>2. c.d.asset # NoAsset
  BY DEF ShouldAutoSelect
<1>3. ASSUME NEW o \in OfferedDownload(r, assets), c.d = byOffer(o)
      PROVE  c.d.asset \in DOMAIN assets /\ Accepts(assets[c.d.asset], r.v)
  <2>1. o \in offers /\ o.v = r.v /\ r.pin # NoPin /\ ValidateSelection(assets[r.pin], r.v)
    BY <1>3 DEF OfferedDownload, Live
  <2>. QED
    BY <1>3, <2>1 DEF Accepts, OffersKnowTheSystem
<1>4. CASE c.d = RuleDecision(r, assets)
  BY <1>2, <1>4, RulesAccept
<1>5. ASSUME NEW attrs, NEW ch \in choices(attrs), c.d = PinChecked(r, assets, JevDecision(assets, r.v, attrs, ch))
      PROVE  c.d.asset \in DOMAIN assets /\ Accepts(assets[c.d.asset], r.v)
  <2> DEFINE d == JevDecision(assets, r.v, attrs, ch)
  <2>1. c.d = d
    BY <1>2, <1>5 DEF PinChecked, Abstain
  <2>2. r.v.os \in Platforms /\ d.asset \in Candidates(assets, r.v)
    BY <1>2, <1>5, <2>1, JevNamesACandidate
  <2>. QED
    BY <2>1, <2>2, CandidatesAreValid DEF Accepts
<1>. QED
  BY <1>1, <1>3, <1>4, <1>5

-----------------------------------------------------------------------------
(* What a request knows of a file *)

\* Facts are made twice: once for the description, once for the decision.
Read(file, m, libc) == WithFacts(Asset(file, m), libc)
ReadTwice(file, m, libc) == Read(file, DescribeAsset(Read(file, m, libc)), libc)

\* The decision reads a file as the description has read it.
LEMMA EnrichedIsReadTwice ==
  ASSUME NEW r, NEW i, NEW libc
  PROVE  Enriched(r, i, libc) = ReadTwice(r.files[i], Seen(r, i), libc)
BY DEF Enriched, ReadTwice, Read, Seen

\* A release keeps what its files are.
LEMMA SameFiles ==
  ASSUME release' = release, NEW file, NEW facts, NEW m, NEW libc
  PROVE  /\ NameOf(file)' = NameOf(file) /\ Shallow(file)' = Shallow(file) /\ Deep(file)' = Deep(file)
         /\ RunsOn(file)' = RunsOn(file)
         /\ Published(file, facts)' = Published(file, facts)
         /\ Asset(file, m)' = Asset(file, m)
         /\ ReadTwice(file, m, libc)' = ReadTwice(file, m, libc)
<1>1. NameOf(file)' = NameOf(file) /\ Shallow(file)' = Shallow(file) /\ Deep(file)' = Deep(file) /\ RunsOn(file)' = RunsOn(file)
  BY DEF NameOf, Shallow, Deep, RunsOn
<1>2. Published(file, facts)' = Published(file, facts)
  BY <1>1 DEF Published
<1>3. \A x : Asset(file, x)' = Asset(file, x)
  BY <1>1 DEF Asset
<1>4. ReadTwice(file, m, libc)' = ReadTwice(file, m, libc)
  BY <1>3 DEF ReadTwice, Read
<1>. QED
  BY <1>1, <1>2, <1>3, <1>4

\* What is known of a file depends on the request and on the release alone.
LEMMA SameEvidence ==
  ASSUME release' = release, NEW r, NEW i, NEW libc
  PROVE  /\ Settled(r, i)' <=> Settled(r, i)
         /\ Seen(r, i)' = Seen(r, i)
         /\ Enriched(r, i, libc)' = Enriched(r, i, libc)
<1>1. Settled(r, i)' <=> Settled(r, i)
  BY SameFiles DEF Settled
<1>2. Seen(r, i)' = Seen(r, i)
  BY <1>1, SameFiles DEF Seen
<1>3. Enriched(r, i, libc)' = Enriched(r, i, libc)
  BY <1>2, SameFiles DEF Enriched, Asset
<1>. QED
  BY <1>1, <1>2, <1>3

\* The fields of the facts that the proofs look at, and of what is read of a file.
LEMMA FactsFields ==
  ASSUME NEW a, NEW libc
  PROVE  /\ FactsForAsset(a, libc).inspection = IF a.artifact.status # "" THEN a.artifact.status ELSE "unknown"
         /\ FactsForAsset(a, libc).variants = a.name.variants
BY DEF FactsForAsset

\* What the reading of the facts leaves alone.
LEMMA WithFactsFields ==
  ASSUME NEW a, NEW libc
  PROVE  /\ WithFacts(a, libc).name = a.name
         /\ WithFacts(a, libc).artifact = a.artifact
         /\ WithFacts(a, libc).facts = FactsForAsset(a, libc)
         /\ DescribeAsset(WithFacts(a, libc)).status = FactsForAsset(a, libc).inspection
BY DEF WithFacts, DescribeAsset

\* What a reading takes over from the name and from the manifest, the scan or the probe.
LEMMA ReadFields ==
  ASSUME NEW file, NEW m, NEW libc
  PROVE  /\ Read(file, m, libc).name = NameOf(file)
         /\ Read(file, m, libc).artifact = m
         /\ Read(file, m, libc).facts = FactsForAsset(Asset(file, m), libc)
         /\ m.status = "failed" => Read(file, m, libc).facts.inspection = "failed"
         /\ Read(file, m, libc).facts.variants = NameOf(file).variants
         /\ DescribeAsset(Read(file, m, libc)).status = Read(file, m, libc).facts.inspection
<1>0. PICK a : a = Asset(file, m)
  OBVIOUS
<1>1. a.artifact = m /\ a.name = NameOf(file)
  BY <1>0 DEF Asset
<1>2. m.status = "failed" => FactsForAsset(a, libc).inspection = "failed"
  BY <1>1, FactsFields
<1>3. FactsForAsset(a, libc).variants = NameOf(file).variants
  BY <1>1, FactsFields
<1>4. PICK w : w = WithFacts(a, libc)
  OBVIOUS
<1>5. w = Read(file, m, libc) /\ FactsForAsset(Asset(file, m), libc) = FactsForAsset(a, libc)
  BY <1>4, <1>0 DEF Read
<1>6. w.name = a.name /\ w.artifact = a.artifact /\ w.facts = FactsForAsset(a, libc) /\ DescribeAsset(w).status = FactsForAsset(a, libc).inspection
  BY <1>4, WithFactsFields
<1>7. (m.status = "failed" => w.facts.inspection = "failed") /\ w.facts.variants = NameOf(file).variants
      /\ DescribeAsset(w).status = w.facts.inspection /\ w.facts = FactsForAsset(Asset(file, m), libc)
  BY <1>2, <1>3, <1>5, <1>6
<1>. QED
  BY <1>1, <1>5, <1>6, <1>7

\* No format, rank or score saves a file that is vetoed.
LEMMA VetoIsFinal ==
  ASSUME NEW a, NEW v, Vetoed(a, a.facts)
  PROVE  ~ValidateSelection(a, v)
<1>1. Assess(a, v) = NoFit
  BY DEF Assess
<1>2. ~NoFit.ok
  BY DEF NoFit
<1>. QED
  BY <1>1, <1>2 DEF ValidateSelection

\* What is known to be broken is refused by the rules and by the guard.
LEMMA BrokenIsRefused ==
  ASSUME NEW file, NEW m, m.status = "failed", NEW libc, NEW v
  PROVE  ~Accepts(ReadTwice(file, m, libc), v)
<1> DEFINE d == DescribeAsset(Read(file, m, libc))
           a == Read(file, d, libc)
<1>1. d.status = "failed"
  BY ReadFields
<1> HIDE DEF d
<1>2. a.artifact.status = "failed" /\ a.facts.inspection = "failed"
  BY <1>1, ReadFields
<1>5. a = ReadTwice(file, m, libc)
  BY DEF ReadTwice, d
<1> HIDE DEF a
<1>3. Verdict(a, a.facts, v) # "candidate"
  BY <1>2 DEF Verdict
<1>4. ~ValidateSelection(a, v)
  BY <1>2, VetoIsFinal DEF Vetoed
<1>. QED
  BY <1>3, <1>4, <1>5 DEF Accepts

\* Nothing that was published heals a failed inspection.
LEMMA FailureStays ==
  ASSUME NEW base, NEW m, m.status = "failed"
  PROVE  Merged(base, m).status = "failed"
BY DEF Merged, MergeObservations

\* A probe or a scan that found a file broken is what the request sees, unless the
\* scan was a sample.
LEMMA BrokenIsSeen ==
  ASSUME NEW r, NEW i, Settled(r, i) => r.got[i] = "",
         \/ r.records[i] /\ Deep(r.files[i]).status = "failed"
         \/ r.got[i] = "broken" /\ (r.records[i] => ~Deep(r.files[i]).partial)
  PROVE  Seen(r, i).status = "failed"
<1> DEFINE file   == r.files[i]
           base   == Published(file, r.facts)
           broken == Merged(base, [NoFact EXCEPT !.status = "failed"])
<1>1. CASE r.records[i] /\ Deep(file).status = "failed"
  <2>1. Settled(r, i)
    BY <1>1 DEF Settled, AuthoritativeScan
  <2>2. Seen(r, i) = Merged(base, Deep(file))
    BY <2>1 DEF Seen
  <2>. QED
    BY <1>1, <2>1, <2>2, FailureStays
<1>2. CASE r.got[i] = "broken" /\ (r.records[i] => ~Deep(file).partial)
  <2>1. ~Settled(r, i)
    BY <1>2
  <2>2. broken.status = "failed"
    BY FailureStays DEF NoFact
  <2>3. [broken EXCEPT !.sources = @ \cup Deep(file).sources].status = "failed"
    BY <2>2 DEF Merged, MergeObservations, NoFact
  <2>4. Seen(r, i) \in {broken, [broken EXCEPT !.sources = @ \cup Deep(file).sources]}
    BY <1>2, <2>1 DEF Seen, AppendScanEvidence
  <2>. QED
    BY <2>2, <2>3, <2>4
<1>. QED
  BY <1>1, <1>2

-----------------------------------------------------------------------------
(* The inductive invariant: what was served was accepted on the evidence *)

\* The release keeps its places, and what is at each of them is one of its files.
PlacesInv ==
  /\ release \in Releases
  /\ known \in Seq(DOMAIN release.contents) /\ upstream \in Seq(DOMAIN release.contents)
  /\ Len(known) = Len(release.files) /\ Len(upstream) = Len(release.files)

\* The fields of a request.
RequestFields == {"kind", "v", "pin", "files", "facts", "records", "rank", "probes", "got"}

\* A request as Ask makes it; no probe is made for a file that a scan has settled.
WellAsked(r) ==
  /\ DOMAIN r = RequestFields
  /\ r.files \in Seq(DOMAIN release.contents)
  /\ r.pin \in {NoPin} \cup DOMAIN r.files
  /\ DOMAIN r.rank = DOMAIN r.files /\ DOMAIN r.got = DOMAIN r.files
  /\ \A i \in DOMAIN r.files : Settled(r, i) => r.got[i] = "" /\ r.rank[i] = NoProbe

\* What is served was accepted for its visitor on all that the request knew.
ServedInv(r, s) ==
  s.place \in DOMAIN r.files /\ \E libc \in Libcs : Accepts(Enriched(r, s.place, libc), s.v)

\* The invariant: what was served was accepted on the evidence of its own request.
AcceptedInv ==
  /\ PlacesInv
  /\ OffersKnowTheSystem
  /\ req.kind # "idle" => WellAsked(req)
  /\ Answered => WellAsked(answer.req) /\ \A s \in answer.served : ServedInv(answer.req, s)

\* A file seen broken is vetoed, hence neither a candidate nor valid.
LEMMA AcceptedMeansNotBroken == AcceptedInv => BrokenNeverServed
<1>1. SUFFICES ASSUME AcceptedInv, Answered, NEW s \in answer.served
               PROVE  LET scan == IF answer.req.records[s.place] THEN Deep(answer.req.files[s.place]) ELSE NoFact
                      IN scan.status # "failed" /\ (scan.partial \/ answer.req.got[s.place] # "broken")
  BY DEF BrokenNeverServed
<1> DEFINE r == answer.req
           i == s.place
<1>2. PICK libc \in Libcs : Accepts(Enriched(r, i, libc), s.v)
  BY <1>1 DEF AcceptedInv, ServedInv
<1>3. Settled(r, i) => r.got[i] = ""
  BY <1>1 DEF AcceptedInv, ServedInv, WellAsked
<1>4. Seen(r, i).status # "failed"
  BY <1>2, BrokenIsRefused, EnrichedIsReadTwice
<1>. QED
  BY <1>3, <1>4, BrokenIsSeen DEF NoFact

\* The descriptions of a request cover its files, one by one.
LEMMA DescribedKnows ==
  ASSUME PlacesInv, NEW r, r.files \in Seq(DOMAIN release.contents), NEW libc
  PROVE  Knows(Described(r, libc)) /\ DOMAIN Described(r, libc) = DOMAIN r.files
<1> DEFINE assets == Described(r, libc)
<1>1. DOMAIN assets = DOMAIN r.files /\ DOMAIN r.files \subseteq Nat \ {0}
  BY DEF Described
<1>2. ASSUME NEW i \in DOMAIN assets, NEW v
      PROVE  FactsForTarget(assets[i].facts, v).variants \in Nat
  <2>1. r.files[i] \in DOMAIN release.contents
    BY <1>1, <1>2
  <2>2. NameOf(r.files[i]).variants \in Nat
    BY <2>1, DownloadAssumption DEF PlacesInv, NameOf
  <2>3. assets[i] = ReadTwice(r.files[i], Seen(r, i), libc)
    BY <1>1, <1>2, EnrichedIsReadTwice DEF Described
  <2>4. assets[i].facts.variants = NameOf(r.files[i]).variants
    BY <2>3, ReadFields DEF ReadTwice
  <2>. QED
    BY <2>2, <2>4 DEF FactsForTarget
<1>. QED
  BY <1>1, <1>2 DEF Knows

-----------------------------------------------------------------------------
(* Its steps *)

\* Uploads and refreshes change which file is at a place and never the places.
LEMMA PlacesAreKept ==
  ASSUME PlacesInv, [Next]_vars
  PROVE  PlacesInv' /\ release' = release
<1>1. release' = release /\ primary' = primary
  BY DEF Next, vars, Ask, ProbeCached, ProbePasses, ProbeReads, ProbeFails, Deadline, Answer, AnswerPage, Leave,
         ScanCompletes, Reupload, CacheExpires, OfferExpires, ManifestExpires, RefreshRelease
<1>2. /\ known' = known \/ known' = upstream
      /\ upstream' = upstream \/ \E i \in Places : Reupload(i)
  BY DEF Next, vars, Ask, ProbeCached, ProbePasses, ProbeReads, ProbeFails, Deadline, Answer, AnswerPage, Leave,
         ScanCompletes, Reupload, CacheExpires, OfferExpires, ManifestExpires, RefreshRelease
<1>3. known' \in Seq(DOMAIN release.contents) /\ Len(known') = Len(release.files)
  BY <1>2 DEF PlacesInv
<1>4. ASSUME NEW i \in Places, Reupload(i)
      PROVE  upstream' \in Seq(DOMAIN release.contents) /\ Len(upstream') = Len(release.files)
  <2>1. i \in 1 .. Len(upstream)
    BY DEF PlacesInv, Places
  <2>2. Successor(upstream[i]) \in DOMAIN release.contents
    BY <2>1, DownloadAssumption DEF PlacesInv, Successor
  <2>3. upstream' = [upstream EXCEPT ![i] = Successor(upstream[i])]
    BY <1>4 DEF Reupload
  <2>4. upstream \in Seq(DOMAIN release.contents) /\ Len(upstream) = Len(release.files)
    BY DEF PlacesInv
  <2> DEFINE e == Successor(upstream[i])
             files == DOMAIN release.contents
  <2> HIDE DEF e, files
  <2>5. [upstream EXCEPT ![i] = e] \in Seq(files) /\ Len([upstream EXCEPT ![i] = e]) = Len(upstream)
    BY <2>1, <2>2, <2>4, ExceptSeq DEF e, files
  <2>. QED
    BY <2>3, <2>4, <2>5 DEF e, files
<1>. QED
  BY <1>1, <1>2, <1>3, <1>4 DEF PlacesInv

\* A well-made request stays one as long as the release is the same.
LEMMA RequestsStayWell ==
  ASSUME release' = release, NEW r, WellAsked(r)
  PROVE  WellAsked(r)'
BY SameEvidence DEF WellAsked

\* So does what was accepted.
LEMMA ServedStays ==
  ASSUME release' = release, NEW r, NEW s, ServedInv(r, s)
  PROVE  ServedInv(r, s)'
<1>1. PICK libc \in Libcs : Accepts(Enriched(r, s.place, libc), s.v)
  BY DEF ServedInv
<1>2. Enriched(r, s.place, libc)' = Enriched(r, s.place, libc)
  BY SameEvidence
<1>. QED
  BY <1>1, <1>2 DEF ServedInv

\* A request after a probe, which a settled file has none of.
LEMMA ProbesStayWell ==
  ASSUME NEW r, WellAsked(r), NEW i \in DOMAIN r.files, r.rank[i] # NoProbe, NEW got, NEW n
  PROVE  WellAsked([r EXCEPT !.rank[i] = NoProbe, !.got[i] = got, !.probes = n])
<1> DEFINE q == [r EXCEPT !.rank[i] = NoProbe, !.got[i] = got, !.probes = n]
<1>1. DOMAIN r = RequestFields
  BY DEF WellAsked
<1>2. DOMAIN q = RequestFields /\ q.files = r.files /\ q.pin = r.pin /\ q.records = r.records
  BY <1>1 DEF RequestFields
<1>3. q.rank = [r.rank EXCEPT ![i] = NoProbe]
  BY <1>1 DEF RequestFields
<1>4. q.got = [r.got EXCEPT ![i] = got]
  BY <1>1 DEF RequestFields
<1> HIDE DEF q
<1>5. \A j : Settled(q, j) <=> Settled(r, j)
  BY <1>2 DEF Settled
<1>6. ~Settled(r, i)
  BY DEF WellAsked
<1>7. ASSUME NEW j \in DOMAIN q.files, Settled(q, j)
      PROVE  q.got[j] = "" /\ q.rank[j] = NoProbe
  <2>1. j # i /\ j \in DOMAIN r.files /\ r.got[j] = "" /\ r.rank[j] = NoProbe
    BY <1>2, <1>5, <1>6, <1>7 DEF WellAsked
  <2>2. j \in DOMAIN r.rank /\ j \in DOMAIN r.got
    BY <2>1 DEF WellAsked
  <2>. QED
    BY <1>3, <1>4, <2>1, <2>2
<1>8. WellAsked(q)
  BY <1>2, <1>3, <1>4, <1>7 DEF WellAsked
<1>. QED
  BY <1>8 DEF q

\* The deadline takes back the ranks of the probes that have not begun.
LEMMA DeadlineStaysWell ==
  ASSUME NEW r, WellAsked(r)
  PROVE  WellAsked([r EXCEPT !.rank = [i \in DOMAIN @ |-> NoProbe]])
<1> DEFINE q == [r EXCEPT !.rank = [i \in DOMAIN @ |-> NoProbe]]
<1>1. DOMAIN r = RequestFields
  BY DEF WellAsked
<1>2. /\ DOMAIN q = RequestFields /\ q.files = r.files /\ q.pin = r.pin /\ q.records = r.records
      /\ q.rank = [i \in DOMAIN r.rank |-> NoProbe] /\ q.got = r.got
  BY <1>1 DEF RequestFields
<1> HIDE DEF q
<1>3. \A j : Settled(q, j) <=> Settled(r, j)
  BY <1>2 DEF Settled
<1>4. WellAsked(q)
  BY <1>2, <1>3 DEF WellAsked
<1>. QED
  BY <1>4 DEF q

\* The request that Ask puts together, before its probes are ranked.
NewRequest(kind, v, pin, facts, records) ==
  [kind |-> kind, v |-> v, pin |-> pin, files |-> known, facts |-> facts, records |-> records,
   rank |-> <<>>, probes |-> 0, got |-> [i \in Places |-> ""]]

\* Ask puts a request together from the caches and from finished scans of the files it knows.
LEMMA AskedRequest ==
  ASSUME NEW kind, NEW v, NEW pin, Ask(kind, v, pin)
  PROVE  \E facts, records : /\ LET r == NewRequest(kind, v, pin, facts, records) IN req' = [r EXCEPT !.rank = ProbeRanks(r)]
                             /\ \A i \in Places : records[i] => scans[i].file = known[i] /\ scans[i].state = "done"
<1>1. PICK facts \in IF manifest = "unread" /\ release.manifests # <<>> THEN {"read", "failed"} ELSE {manifest},
         up \in BOOLEAN, reach \in 0 .. Len(known) :
        LET mine(i) == scans[i].file = known[i] /\ scans[i].state # "none"
            records == [i \in Places |-> up /\ mine(i) /\ scans[i].state = "done"]
            r       == NewRequest(kind, v, pin, facts, records)
        IN req' = [r EXCEPT !.rank = ProbeRanks(r)]
  BY ZenonT(60) DEF Ask, NewRequest
<1> DEFINE mine(i) == scans[i].file = known[i] /\ scans[i].state # "none"
           records == [i \in Places |-> up /\ mine(i) /\ scans[i].state = "done"]
<1>3. \A i \in Places : records[i] => scans[i].file = known[i] /\ scans[i].state = "done"
  OBVIOUS
<1>. QED
  BY <1>1, <1>3, Zenon

\* That request is well-made.
LEMMA AskedWell ==
  ASSUME PlacesInv, NEW kind, NEW v, NEW pin \in {NoPin} \cup Places, Ask(kind, v, pin)
  PROVE  WellAsked(req')
<1>1. PICK facts, records : LET r == NewRequest(kind, v, pin, facts, records) IN req' = [r EXCEPT !.rank = ProbeRanks(r)]
  BY AskedRequest
<1> DEFINE r == NewRequest(kind, v, pin, facts, records)
           rank == ProbeRanks(r)
           q == [r EXCEPT !.rank = rank]
<1>2. r.files = known /\ r.records = records
  BY DEF NewRequest
<1>3. rank = [i \in DOMAIN known |-> IF Settled(r, i) THEN NoProbe ELSE InspectionRank(Base(known[i], r.facts))]
  BY <1>2 DEF ProbeRanks
<1> HIDE DEF rank
<1>4. /\ DOMAIN q = RequestFields /\ q.pin = pin /\ q.files = known /\ q.records = records
      /\ q.rank = rank /\ q.got = [i \in Places |-> ""]
  BY DEF NewRequest, RequestFields
<1>5. req' = q
  BY <1>1 DEF rank
<1> HIDE DEF r, q
<1>6. \A j : Settled(q, j) <=> Settled(r, j)
  BY <1>2, <1>4 DEF Settled
<1>7. WellAsked(q)
  BY <1>3, <1>4, <1>6 DEF WellAsked, PlacesInv, Places
<1>. QED
  BY <1>5, <1>7

\* What the steps leave alone: requests between Ask and Answer, answers until Leave.
LEMMA ProbeKeepsRequest ==
  ASSUME AcceptedInv, NEW i \in Places, ProbeCached(i) \/ ProbePasses(i) \/ ProbeReads(i) \/ ProbeFails(i)
  PROVE  WellAsked(req') /\ UNCHANGED <<release, offers, answer>>
<1>1. Probing(i) /\ UNCHANGED <<release, offers, answer>>
  BY DEF ProbeCached, ProbePasses, ProbeReads, ProbeFails
<1>2. WellAsked(req) /\ i \in DOMAIN req.files /\ req.rank[i] # NoProbe
  BY <1>1 DEF AcceptedInv, WellAsked, Probing, Waiting
<1>3. \E got, n : req' = [req EXCEPT !.rank[i] = NoProbe, !.got[i] = got, !.probes = n]
  <2>1. \E got, live : Probed(i, got, live)
    BY DEF ProbeCached, ProbePasses, ProbeReads, ProbeFails
  <2>2. PICK got, live : Probed(i, got, live)
    BY <2>1
  <2>. QED
    BY <2>2 DEF Probed
<1>4. PICK got, n : req' = [req EXCEPT !.rank[i] = NoProbe, !.got[i] = got, !.probes = n]
  BY <1>3
<1>5. WellAsked([req EXCEPT !.rank[i] = NoProbe, !.got[i] = got, !.probes = n])
  BY <1>2, ProbesStayWell
<1>. QED
  BY <1>1, <1>4, <1>5, Zenon

\* What a click or a decision serves, and the offers it remembers.
LEMMA AnswersAreAccepted ==
  ASSUME AcceptedInv, Answer
  PROVE  /\ OffersKnowTheSystem'
         /\ WellAsked(answer'.req) /\ \A s \in answer'.served : ServedInv(answer'.req, s)
<1>1. PICK libc \in Libcs : \E c \in Decisions(req, Described(req, libc)) :
        LET served == ShouldAutoSelect(c.d)
            offer  == [v |-> req.v, file |-> req.files[c.d.asset], confidence |-> c.d.confidence,
                       how |-> c.how, seen |-> Evidence(req, c.d.asset)]
        IN /\ answer' = [kind |-> req.kind, req |-> req, how |-> c.how, status |-> c.d.status,
                         served |-> IF served THEN {[v |-> req.v, place |-> c.d.asset]} ELSE {}]
           /\ offers' = IF req.kind = "link" /\ primary /\ req.pin = NoPin /\ served
                        THEN (offers \ Live(offer.v, offer.file)) \cup {offer} ELSE offers
  BY DEF Answer
<1>2. PICK c \in Decisions(req, Described(req, libc)) :
        LET served == ShouldAutoSelect(c.d)
            offer  == [v |-> req.v, file |-> req.files[c.d.asset], confidence |-> c.d.confidence,
                       how |-> c.how, seen |-> Evidence(req, c.d.asset)]
        IN /\ answer' = [kind |-> req.kind, req |-> req, how |-> c.how, status |-> c.d.status,
                         served |-> IF served THEN {[v |-> req.v, place |-> c.d.asset]} ELSE {}]
           /\ offers' = IF req.kind = "link" /\ primary /\ req.pin = NoPin /\ served
                        THEN (offers \ Live(offer.v, offer.file)) \cup {offer} ELSE offers
  BY <1>1
<1> DEFINE assets == Described(req, libc)
           served == ShouldAutoSelect(c.d)
           offer  == [v |-> req.v, file |-> req.files[c.d.asset], confidence |-> c.d.confidence,
                      how |-> c.how, seen |-> Evidence(req, c.d.asset)]
<1>3. WellAsked(req)
  BY DEF Answer, AcceptedInv
<1>4. Knows(assets) /\ DOMAIN assets = DOMAIN req.files /\ req.pin \in {NoPin} \cup DOMAIN assets
  BY <1>3, DescribedKnows DEF AcceptedInv, WellAsked
<1>5. served => c.d.asset \in DOMAIN req.files /\ Accepts(assets[c.d.asset], req.v)
  BY <1>4, DecisionsAccept DEF AcceptedInv
<1>6. served => Accepts(Enriched(req, c.d.asset, libc), req.v)
  BY <1>5 DEF Described
<1>7. answer'.req = req /\ answer'.served = IF served THEN {[v |-> req.v, place |-> c.d.asset]} ELSE {}
  BY <1>2
<1> HIDE DEF served
<1>8. \A s \in answer'.served : ServedInv(answer'.req, s)
  BY <1>5, <1>6, <1>7 DEF ServedInv
<1>9. OffersKnowTheSystem'
  <2>1. offers' \subseteq offers \/ (served /\ offers' \subseteq offers \cup {offer})
    BY <1>2 DEF served
  <2>2. served => offer.v.os \in Platforms
    BY <1>5 DEF Accepts
  <2> HIDE DEF offer
  <2>. QED
    BY <2>1, <2>2 DEF AcceptedInv, OffersKnowTheSystem
<1>. QED
  BY <1>3, <1>7, <1>8, <1>9

\* What a page serves, one file per target, each by the rules for that target.
LEMMA PicksAreAccepted ==
  ASSUME AcceptedInv, AnswerPage
  PROVE  WellAsked(answer'.req) /\ \A s \in answer'.served : ServedInv(answer'.req, s)
<1>1. PICK libc \in Libcs :
        answer' = [kind |-> "page", req |-> req, how |-> "rules", status |-> "", served |-> PagePicks(Described(req, libc))]
  BY DEF AnswerPage
<1>2. WellAsked(req)
  BY DEF AnswerPage, AcceptedInv
<1> DEFINE assets == Described(req, libc)
<1>3. Knows(assets) /\ DOMAIN assets = DOMAIN req.files
  BY <1>2, DescribedKnows DEF AcceptedInv, WellAsked
<1>4. answer'.req = req /\ answer'.served = PagePicks(assets)
  BY <1>1
<1>5. ASSUME NEW s \in PagePicks(assets)
      PROVE  ServedInv(req, s)
  <2>1. DecideAsset(assets, s.v).asset # NoAsset /\ s.place = DecideAsset(assets, s.v).asset
    BY <1>5 DEF PagePicks, ShouldAutoSelect
  <2>2. s.place \in DOMAIN req.files /\ Accepts(assets[s.place], s.v)
    BY <1>3, <2>1, RulesNameACandidate DEF Knows, Accepts
  <2>3. assets[s.place] = Enriched(req, s.place, libc)
    BY <2>2 DEF Described
  <2>. QED
    BY <2>2, <2>3 DEF ServedInv
<1>. QED
  BY <1>2, <1>4, <1>5

\* At first nothing is asked, answered or offered.
LEMMA AcceptedInit == Init => AcceptedInv
  BY DownloadAssumption DEF Init, AcceptedInv, PlacesInv, OffersKnowTheSystem, Idle, Answered

\* Every step keeps that what was served was accepted.
LEMMA AcceptedStep == AcceptedInv /\ [Next]_vars => AcceptedInv'
<1>. SUFFICES ASSUME AcceptedInv, [Next]_vars PROVE AcceptedInv'
  OBVIOUS
<1>1. PlacesInv' /\ release' = release
  BY PlacesAreKept DEF AcceptedInv
<1> DEFINE ReqInv    == req.kind # "idle" => WellAsked(req)
           AnswerInv == Answered => WellAsked(answer.req) /\ \A s \in answer.served : ServedInv(answer.req, s)
<1>2. ASSUME WellAsked(req') PROVE ReqInv'
  BY <1>1, <1>2, RequestsStayWell
<1>3. ASSUME req' = req \/ req' = Idle PROVE ReqInv'
  BY <1>1, <1>3, RequestsStayWell DEF AcceptedInv, Idle
<1>4. ASSUME answer' = answer \/ answer' = NoAnswer PROVE AnswerInv'
  BY <1>1, <1>4, RequestsStayWell, ServedStays DEF AcceptedInv, Answered
<1>5. ASSUME WellAsked(answer'.req), \A s \in answer'.served : ServedInv(answer'.req, s) PROVE AnswerInv'
  BY <1>1, <1>5, RequestsStayWell, ServedStays
<1>6. ASSUME offers' \subseteq offers PROVE OffersKnowTheSystem'
  BY <1>6 DEF AcceptedInv, OffersKnowTheSystem
<1>. SUFFICES OffersKnowTheSystem' /\ ReqInv' /\ AnswerInv'
  BY <1>1 DEF AcceptedInv
<1>7. ASSUME NEW kind, NEW v, NEW pin \in {NoPin} \cup Places, Ask(kind, v, pin)
      PROVE  OffersKnowTheSystem' /\ ReqInv' /\ AnswerInv'
  <2>1. WellAsked(req')
    BY <1>7, AskedWell DEF AcceptedInv
  <2>2. offers' = offers /\ answer' = answer
    BY <1>7 DEF Ask
  <2>. QED
    BY <1>2, <1>4, <1>6, <2>1, <2>2
<1>8. ASSUME NEW i \in Places, ProbeCached(i) \/ ProbePasses(i) \/ ProbeReads(i) \/ ProbeFails(i)
      PROVE  OffersKnowTheSystem' /\ ReqInv' /\ AnswerInv'
  BY <1>2, <1>4, <1>6, <1>8, ProbeKeepsRequest
<1>9. CASE Deadline
  <2>1. WellAsked(req')
    BY <1>9, DeadlineStaysWell DEF Deadline, AcceptedInv
  <2>. QED
    BY <1>2, <1>4, <1>6, <1>9, <2>1 DEF Deadline
<1>10. CASE Answer
  BY <1>3, <1>5, <1>10, AnswersAreAccepted DEF Answer
<1>11. CASE AnswerPage
  BY <1>3, <1>5, <1>6, <1>11, PicksAreAccepted DEF AnswerPage
<1>12. CASE Leave
  BY <1>3, <1>4, <1>6, <1>12 DEF Leave
<1>13. ASSUME NEW i, ScanCompletes(i) \/ Reupload(i) \/ CacheExpires(i) \/ OfferExpires(i)
       PROVE  OffersKnowTheSystem' /\ ReqInv' /\ AnswerInv'
  BY <1>3, <1>4, <1>6, <1>13 DEF ScanCompletes, Reupload, CacheExpires, OfferExpires
<1>14. CASE ManifestExpires \/ RefreshRelease \/ UNCHANGED vars
  BY <1>3, <1>4, <1>6, <1>14 DEF ManifestExpires, RefreshRelease, vars
<1>. QED
  <2> HIDE DEF ReqInv, AnswerInv
  <2>. QED
  BY <1>7, <1>8, <1>9, <1>10, <1>11, <1>12, <1>13, <1>14 DEF Next

\* What was served was accepted, by the rules or by the guard, on the evidence of its
\* own request.
THEOREM ServedWasAccepted == Spec => []AcceptedInv
<1>. QED
  BY AcceptedInit, AcceptedStep, PTL DEF Spec

\* redirect.go, artifacts.go: no way leads from a request that saw a file broken to
\* that file, the live offer of an earlier request included.
THEOREM BrokenIsNeverServed == Spec => []BrokenNeverServed
<1>. QED
  BY ServedWasAccepted, AcceptedMeansNotBroken, PTL

-----------------------------------------------------------------------------
(* A full scan that tells the truth is not undone on the way to the visitor *)

\* What m says of the main program is what the file runs on: NothingButTheMain.
Tells(file, m) ==
  \A t \in m.targets :
    (NameOf(file).ext = "appimage" => m.launcher \in {"", t.cpu}) => [os |-> t.os, cpu |-> t.cpu] \in RunsOn(file)

\* The publisher's facts can add a libc to what a complete scan found, or contradict it.
LEMMA CombinedTargets ==
  ASSUME NEW a, NEW b, \A t \in b : t.os # "" /\ t.cpu # "", NEW t \in Combined(a, b)
  PROVE  t.os # "" /\ t.cpu # "" /\ \E u \in b : u.os = t.os /\ u.cpu = t.cpu
<1>1. PICK x \in a, u \in b : /\ Agree(x.os, u.os) /\ Agree(x.cpu, u.cpu)
                              /\ t.os = (IF x.os = "" THEN u.os ELSE x.os)
                              /\ t.cpu = (IF x.cpu = "" THEN u.cpu ELSE x.cpu)
  <2> DEFINE Or(x, y) == IF x = "" THEN y ELSE x
             meets(p) == /\ Agree(p[1].os, p[2].os) /\ Agree(p[1].cpu, p[2].cpu)
                         /\ Agree(p[1].libc, p[2].libc) \/ "static" \in {p[1].libc, p[2].libc}
  <2>1. PICK p \in a \X b : meets(p) /\ t = Target(Or(p[1].os, p[2].os), Or(p[1].cpu, p[2].cpu), Or(p[1].libc, p[2].libc))
    BY Zenon DEF Combined
  <2>2. p[1] \in a /\ p[2] \in b
    BY <2>1
  <2>. QED
    BY <2>1, <2>2 DEF Target
<1>. QED
  BY <1>1 DEF Agree

\* What a full scan says of targets outlives the publisher's claims: they add the libc,
\* or they contradict it and that is remembered.
LEMMA MergedTargets ==
  ASSUME NEW base, NEW m, CompleteScanTargets(m)
  PROVE  \/ "publisher targets" \in Merged(base, m).conflicts
         \/ /\ CompleteScanTargets(Merged(base, m))
            /\ \A t \in Merged(base, m).targets : \E u \in m.targets : u.os = t.os /\ u.cpu = t.cpu
<1>1. CASE base = NoFact
  <2>1. Merged(base, m) = m
    BY <1>1 DEF Merged
  <2>. QED
    BY <2>1, Zenon
<1>2. CASE base # NoFact
  <2> DEFINE merge == MergeTargets(base, m)
             all == MergeObservations(base, m)
  <2>1. Merged(base, m) = all
    BY <1>2 DEF Merged
  <2>2. all.targets = merge.targets /\ all.partial = merge.partial /\ (merge.clash => "publisher targets" \in all.conflicts)
    BY DEF MergeObservations
  <2>3. ~m.partial /\ m.targets # {} /\ \A t \in m.targets : t.os # "" /\ t.cpu # ""
    BY DEF CompleteScanTargets
  <2>4. \/ merge = [targets |-> m.targets, partial |-> m.partial, clash |-> FALSE]
        \/ merge.clash
        \/ Combined(base.targets, m.targets) # {}
           /\ merge = [targets |-> Combined(base.targets, m.targets), partial |-> FALSE, clash |-> FALSE]
    BY <2>3 DEF MergeTargets
  <2> HIDE DEF merge, all
  <2>5. CASE merge = [targets |-> m.targets, partial |-> m.partial, clash |-> FALSE]
    BY <2>1, <2>2, <2>3, <2>5 DEF CompleteScanTargets
  <2>6. CASE /\ Combined(base.targets, m.targets) # {}
             /\ merge = [targets |-> Combined(base.targets, m.targets), partial |-> FALSE, clash |-> FALSE]
    <3> DEFINE both == Combined(base.targets, m.targets)
    <3>1. \A t \in both : t.os # "" /\ t.cpu # "" /\ \E u \in m.targets : u.os = t.os /\ u.cpu = t.cpu
      BY <2>3, CombinedTargets
    <3>2. all.targets = both /\ all.partial = FALSE /\ both # {}
      BY <2>2, <2>6
    <3> HIDE DEF both
    <3>3. CompleteScanTargets(all) /\ \A t \in all.targets : \E u \in m.targets : u.os = t.os /\ u.cpu = t.cpu
      BY <3>1, <3>2 DEF CompleteScanTargets
    <3>. QED
      BY <2>1, <3>3
  <2>. QED
    BY <2>1, <2>2, <2>4, <2>5, <2>6
<1>. QED
  BY <1>1, <1>2

\* So a scan that tells the truth still does, merged with uncontradicted claims.
LEMMA MergedTells ==
  ASSUME NEW file, NEW base, NEW m, CompleteScanTargets(m), Tells(file, m),
         "publisher targets" \notin Merged(base, m).conflicts
  PROVE  CompleteScanTargets(Merged(base, m)) /\ Tells(file, Merged(base, m))
<1> DEFINE all == Merged(base, m)
<1>1. CompleteScanTargets(all) /\ \A t \in all.targets : \E u \in m.targets : u.os = t.os /\ u.cpu = t.cpu
  BY MergedTargets
<1>2. m.launcher \in {"", all.launcher}
  BY DEF Merged, MergeObservations
<1> HIDE DEF all
<1>3. ASSUME NEW t \in all.targets, NameOf(file).ext = "appimage" => all.launcher \in {"", t.cpu}
      PROVE  [os |-> t.os, cpu |-> t.cpu] \in RunsOn(file)
  <2>1. PICK u \in m.targets : u.os = t.os /\ u.cpu = t.cpu
    BY <1>1
  <2>2. [os |-> u.os, cpu |-> u.cpu] \in RunsOn(file)
    BY <1>2, <1>3, <2>1 DEF Tells
  <2>. QED
    BY <2>1, <2>2
<1>4. Tells(file, all)
  BY <1>3 DEF Tells
<1>. QED
  BY <1>1, <1>4 DEF all

\* A scan that found no program is not overruled, only contradicted.
IsNoProgram(m) == m.role \in {"source", "metadata", "debug"}

\* The role that the scan found stays, or its contradiction is remembered.
LEMMA MergedRole ==
  ASSUME NEW base, NEW m, IsNoProgram(m),
         "publisher role" \notin Merged(base, m).conflicts
  PROVE  Merged(base, m).role = m.role
<1>1. CASE base = NoFact
  BY <1>1 DEF Merged
<1>2. CASE base # NoFact
  <2>1. Merged(base, m) = MergeObservations(base, m)
    BY <1>2 DEF Merged
  <2>2. {base.role, m.role} # Runnables
    BY DEF Runnables, IsNoProgram
  <2> DEFINE all == MergeObservations(base, m)
  <2>3. all.role = m.role \/ (base.role \notin {"", "unknown"} /\ base.role # m.role)
    BY DEF MergeObservations
  <2>4. base.role \notin {"", "unknown"} /\ base.role # m.role => "publisher role" \in all.conflicts
    BY <2>2 DEF MergeObservations, IsNoProgram
  <2> HIDE DEF all
  <2>5. all.role = m.role \/ "publisher role" \in all.conflicts
    BY <2>3, <2>4
  <2>. QED
    BY <2>1, <2>5 DEF all
<1>. QED
  BY <1>1, <1>2

\* Targets with every gap closed but, perhaps, the libc.
Closed(targets) == \A t \in targets : t = Target(t.os, t.cpu, t.libc) /\ t.os # "" /\ t.cpu # ""

\* The name of a file fills in the libc only, where the scan has named system and CPU.
LEMMA ClosedStaysFilled ==
  ASSUME NEW m, CompleteScanTargets(m), NEW named, NEW cpu, NEW libc
  PROVE  LET filled == FilledTargets(m, named, cpu, libc)
         IN /\ Closed(filled) /\ filled # {}
            /\ \A t \in filled : \E u \in m.targets : u.os = t.os /\ u.cpu = t.cpu
<1> DEFINE fill(t) == [os   |-> IF t.os = "" /\ Cardinality(named) = 1 THEN (CHOOSE x \in named : TRUE).os ELSE t.os,
                       cpu  |-> IF t.cpu = "" /\ Cardinality(cpu) = 1 /\ ~m.partial THEN CHOOSE c \in cpu : TRUE ELSE t.cpu,
                       libc |-> IF t.libc = "" THEN libc ELSE t.libc]
           filled == FilledTargets(m, named, cpu, libc)
<1>1. filled = {fill(t) : t \in m.targets}
  BY DEF FilledTargets
<1>2. m.targets # {} /\ \A t \in m.targets : t.os # "" /\ t.cpu # ""
  BY DEF CompleteScanTargets
<1>3. ASSUME NEW u \in m.targets
      PROVE  /\ fill(u) = Target(fill(u).os, fill(u).cpu, fill(u).libc)
             /\ fill(u).os = u.os /\ fill(u).cpu = u.cpu /\ u.os # "" /\ u.cpu # ""
  BY <1>2 DEF Target
<1> HIDE DEF fill, filled
<1>. QED
  BY <1>1, <1>2, <1>3 DEF Closed, filled

\* A target that says less than another goes, the other stays.
LEMMA SpecificStays ==
  ASSUME NEW targets, Closed(targets), targets # {}
  PROVE  SpecificTargets(targets) # {} /\ SpecificTargets(targets) \subseteq targets
<1> DEFINE Fills(gap, value) == gap = "" \/ gap = value
           Subsumed(t) == \E o \in targets \ {t} : Fills(t.os, o.os) /\ Fills(t.cpu, o.cpu) /\ Fills(t.libc, o.libc)
<1>1. SpecificTargets(targets) = {t \in targets : ~Subsumed(t)}
  BY DEF SpecificTargets
<1>2. PICK t \in targets : TRUE
  OBVIOUS
<1>3. ASSUME NEW x \in targets, NEW o \in targets \ {x}, Fills(x.os, o.os), Fills(x.cpu, o.cpu), Fills(x.libc, o.libc)
      PROVE  x.libc = "" /\ o.libc # ""
  <2>1. x = Target(x.os, x.cpu, x.libc) /\ o = Target(o.os, o.cpu, o.libc) /\ x.os = o.os /\ x.cpu = o.cpu
    BY <1>3 DEF Closed
  <2>2. x.libc # o.libc
    BY <2>1, Zenon
  <2>. QED
    BY <1>3, <2>2
<1>4. CASE Subsumed(t)
  <2>1. PICK o \in targets \ {t} : Fills(t.os, o.os) /\ Fills(t.cpu, o.cpu) /\ Fills(t.libc, o.libc)
    BY <1>4
  <2>2. o.libc # ""
    BY <1>3, <2>1
  <2>3. ~Subsumed(o)
    BY <1>3, <2>2
  <2>. QED
    BY <1>1, <2>3
<1>5. CASE ~Subsumed(t)
  BY <1>1, <1>5
<1>. QED
  BY <1>1, <1>4, <1>5

\* A launcher narrows the targets of an AppImage to its own CPU, or it contradicts them.
LEMMA ClosedStaysLaunched ==
  ASSUME NEW targets, Closed(targets), targets # {}, NEW ext, NEW launcher, NEW cpu
  PROVE  LET launched == LauncherTargets(ext, launcher, targets)
         IN /\ launched \subseteq targets
            /\ \A t \in launched : ext = "appimage" => launcher \in {"", t.cpu}
            /\ launched # {} \/ "launcher and payload" \in LauncherConflicts(ext, launcher, cpu, targets)
<1> DEFINE launched == LauncherTargets(ext, launcher, targets)
<1>1. CASE ext # "appimage" \/ launcher = ""
  BY <1>1 DEF LauncherTargets
<1>2. CASE ext = "appimage" /\ launcher # ""
  <2>1. {IF t.cpu = "" THEN [t EXCEPT !.cpu = launcher] ELSE t : t \in targets} = targets
    BY DEF Closed
  <2>2. launched = {t \in targets : t.cpu = launcher}
    BY <1>2, <2>1 DEF LauncherTargets
  <2>3. CASE launched = {}
    <3>1. \A t \in targets : t.cpu \notin {"", launcher}
      BY <2>2, <2>3 DEF Closed
    <3>2. "launcher and payload" \in LauncherConflicts(ext, launcher, cpu, targets)
      BY <1>2, <3>1, Zenon DEF LauncherConflicts
    <3>. QED
      BY <2>2, <3>2
  <2>4. CASE launched # {}
    BY <2>2, <2>4
  <2>. QED
    BY <2>3, <2>4
<1>. QED
  BY <1>1, <1>2

\* The guess for disk images is for those without a target.
LEMMA ClosedIsNoGuess ==
  ASSUME NEW targets, Closed(targets), NEW ext
  PROVE  DmgTargets(ext, targets) = targets
<1>1. UNION {{t} : t \in targets} = targets
  OBVIOUS
<1>2. {IF t.os = "macos" /\ t.cpu = "" THEN {[t EXCEPT !.cpu = "amd64"], [t EXCEPT !.cpu = "arm64"]} ELSE {t} : t \in targets}
        = {{t} : t \in targets}
  BY DEF Closed
<1>. QED
  BY <1>1, <1>2 DEF DmgTargets

\* What complete observations become in the facts about the file.
LEMMA FactsOfComplete ==
  ASSUME NEW a, CompleteScanTargets(a.artifact), NEW libc
  PROVE  LET f == FactsForAsset(a, libc)  m == a.artifact
         IN /\ f.partial = m.partial /\ f.launcher = m.launcher
            /\ \/ "launcher and payload" \in f.conflicts
               \/ /\ f.targets # {} /\ Closed(f.targets)
                  /\ \A t \in f.targets : /\ a.name.ext = "appimage" => m.launcher \in {"", t.cpu}
                                          /\ \E u \in m.targets : u.os = t.os /\ u.cpu = t.cpu
<1> DEFINE n        == a.name
           m        == a.artifact
           named    == FilenameTargets(n.os, Arches(n), NamedLibc(n, libc), n.ext)
           filled   == FilledTargets(m, named, Arches(n), NamedLibc(n, libc))
           targets  == IF m.targets # {} THEN SpecificTargets(filled) ELSE IF m.partial THEN {} ELSE named
           launched == LauncherTargets(n.ext, m.launcher, targets)
           f        == FactsForAsset(a, libc)
<1>1. f.partial = m.partial /\ f.launcher = m.launcher /\ f.targets = DmgTargets(n.ext, launched)
  BY DEF FactsForAsset
<1>2. LauncherConflicts(n.ext, m.launcher, Arches(n), targets) \subseteq f.conflicts
  BY DEF FactsForAsset
<1>3. targets = SpecificTargets(filled)
  BY DEF CompleteScanTargets
<1>4. Closed(filled) /\ filled # {} /\ \A t \in filled : \E u \in m.targets : u.os = t.os /\ u.cpu = t.cpu
  BY ClosedStaysFilled
<1> HIDE DEF filled, targets, f
<1>5. targets # {} /\ targets \subseteq filled /\ Closed(targets)
  BY <1>3, <1>4, SpecificStays DEF Closed
<1>6. /\ launched \subseteq targets
      /\ \A t \in launched : n.ext = "appimage" => m.launcher \in {"", t.cpu}
      /\ launched # {} \/ "launcher and payload" \in LauncherConflicts(n.ext, m.launcher, Arches(n), targets)
  BY <1>5, ClosedStaysLaunched
<1> HIDE DEF launched
<1>7. Closed(launched)
  BY <1>5, <1>6 DEF Closed
<1>8. f.targets = launched
  BY <1>1, <1>7, ClosedIsNoGuess
<1>9. \A t \in launched : /\ n.ext = "appimage" => m.launcher \in {"", t.cpu}
                          /\ \E u \in m.targets : u.os = t.os /\ u.cpu = t.cpu
  BY <1>4, <1>5, <1>6
<1>10. launched # {} \/ "launcher and payload" \in f.conflicts
  BY <1>2, <1>6
<1>. QED
  BY <1>1, <1>7, <1>8, <1>9, <1>10 DEF f

\* Contradictions, once seen, stay.
LEMMA ConflictsStay ==
  ASSUME NEW a, NEW libc
  PROVE  a.artifact.conflicts \subseteq FactsForAsset(a, libc).conflicts
BY DEF FactsForAsset

\* A file that the scan found to be no program is none in the facts.
LEMMA RoleOfFacts ==
  ASSUME NEW a, NEW libc, a.artifact.role \in {"source", "debug", "metadata"}
  PROVE  FactsForAsset(a, libc).role = a.artifact.role
BY DEF FactsForAsset

\* The description repeats the facts.
LEMMA DescribedFields ==
  ASSUME NEW a, NEW libc
  PROVE  LET d == DescribeAsset(WithFacts(a, libc))  f == FactsForAsset(a, libc)
         IN /\ d.role = f.role /\ d.targets = f.targets /\ d.partial = f.partial
            /\ d.launcher = f.launcher /\ d.conflicts = f.conflicts
BY DEF WithFacts, DescribeAsset

\* What contradictions and files that are no programs come to.
LEMMA RefusedOutright ==
  ASSUME NEW a, NEW v, NotAProgram(a.facts) \/ a.facts.conflicts \ {FilenameConflict} # {}
  PROVE  ~Accepts(a, v)
<1>1. Vetoed(a, a.facts)
  BY DEF Vetoed
<1>2. Verdict(a, a.facts, v) # "candidate"
  <2>1. NotAProgram(a.facts) \/ a.facts.conflicts # {}
    OBVIOUS
  <2>. QED
    BY <2>1 DEF Verdict
<1>. QED
  BY <1>1, <1>2, VetoIsFinal DEF Accepts

\* A file that runs on known targets is accepted where one of them fits.
LEMMA AcceptedFits ==
  ASSUME NEW a, NEW v, Accepts(a, v), a.facts.targets # {}, \A t \in a.facts.targets : t.os # "" /\ t.cpu # ""
  PROVE  \E t \in a.facts.targets : t.os = v.os /\ (v.cpu = "" \/ t.cpu = v.cpu \/ Emulates(v.os, v.cpu, t.cpu))
<1>1. v.os \in Platforms /\ v.os # "unknown"
  BY DEF Accepts, Platforms, PlatformExts
<1>2. CASE Verdict(a, a.facts, v) = "candidate"
  <2>1. FitTargets(a.facts, v) # {}
    BY <1>2 DEF Verdict
  <2>. QED
    BY <2>1 DEF FitTargets
<1>3. CASE ValidateSelection(a, v)
  <2> DEFINE fits == {t \in a.facts.targets :
                        /\ t.os = "" \/ v.os \in {"unknown", t.os}
                        /\ v.cpu = "" \/ t.cpu \in {"", v.cpu} \/ Emulates(v.os, v.cpu, t.cpu)
                        /\ v.libc = "" \/ t.libc \in {"", v.libc, "static"}}
  <2>1. Assess(a, v).ok
    BY <1>3 DEF ValidateSelection
  <2>2. Assess(a, v).ok = (fits # {})
    <3>1. ~Vetoed(a, a.facts)
      BY <1>3, VetoIsFinal
    <3>. QED
      BY <3>1 DEF Assess
  <2>. QED
    BY <1>1, <2>1, <2>2
<1>. QED
  BY <1>2, <1>3 DEF Accepts

\* The targets of description and facts, read from observations with targets m.
ReadFrom(file, a, m) ==
  /\ a.artifact.targets # {} /\ Closed(a.artifact.targets) /\ ~a.artifact.partial
  /\ \A t \in a.artifact.targets : /\ NameOf(file).ext = "appimage" => m.launcher \in {"", t.cpu}
                                   /\ \E u \in m.targets : u.os = t.os /\ u.cpu = t.cpu
  /\ a.facts.targets # {} /\ Closed(a.facts.targets) /\ ~a.facts.partial
  /\ \A t \in a.facts.targets : \E u \in a.artifact.targets : u.os = t.os /\ u.cpu = t.cpu

\* A scan that settled a file, with nothing against the file, has found its targets,
\* and these are the ones that remain when publisher, name and description are read.
LEMMA SettledIsRead ==
  ASSUME NEW file, NEW base, NEW scan, AuthoritativeScan(scan), scan.status # "failed", NEW libc,
         ~NotAProgram(ReadTwice(file, Merged(base, scan), libc).facts),
         ReadTwice(file, Merged(base, scan), libc).facts.conflicts \subseteq {FilenameConflict}
  PROVE  /\ CompleteScanTargets(scan) /\ CompleteScanTargets(Merged(base, scan))
         /\ "publisher targets" \notin Merged(base, scan).conflicts
         /\ ReadFrom(file, ReadTwice(file, Merged(base, scan), libc), Merged(base, scan))
<1> DEFINE m1 == Merged(base, scan)
           a1 == Asset(file, m1)
           f1 == FactsForAsset(a1, libc)
           m2 == DescribeAsset(WithFacts(a1, libc))
           a2 == Asset(file, m2)
           f2 == FactsForAsset(a2, libc)
           a  == ReadTwice(file, m1, libc)
<1>1. a1.artifact = m1 /\ a2.artifact = m2 /\ a1.name = NameOf(file) /\ a2.name = NameOf(file)
  BY DEF Asset
<1>2. a.facts = f2 /\ a.artifact = m2
  <2>1. a = WithFacts(a2, libc)
    BY DEF ReadTwice, Read
  <2> HIDE DEF a, a2
  <2>. QED
    BY <1>1, <2>1 DEF WithFacts
<1>3. m2.role = f1.role /\ m2.targets = f1.targets /\ m2.partial = f1.partial /\ m2.launcher = f1.launcher /\ m2.conflicts = f1.conflicts
  BY DescribedFields
<1>4. m1.conflicts \subseteq f1.conflicts /\ m2.conflicts \subseteq f2.conflicts
  <2> HIDE DEF m1, a1, m2, a2
  <2>. QED
    BY <1>1, ConflictsStay
<1>5. ~NotAProgram(f2) /\ f2.conflicts \subseteq {FilenameConflict}
  BY <1>2 DEF a, m1
<1> HIDE DEF m1, a1, m2, a2, a, f1, f2
<1>6. /\ "publisher role" \notin m1.conflicts /\ "publisher targets" \notin m1.conflicts
      /\ "launcher and payload" \notin f1.conflicts /\ "launcher and payload" \notin f2.conflicts
  <2>1. f1.conflicts \subseteq {FilenameConflict} /\ m1.conflicts \subseteq {FilenameConflict}
    BY <1>3, <1>4, <1>5, Zenon
  <2>2. FilenameConflict \notin {"publisher role", "publisher targets", "launcher and payload"}
    BY DEF FilenameConflict
  <2>. QED
    BY <1>5, <2>1, <2>2
<1>7. CASE scan.role \in {"source", "metadata", "debug"}
  <2>1. m1.role = scan.role
    <3>1. IsNoProgram(scan)
      BY <1>7 DEF IsNoProgram
    <3>. QED
      BY <1>6, <3>1, MergedRole DEF m1
  <2>2. f1.role = scan.role
    BY <1>1, <1>7, <2>1, RoleOfFacts DEF f1
  <2>3. f2.role = scan.role
    BY <1>1, <1>3, <1>7, <2>2, RoleOfFacts DEF f2
  <2>. QED
    BY <1>5, <1>7, <2>3 DEF NotAProgram
<1>8. CASE CompleteScanTargets(scan)
  <2>1. CompleteScanTargets(m1)
    BY <1>6, <1>8, MergedTargets DEF m1
  <2>2. /\ f1.partial = m1.partial /\ f1.targets # {} /\ Closed(f1.targets)
        /\ \A t \in f1.targets : /\ NameOf(file).ext = "appimage" => m1.launcher \in {"", t.cpu}
                                 /\ \E u \in m1.targets : u.os = t.os /\ u.cpu = t.cpu
    BY <1>1, <1>6, <2>1, FactsOfComplete DEF f1
  <2>3. CompleteScanTargets(m2)
    BY <1>3, <2>1, <2>2 DEF CompleteScanTargets, Closed
  <2>4. /\ f2.partial = m2.partial /\ f2.targets # {} /\ Closed(f2.targets)
        /\ \A t \in f2.targets : \E u \in m2.targets : u.os = t.os /\ u.cpu = t.cpu
    BY <1>1, <1>6, <2>3, FactsOfComplete DEF f2
  <2>5. ~m2.partial
    BY <2>3 DEF CompleteScanTargets
  <2>6. ReadFrom(file, a, m1)
    BY <1>2, <1>3, <2>2, <2>4, <2>5 DEF ReadFrom
  <2>. QED
    BY <1>6, <1>8, <2>1, <2>6 DEF a, m1
<1>. QED
  BY <1>7, <1>8 DEF AuthoritativeScan

\* What a truthful scan settled is accepted only where the file runs, whatever the
\* publisher and the name say, and whether the rules or the guard accept it.
LEMMA SettledMeansRuns ==
  ASSUME NEW file, NEW base, NEW scan, AuthoritativeScan(scan), scan.status # "failed", Tells(file, scan),
         NEW libc, NEW v, Accepts(ReadTwice(file, Merged(base, scan), libc), v)
  PROVE  RunsFor(file, v)
<1> DEFINE m == Merged(base, scan)
           a == ReadTwice(file, m, libc)
<1>1. ~NotAProgram(a.facts) /\ a.facts.conflicts \subseteq {FilenameConflict}
  <2> HIDE DEF a
  <2>1. Accepts(a, v)
    BY DEF a
  <2>. QED
    BY <2>1, RefusedOutright
<1>2. CompleteScanTargets(scan) /\ "publisher targets" \notin m.conflicts /\ ReadFrom(file, a, m)
  BY <1>1, SettledIsRead
<1>3. Tells(file, m)
  BY <1>2, MergedTells
<1> HIDE DEF m, a
<1>4. \A t \in a.artifact.targets : [os |-> t.os, cpu |-> t.cpu] \in RunsOn(file)
  <2>1. SUFFICES ASSUME NEW t \in a.artifact.targets PROVE [os |-> t.os, cpu |-> t.cpu] \in RunsOn(file)
    OBVIOUS
  <2>2. PICK u \in m.targets : u.os = t.os /\ u.cpu = t.cpu
    BY <1>2 DEF ReadFrom
  <2>3. [os |-> u.os, cpu |-> u.cpu] \in RunsOn(file)
    BY <1>2, <1>3, <2>1, <2>2 DEF Tells, ReadFrom
  <2>. QED
    BY <2>2, <2>3
<1>5. PICK t \in a.facts.targets : t.os = v.os /\ (v.cpu = "" \/ t.cpu = v.cpu \/ Emulates(v.os, v.cpu, t.cpu))
  <2>1. Accepts(a, v) /\ a.facts.targets # {} /\ \A t \in a.facts.targets : t.os # "" /\ t.cpu # ""
    BY <1>2 DEF a, m, ReadFrom, Closed
  <2>. QED
    BY <2>1, AcceptedFits
<1>6. PICK u \in a.artifact.targets : u.os = t.os /\ u.cpu = t.cpu
  BY <1>2 DEF ReadFrom
<1>. QED
  BY <1>4, <1>5, <1>6 DEF RunsFor

-----------------------------------------------------------------------------
(* Its invariant: the saved scans that a request read told the truth *)

\* The full scans that a request goes by are true.
ReadScansTell(r) ==
  \A i \in DOMAIN r.files : Settled(r, i) /\ Deep(r.files[i]).status # "failed" => Tells(r.files[i], Deep(r.files[i]))

\* So are those of the answer.
ScansTellInv ==
  /\ req.kind # "idle" => ReadScansTell(req)
  /\ Answered => ReadScansTell(answer.req)

\* A probe changes neither the files nor the scans of a request, nor does its deadline.
LEMMA SameScans ==
  ASSUME NEW r, NEW q, q.files = r.files, q.records = r.records
  PROVE  ReadScansTell(q) <=> ReadScansTell(r)
BY DEF ReadScansTell, Settled

\* Whether the scans that a request reads are true is a matter of the release.
LEMMA ScansStay ==
  ASSUME release' = release, NEW r, ReadScansTell(r)
  PROVE  ReadScansTell(r)'
<1>1. \A file : NameOf(file)' = NameOf(file) /\ Deep(file)' = Deep(file) /\ RunsOn(file)' = RunsOn(file)
  BY DEF NameOf, Deep, RunsOn
<1>. QED
  BY <1>1 DEF ReadScansTell, Settled, Tells

\* A request reads scans of the files it knows, finished ones, so those of NothingButTheMain.
LEMMA AskedTells ==
  ASSUME PlacesInv, NothingButTheMain, NEW kind, NEW v, NEW pin, Ask(kind, v, pin)
  PROVE  ReadScansTell(req')
<1>1. PICK facts, records : /\ LET r == NewRequest(kind, v, pin, facts, records) IN req' = [r EXCEPT !.rank = ProbeRanks(r)]
                            /\ \A i \in Places : records[i] => scans[i].file = known[i] /\ scans[i].state = "done"
  BY AskedRequest
<1> DEFINE r == NewRequest(kind, v, pin, facts, records)
           rank == ProbeRanks(r)
           q == [r EXCEPT !.rank = rank]
<1> HIDE DEF rank
<1>2. q.files = known /\ q.records = records
  BY DEF NewRequest
<1>3. req' = q
  BY <1>1 DEF rank
<1> HIDE DEF r, q
<1>4. ASSUME NEW i \in DOMAIN known, Settled(q, i), Deep(known[i]).status # "failed"
      PROVE  Tells(known[i], Deep(known[i]))
  <2>1. scans[i].file = known[i] /\ scans[i].state = "done" /\ AuthoritativeScan(Deep(known[i]))
    BY <1>1, <1>2, <1>4 DEF Settled, Places
  <2>. QED
    BY <1>4, <2>1 DEF NothingButTheMain, Tells, Places
<1>5. ReadScansTell(q)
  BY <1>2, <1>4 DEF ReadScansTell
<1>. QED
  BY <1>3, <1>5

\* An answer carries the request it answers.
LEMMA AnswersTheRequest ==
  ASSUME Answer \/ AnswerPage
  PROVE  answer'.req = req
<1>1. CASE Answer
  <2>1. PICK libc, c :
          answer' = [kind |-> req.kind, req |-> req, how |-> c.how, status |-> c.d.status,
                     served |-> IF ShouldAutoSelect(c.d) THEN {[v |-> req.v, place |-> c.d.asset]} ELSE {}]
    BY <1>1 DEF Answer
  <2>. QED
    BY <2>1
<1>2. CASE AnswerPage
  <2>1. PICK libc : answer' = [kind |-> "page", req |-> req, how |-> "rules", status |-> "",
                               served |-> PagePicks(Described(req, libc))]
    BY <1>2 DEF AnswerPage
  <2>. QED
    BY <2>1
<1>. QED
  BY <1>1, <1>2

\* Every step keeps that the scans that were read are true.
LEMMA ScansTellStep == AcceptedInv /\ NothingButTheMain /\ ScansTellInv /\ [Next]_vars => ScansTellInv'
<1>. SUFFICES ASSUME AcceptedInv, NothingButTheMain, ScansTellInv, [Next]_vars PROVE ScansTellInv'
  OBVIOUS
<1>1. release' = release
  BY PlacesAreKept DEF AcceptedInv
<1> DEFINE ReqTells    == req.kind # "idle" => ReadScansTell(req)
           AnswerTells == Answered => ReadScansTell(answer.req)
<1>. SUFFICES ReqTells' /\ AnswerTells'
  BY DEF ScansTellInv
<1>2. ASSUME ReadScansTell(req') PROVE ReqTells'
  BY <1>1, <1>2, ScansStay
<1>3. ASSUME req' = req \/ req' = Idle PROVE ReqTells'
  BY <1>1, <1>3, ScansStay DEF ScansTellInv, Idle
<1>4. ASSUME answer' = answer \/ answer' = NoAnswer PROVE AnswerTells'
  BY <1>1, <1>4, ScansStay DEF ScansTellInv, Answered
<1>5. ASSUME req.kind # "idle", answer'.req = req PROVE AnswerTells'
  BY <1>1, <1>5, ScansStay DEF ScansTellInv
<1>6. ASSUME NEW kind, NEW v, NEW pin \in {NoPin} \cup Places, Ask(kind, v, pin)
      PROVE  ReqTells' /\ AnswerTells'
  <2>1. ReadScansTell(req')
    BY <1>6, AskedTells DEF AcceptedInv
  <2>2. answer' = answer
    BY <1>6 DEF Ask
  <2>. QED
    BY <1>2, <1>4, <2>1, <2>2
<1>7. ASSUME NEW i \in Places, ProbeCached(i) \/ ProbePasses(i) \/ ProbeReads(i) \/ ProbeFails(i)
      PROVE  ReqTells' /\ AnswerTells'
  <2>1. Probing(i) /\ answer' = answer /\ \E got, live : Probed(i, got, live)
    BY <1>7 DEF ProbeCached, ProbePasses, ProbeReads, ProbeFails
  <2>2. DOMAIN req = RequestFields /\ ReadScansTell(req)
    BY <2>1 DEF Probing, AcceptedInv, WellAsked, ScansTellInv
  <2>3. req'.files = req.files /\ req'.records = req.records
    BY <2>1, <2>2 DEF Probed, RequestFields
  <2>4. ReadScansTell(req')
    BY <2>2, <2>3, SameScans
  <2>. QED
    BY <1>2, <1>4, <2>1, <2>4
<1>8. CASE Deadline
  <2>1. DOMAIN req = RequestFields /\ ReadScansTell(req) /\ answer' = answer
    BY <1>8 DEF Deadline, AcceptedInv, WellAsked, ScansTellInv
  <2>2. req'.files = req.files /\ req'.records = req.records
    BY <1>8, <2>1 DEF Deadline, RequestFields
  <2>3. ReadScansTell(req')
    BY <2>1, <2>2, SameScans
  <2>. QED
    BY <1>2, <1>4, <2>1, <2>3
<1>9. CASE Answer \/ AnswerPage
  <2>1. req.kind # "idle" /\ req' = Idle
    BY <1>9 DEF Answer, AnswerPage
  <2>2. answer'.req = req
    BY <1>9, AnswersTheRequest
  <2>. QED
    BY <1>3, <1>5, <2>1, <2>2
<1>10. CASE Leave
  BY <1>3, <1>4, <1>10 DEF Leave
<1>11. ASSUME NEW i, ScanCompletes(i) \/ Reupload(i) \/ CacheExpires(i) \/ OfferExpires(i)
       PROVE  ReqTells' /\ AnswerTells'
  BY <1>3, <1>4, <1>11 DEF ScanCompletes, Reupload, CacheExpires, OfferExpires
<1>12. CASE ManifestExpires \/ RefreshRelease \/ UNCHANGED vars
  BY <1>3, <1>4, <1>12 DEF ManifestExpires, RefreshRelease, vars
<1>. QED
  <2> HIDE DEF ReqTells, AnswerTells
  <2>. QED
  BY <1>6, <1>7, <1>8, <1>9, <1>10, <1>11, <1>12 DEF Next

\* What is served on a settled scan was accepted on its targets, which are true.
LEMMA ScannedMeansRuns == AcceptedInv /\ ScansTellInv => ScannedRuns
<1>1. SUFFICES ASSUME AcceptedInv, ScansTellInv, Answered, NEW s \in answer.served, Settled(answer.req, s.place)
               PROVE  RunsFor(answer.req.files[s.place], s.v)
  BY DEF ScannedRuns
<1> DEFINE r    == answer.req
           file == r.files[s.place]
           base == Published(file, r.facts)
<1>2. PICK libc \in Libcs : Accepts(Enriched(r, s.place, libc), s.v)
  BY <1>1 DEF AcceptedInv, ServedInv
<1>3. s.place \in DOMAIN r.files /\ r.records[s.place] /\ AuthoritativeScan(Deep(file))
  BY <1>1 DEF AcceptedInv, ServedInv, Settled
<1>4. Deep(file).status # "failed"
  BY <1>1, <1>3, AcceptedMeansNotBroken DEF BrokenNeverServed
<1>5. Tells(file, Deep(file))
  BY <1>1, <1>3, <1>4 DEF ScansTellInv, ReadScansTell
<1>6. Enriched(r, s.place, libc) = ReadTwice(file, Merged(base, Deep(file)), libc)
  <2>1. Seen(r, s.place) = Merged(base, Deep(file))
    BY <1>1 DEF Seen
  <2>. QED
    BY <2>1, EnrichedIsReadTwice
<1> HIDE DEF file, base
<1>7. RunsFor(file, s.v)
  BY <1>2, <1>3, <1>4, <1>5, <1>6, SettledMeansRuns
<1>. QED
  BY <1>7 DEF file

\* artifact_facts.go, classify.go, decide.go: as long as what the full scans say of the
\* main programs is true, a file that such a scan settled goes only to visitors for
\* whom it runs, whatever name, publisher, probes and model say.
THEOREM ScannedFilesRun == Spec /\ []NothingButTheMain => []ScannedRuns
<1>1. Init => ScansTellInv
  BY DEF Init, ScansTellInv, Idle, Answered
<1>2. Spec => []AcceptedInv
  BY ServedWasAccepted
<1>. QED
  BY <1>1, <1>2, ScansTellStep, ScannedMeansRuns, PTL DEF Spec

-----------------------------------------------------------------------------
(* An offer of Jev's stands while the evidence does *)

\* Seen, from the evidence that an offer carries.
SeenIn(file, e) ==
  LET base   == Published(file, e.facts)
      probed == CASE e.got = "content" -> Merged(base, Shallow(file))
                  [] e.got = "broken" -> Merged(base, [NoFact EXCEPT !.status = "failed"])
                  [] OTHER -> base
  IN IF e.record /\ AuthoritativeScan(Deep(file)) THEN Merged(base, Deep(file))
     ELSE IF e.record THEN AppendScanEvidence(probed, Deep(file))
     ELSE probed

\* What a request knows of a file is what the evidence in an offer would tell.
LEMMA SeenByEvidence ==
  ASSUME NEW r, NEW i
  PROVE  Seen(r, i) = SeenIn(r.files[i], Evidence(r, i))
<1> DEFINE e == Evidence(r, i)
<1>1. e.facts = r.facts /\ e.record = r.records[i] /\ e.got = r.got[i]
  BY DEF Evidence
<1> HIDE DEF e
<1>2. Seen(r, i) = SeenIn(r.files[i], e)
  BY <1>1 DEF Seen, SeenIn, Settled
<1>. QED
  BY <1>2 DEF e

\* As long as the release is the same, evidence tells the same.
LEMMA SameSeen ==
  ASSUME release' = release, NEW file, NEW e
  PROVE  SeenIn(file, e)' = SeenIn(file, e)
BY SameFiles DEF SeenIn

\* Only a name of gnu and static alike leaves the reading open.
LEMMA ReadAlike ==
  ASSUME NEW file, NEW m, NEW l1, NEW l2, NameOf(file).libc # {"gnu", "static"}
  PROVE  ReadTwice(file, m, l1) = ReadTwice(file, m, l2)
<1>1. NamedLibc(NameOf(file), l1) = NamedLibc(NameOf(file), l2)
  BY DEF NamedLibc
<1>2. ASSUME NEW a, a.name = NameOf(file)
      PROVE  WithFacts(a, l1) = WithFacts(a, l2)
  <2>1. FactsForAsset(a, l1) = FactsForAsset(a, l2)
    BY <1>1, <1>2 DEF FactsForAsset
  <2>. QED
    BY <2>1 DEF WithFacts
<1>3. \A x : Read(file, x, l1) = Read(file, x, l2)
  <2>1. ASSUME NEW x PROVE Read(file, x, l1) = Read(file, x, l2)
    <3>1. PICK a : a = Asset(file, x)
      OBVIOUS
    <3>2. a.name = NameOf(file)
      BY <3>1 DEF Asset
    <3>3. WithFacts(a, l1) = WithFacts(a, l2)
      BY <1>2, <3>2
    <3>. QED
      BY <3>1, <3>3 DEF Read
  <2>. QED
    BY <2>1
<1>. QED
  BY <1>3 DEF ReadTwice

\* The gate's answer is one of three degrees of confidence.
LEMMA GateConfidence ==
  ASSUME NEW f, NEW chosenP, NEW fitP0, NEW tier, NEW v
  PROVE  Gate(f, chosenP, fitP0, tier, v) \in {"low", "medium", "high"}
<1> DEFINE levels == {"low", "medium", "high"}
<1>1. ASSUME NEW conf \in levels, NEW ceiling \in levels PROVE Cap(conf, ceiling) \in levels
  BY DEF Cap
<1> DEFINE fitP   == IF f.osProven /\ (f.cpuProven \/ f.emulated) THEN 100 ELSE fitP0
           base   == IF chosenP >= 80 /\ fitP >= 80 THEN "high"
                     ELSE IF chosenP >= 50 /\ fitP >= 50 THEN "medium" ELSE "low"
           byTier == CASE tier = TierMaybe -> Cap(base, "low") [] tier = TierEmulated -> Cap(base, "medium") [] OTHER -> base
           byOS   == IF f.osProven THEN byTier ELSE Cap(byTier, "medium")
           byLibc == IF f.libcProven THEN byOS ELSE IF v.libc = "gnu" THEN Cap(byOS, "medium") ELSE Cap(byOS, "low")
<1>2. base \in levels
  OBVIOUS
<1> HIDE DEF base
<1>3. byTier \in levels
  <2>1. TierMaybe # TierEmulated
    BY DEF TierMaybe, TierEmulated
  <2>. QED
    BY <1>1, <1>2, <2>1
<1> HIDE DEF byTier
<1>4. byOS \in levels
  BY <1>1, <1>3
<1> HIDE DEF byOS
<1>5. byLibc \in levels
  BY <1>1, <1>4
<1> HIDE DEF byLibc
<1>6. Gate(f, chosenP, fitP0, tier, v) = IF v.cpu = "" \/ f.emulated \/ ~f.cpuProven THEN Cap(byLibc, "medium") ELSE byLibc
  BY DEF Gate, byLibc, byOS, byTier, base
<1>. QED
  BY <1>1, <1>5, <1>6

\* What Jev decides and the visitor is given, the guard let pass, with some confidence.
LEMMA JevIsConfident ==
  ASSUME NEW assets, NEW v, NEW attrs,
         NEW ch \in ChoicesAmong(Runnable(Judged(assets, v, attrs))),
         ShouldAutoSelect(JevDecision(assets, v, attrs, ch))
  PROVE  /\ JevDecision(assets, v, attrs, ch).confidence \in {"medium", "high"}
         /\ ValidateSelection(assets[JevDecision(assets, v, attrs, ch).asset], v)
<1> DEFINE d == JevDecision(assets, v, attrs, ch)
           judged == Judged(assets, v, attrs)
<1>1. d.asset # NoAsset /\ d.confidence # "low"
  BY DEF ShouldAutoSelect
<1>2. d.asset \in Candidates(assets, v)
  BY <1>1, JevNamesACandidate
<1>3. d = GatedChoice(assets, v, judged, ch)
  BY <1>1 DEF JevDecision, Immediate, Abstain
<1>4. GatedChoice(assets, v, judged, ch).asset # NoAsset
  BY <1>1, <1>3
<1> HIDE DEF judged, d
<1>5. \E f, chosenP, fitP0, tier : GatedChoice(assets, v, judged, ch).confidence = Gate(f, chosenP, fitP0, tier, v)
  BY <1>4 DEF GatedChoice, Abstain
<1>6. d.confidence \in {"low", "medium", "high"}
  BY <1>3, <1>5, GateConfidence
<1>. QED
  BY <1>1, <1>2, <1>6, CandidatesAreValid DEF d

\* Jev decides only as the primary, with confidence, and only for a file that is valid.
LEMMA JevDecides ==
  ASSUME NEW r, NEW assets, NEW c \in Decisions(r, assets), c.how = "jev", r.pin = NoPin, ShouldAutoSelect(c.d)
  PROVE  primary /\ c.d.confidence \in {"medium", "high"} /\ ValidateSelection(assets[c.d.asset], r.v)
<1> DEFINE choices(attrs) == ChoicesAmong(Runnable(Judged(assets, r.v, attrs)))
           ids   == {r.files[i] : i \in DOMAIN r.files}
           byJev == UNION {{JevDecision(assets, r.v, attrs, ch) : ch \in choices(attrs)} : attrs \in [ids -> AttrOptions]}
<1>1. \/ c \in {[d |-> [status |-> "selected", asset |-> r.pin, confidence |-> o.confidence], how |-> "offer"] :
                  o \in OfferedDownload(r, assets)}
      \/ c \in {[d |-> RuleDecision(r, assets), how |-> "rules"]}
      \/ primary /\ c \in {[d |-> PinChecked(r, assets, d), how |-> "jev"] : d \in byJev}
  BY Zenon DEF Decisions
<1>2. primary /\ c \in {[d |-> PinChecked(r, assets, d), how |-> "jev"] : d \in byJev}
  <2> HIDE DEF byJev
  <2>. QED
    BY <1>1
<1>3. PICK d \in byJev : c.d = PinChecked(r, assets, d)
  <2> HIDE DEF byJev
  <2>. QED
    BY <1>2
<1>4. c.d = d
  BY <1>3 DEF PinChecked
<1>5. PICK attrs : \E ch \in choices(attrs) : d = JevDecision(assets, r.v, attrs, ch)
  BY <1>3
<1>6. PICK ch \in choices(attrs) : d = JevDecision(assets, r.v, attrs, ch)
  BY <1>5
<1>7. JevDecision(assets, r.v, attrs, ch).confidence \in {"medium", "high"}
      /\ ValidateSelection(assets[JevDecision(assets, r.v, attrs, ch).asset], r.v)
  BY <1>4, <1>6, JevIsConfident
<1>. QED
  BY <1>2, <1>4, <1>6, <1>7

\* The guard let an offer of Jev's pass on the evidence that it carries.
Earned(o) ==
  o.how = "jev" => /\ primary
                   /\ o.confidence \in {"medium", "high"}
                   /\ \E libc \in Libcs : ValidateSelection(ReadTwice(o.file, SeenIn(o.file, o.seen), libc), o.v)

\* Until an answer is taken nothing is asked.
OffersInv ==
  /\ \A o \in offers : Earned(o)
  /\ Answered => req.kind = "idle"
  /\ OfferStands

\* An earned offer stays earned as long as the release and the configuration are the same.
LEMMA EarnedStays ==
  ASSUME release' = release, primary' = primary, NEW o, Earned(o)
  PROVE  Earned(o)'
<1>1. CASE o.how # "jev"
  BY <1>1 DEF Earned
<1>2. CASE o.how = "jev"
  <2>1. PICK libc \in Libcs : ValidateSelection(ReadTwice(o.file, SeenIn(o.file, o.seen), libc), o.v)
    BY <1>2 DEF Earned
  <2>2. SeenIn(o.file, o.seen)' = SeenIn(o.file, o.seen)
    BY SameSeen
  <2>3. ReadTwice(o.file, SeenIn(o.file, o.seen), libc)' = ReadTwice(o.file, SeenIn(o.file, o.seen), libc)
    <3> DEFINE m == SeenIn(o.file, o.seen)
    <3>1. \A x : ReadTwice(o.file, x, libc)' = ReadTwice(o.file, x, libc)
      BY SameFiles
    <3>. QED
      BY <2>2, <3>1
  <2>. QED
    BY <1>2, <2>1, <2>3 DEF Earned
<1>. QED
  BY <1>1, <1>2

\* What is remembered of a decision of Jev's is what the guard has let pass.
LEMMA NewOfferIsEarned ==
  ASSUME NEW libc \in Libcs, NEW c \in Decisions(req, Described(req, libc)),
         req.pin = NoPin, ShouldAutoSelect(c.d), c.d.asset \in DOMAIN req.files
  PROVE  Earned([v |-> req.v, file |-> req.files[c.d.asset], confidence |-> c.d.confidence,
                 how |-> c.how, seen |-> Evidence(req, c.d.asset)])
<1> DEFINE i == c.d.asset
           o == [v |-> req.v, file |-> req.files[i], confidence |-> c.d.confidence, how |-> c.how, seen |-> Evidence(req, i)]
<1>1. o.v = req.v /\ o.file = req.files[i] /\ o.confidence = c.d.confidence /\ o.how = c.how /\ o.seen = Evidence(req, i)
  OBVIOUS
<1> HIDE DEF o
<1>2. ASSUME o.how = "jev"
      PROVE  primary /\ o.confidence \in {"medium", "high"} /\ ValidateSelection(ReadTwice(o.file, SeenIn(o.file, o.seen), libc), o.v)
  <2>1. primary /\ c.d.confidence \in {"medium", "high"} /\ ValidateSelection(Described(req, libc)[i], req.v)
    BY <1>1, <1>2, JevDecides
  <2>2. Described(req, libc)[i] = Enriched(req, i, libc)
    BY DEF Described
  <2>3. Enriched(req, i, libc) = ReadTwice(req.files[i], SeenIn(req.files[i], Evidence(req, i)), libc)
    BY EnrichedIsReadTwice, SeenByEvidence
  <2>. QED
    BY <1>1, <2>1, <2>2, <2>3
<1>3. Earned(o)
  BY <1>2 DEF Earned
<1>. QED
  BY <1>3 DEF o

\* A click on what Jev offered finds the offer again, on the same evidence.
LEMMA EarnedIsHonoured ==
  ASSUME WellAsked(req), req.pin # NoPin, NEW libc, NEW c \in Decisions(req, Described(req, libc)),
         NEW o \in Live(req.v, req.files[req.pin]), Earned(o),
         o.how = "jev", o.seen = Evidence(req, req.pin), NameOf(o.file).libc # {"gnu", "static"}
  PROVE  ShouldAutoSelect(c.d) /\ c.d.asset = req.pin
<1> DEFINE assets == Described(req, libc)
           byOffer(x) == [status |-> "selected", asset |-> req.pin, confidence |-> x.confidence]
<1>1. o \in offers /\ o.v = req.v /\ o.file = req.files[req.pin]
  BY DEF Live
<1>2. PICK first \in Libcs : ValidateSelection(ReadTwice(o.file, SeenIn(o.file, o.seen), first), o.v)
  BY DEF Earned
<1>3. ReadTwice(o.file, SeenIn(o.file, o.seen), first) = ReadTwice(o.file, SeenIn(o.file, o.seen), libc)
  BY ReadAlike
<1>4. assets[req.pin] = ReadTwice(o.file, SeenIn(o.file, o.seen), libc)
  <2>1. assets[req.pin] = Enriched(req, req.pin, libc)
    BY DEF Described, WellAsked
  <2>. QED
    BY <1>1, <2>1, EnrichedIsReadTwice, SeenByEvidence
<1>5. ValidateSelection(assets[req.pin], req.v)
  BY <1>1, <1>2, <1>3, <1>4
<1> HIDE DEF assets
<1>6. o \in OfferedDownload(req, assets)
  BY <1>5 DEF OfferedDownload, Earned
<1>7. primary
  BY DEF Earned
<1>8. c \in {[d |-> byOffer(x), how |-> "offer"] : x \in OfferedDownload(req, assets)}
  <2>1. Decisions(req, assets) = {[d |-> byOffer(x), how |-> "offer"] : x \in OfferedDownload(req, assets)}
    BY <1>6, <1>7, Zenon DEF Decisions
  <2>. QED
    BY <2>1 DEF assets
<1>9. PICK x \in OfferedDownload(req, assets) : c.d = byOffer(x)
  BY <1>8
<1>10. x.confidence \in {"medium", "high"}
  BY <1>9 DEF OfferedDownload
<1>. QED
  BY <1>9, <1>10 DEF ShouldAutoSelect, NoAsset, NoPin

\* An answer remembers earned offers, and a click on an older one honours it.
LEMMA AnswerKeepsOffers ==
  ASSUME AcceptedInv, OffersInv, Answer
  PROVE  OffersInv'
<1>1. release' = release /\ primary' = primary /\ req' = Idle /\ WellAsked(req)
  BY DEF Answer, AcceptedInv
<1>2. PICK libc \in Libcs : \E c \in Decisions(req, Described(req, libc)) :
        LET served == ShouldAutoSelect(c.d)
            offer  == [v |-> req.v, file |-> req.files[c.d.asset], confidence |-> c.d.confidence,
                       how |-> c.how, seen |-> Evidence(req, c.d.asset)]
        IN /\ answer' = [kind |-> req.kind, req |-> req, how |-> c.how, status |-> c.d.status,
                         served |-> IF served THEN {[v |-> req.v, place |-> c.d.asset]} ELSE {}]
           /\ offers' = IF req.kind = "link" /\ primary /\ req.pin = NoPin /\ served
                        THEN (offers \ Live(offer.v, offer.file)) \cup {offer} ELSE offers
  BY DEF Answer
<1>3. PICK c \in Decisions(req, Described(req, libc)) :
        LET served == ShouldAutoSelect(c.d)
            offer  == [v |-> req.v, file |-> req.files[c.d.asset], confidence |-> c.d.confidence,
                       how |-> c.how, seen |-> Evidence(req, c.d.asset)]
        IN /\ answer' = [kind |-> req.kind, req |-> req, how |-> c.how, status |-> c.d.status,
                         served |-> IF served THEN {[v |-> req.v, place |-> c.d.asset]} ELSE {}]
           /\ offers' = IF req.kind = "link" /\ primary /\ req.pin = NoPin /\ served
                        THEN (offers \ Live(offer.v, offer.file)) \cup {offer} ELSE offers
  BY <1>2
<1> DEFINE served == ShouldAutoSelect(c.d)
           offer  == [v |-> req.v, file |-> req.files[c.d.asset], confidence |-> c.d.confidence,
                      how |-> c.how, seen |-> Evidence(req, c.d.asset)]
<1>4. /\ answer'.kind = req.kind /\ answer'.req = req
      /\ answer'.served = IF served THEN {[v |-> req.v, place |-> c.d.asset]} ELSE {}
  BY <1>3
<1>5. \/ offers' = offers
      \/ req.kind = "link" /\ req.pin = NoPin /\ served /\ offers' \subseteq offers \cup {offer}
  BY <1>3
<1>6. \A o \in offers' : Earned(o)
  <2>1. CASE offers' = offers
    BY <2>1 DEF OffersInv
  <2>2. CASE req.pin = NoPin /\ served /\ offers' \subseteq offers \cup {offer}
    <3>1. c.d.asset \in DOMAIN req.files
      <4>1. /\ Knows(Described(req, libc)) /\ DOMAIN Described(req, libc) = DOMAIN req.files
            /\ req.pin \in {NoPin} \cup DOMAIN Described(req, libc)
        BY <1>1, DescribedKnows DEF AcceptedInv, WellAsked
      <4>. QED
        BY <2>2, <4>1, DecisionsAccept DEF AcceptedInv
    <3>2. Earned(offer)
      BY <2>2, <3>1, NewOfferIsEarned
    <3> HIDE DEF offer
    <3>. QED
      BY <2>2, <3>2 DEF OffersInv
  <2>. QED
    BY <1>5, <2>1, <2>2
<1>7. (\A o \in offers : Earned(o))'
  BY <1>1, <1>6, EarnedStays
<1>8. OfferStands'
  <2>1. SUFFICES ASSUME answer'.kind = "click", answer'.req.pin # NoPin, NEW o \in offers',
                        o.v = answer'.req.v, o.file = answer'.req.files[answer'.req.pin],
                        o.how = "jev", o.seen = Evidence(answer'.req, answer'.req.pin),
                        release'.contents[o.file].name.libc # {"gnu", "static"}
                 PROVE  answer'.served = {[v |-> o.v, place |-> answer'.req.pin]}
    BY DEF OfferStands, Live, NameOf, Evidence
  <2>2. req.kind = "click" /\ req.pin # NoPin /\ o.seen = Evidence(req, req.pin) /\ NameOf(o.file).libc # {"gnu", "static"}
    BY <1>1, <1>4, <2>1 DEF NameOf
  <2>3. o \in Live(req.v, req.files[req.pin])
    <3>1. offers' = offers
      BY <1>5, <2>2
    <3>. QED
      BY <1>4, <2>1, <3>1 DEF Live
  <2>4. Earned(o) /\ o.v = req.v
    BY <2>3 DEF OffersInv, Live
  <2>5. served /\ c.d.asset = req.pin
    BY <1>1, <2>1, <2>2, <2>3, <2>4, EarnedIsHonoured
  <2>. QED
    BY <1>4, <2>4, <2>5
<1>. QED
  BY <1>1, <1>7, <1>8 DEF OffersInv, Idle

\* Whatever else happens, no offer is made, and none is lost while an answer is read.
LEMMA OthersKeepOffers ==
  ASSUME OffersInv, release' = release, primary' = primary, offers' \subseteq offers,
         \/ ~Answered'
         \/ offers' = offers /\ answer' = answer /\ req' = req
  PROVE  OffersInv'
<1>1. (\A o \in offers : Earned(o))'
  <2>1. \A o \in offers' : Earned(o)
    BY DEF OffersInv
  <2>. QED
    BY <2>1, EarnedStays
<1>2. CASE ~Answered'
  BY <1>1, <1>2 DEF OffersInv, OfferStands
<1>3. CASE offers' = offers /\ answer' = answer /\ req' = req
  <2>1. OfferStands' /\ (Answered => req.kind = "idle")'
    BY <1>3 DEF OffersInv, OfferStands, Answered, Live, NameOf, Evidence
  <2>. QED
    BY <1>1, <2>1 DEF OffersInv
<1>. QED
  BY <1>2, <1>3

\* Every step keeps that offers are earned and stand.
LEMMA OffersStep == AcceptedInv /\ OffersInv /\ [Next]_vars => OffersInv'
<1>. SUFFICES ASSUME AcceptedInv, OffersInv, [Next]_vars PROVE OffersInv'
  OBVIOUS
<1>1. release' = release /\ primary' = primary
  BY DEF Next, vars, Ask, ProbeCached, ProbePasses, ProbeReads, ProbeFails, Deadline, Answer, AnswerPage, Leave,
         ScanCompletes, Reupload, CacheExpires, OfferExpires, ManifestExpires, RefreshRelease
<1>2. ASSUME ~Answered, answer' = answer, offers' \subseteq offers PROVE OffersInv'
  BY <1>1, <1>2, OthersKeepOffers DEF Answered
<1>3. req.kind # "idle" => ~Answered
  BY DEF OffersInv
<1>4. ASSUME NEW kind, NEW v, NEW pin, Ask(kind, v, pin) PROVE OffersInv'
  BY <1>2, <1>4 DEF Ask
<1>5. ASSUME NEW i \in Places, ProbeCached(i) \/ ProbePasses(i) \/ ProbeReads(i) \/ ProbeFails(i) PROVE OffersInv'
  BY <1>2, <1>3, <1>5 DEF ProbeCached, ProbePasses, ProbeReads, ProbeFails, Probing
<1>6. CASE Deadline
  BY <1>2, <1>3, <1>6 DEF Deadline
<1>7. CASE Answer
  BY <1>7, AnswerKeepsOffers
<1>8. CASE AnswerPage
  <2>1. answer'.kind = "page"
    <3>1. PICK libc : answer' = [kind |-> "page", req |-> req, how |-> "rules", status |-> "",
                                 served |-> PagePicks(Described(req, libc))]
      BY <1>8 DEF AnswerPage
    <3>. QED
      BY <3>1
  <2>2. offers' = offers /\ req' = Idle
    BY <1>8 DEF AnswerPage
  <2>3. (\A o \in offers : Earned(o))'
    BY <1>1, <2>2, EarnedStays DEF OffersInv
  <2>. QED
    BY <2>1, <2>2, <2>3 DEF OffersInv, OfferStands, Idle
<1>9. CASE Leave
  BY <1>1, <1>9, OthersKeepOffers DEF Leave, Answered
<1>10. ASSUME NEW i, ScanCompletes(i) \/ Reupload(i) \/ CacheExpires(i) \/ OfferExpires(i) PROVE OffersInv'
  BY <1>2, <1>10 DEF ScanCompletes, Reupload, CacheExpires, OfferExpires
<1>11. CASE ManifestExpires \/ RefreshRelease
  BY <1>2, <1>11 DEF ManifestExpires, RefreshRelease
<1>12. CASE UNCHANGED vars
  BY <1>1, <1>12, OthersKeepOffers DEF vars
<1>. QED
  BY <1>4, <1>5, <1>6, <1>7, <1>8, <1>9, <1>10, <1>11, <1>12 DEF Next

\* download_offer.go, redirect.go: what Jev offered is downloaded on a click, as long as
\* the offer lives and the request knows of the file what the offering one knew: Jev's
\* later opinions and the other files of the release cannot undo it.
THEOREM OffersStand == Spec => []OfferStands
<1>1. Init => OffersInv
  BY DEF Init, OffersInv, OfferStands, Answered
<1>2. OffersInv => OfferStands
  BY DEF OffersInv
<1>. QED
  BY <1>1, <1>2, ServedWasAccepted, OffersStep, PTL DEF Spec

-----------------------------------------------------------------------------
(* Nobody for whom a scanned file runs is turned away *)

\* A target that suits keeps suiting when the name fills in what it leaves open.
LEMMA SuitedFilled ==
  ASSUME NEW m, CompleteScanTargets(m), NEW t \in m.targets, NEW v, Suits(t, v),
         NEW named, NEW cpu, NEW libc
  PROVE  \E x \in FilledTargets(m, named, cpu, libc) : Suits(x, v) /\ x.cpu = t.cpu
<1> DEFINE x == [os   |-> IF t.os = "" /\ Cardinality(named) = 1 THEN (CHOOSE y \in named : TRUE).os ELSE t.os,
                 cpu  |-> IF t.cpu = "" /\ Cardinality(cpu) = 1 /\ ~m.partial THEN CHOOSE c \in cpu : TRUE ELSE t.cpu,
                 libc |-> IF t.libc = "" THEN libc ELSE t.libc]
<1>1. x \in FilledTargets(m, named, cpu, libc)
  BY DEF FilledTargets
<1>2. t.os # "" /\ t.cpu # ""
  BY DEF CompleteScanTargets
<1>3. x.os = t.os /\ x.cpu = t.cpu /\ (t.libc # "" => x.libc = t.libc)
  BY <1>2
<1>4. Suits(x, v)
  <2> HIDE DEF x
  <2>. QED
    BY <1>3 DEF Suits
<1>. QED
  BY <1>1, <1>3, <1>4

\* If it goes for one that says more, that one suits.
LEMMA SuitedSpecific ==
  ASSUME NEW targets, Closed(targets), NEW t \in targets, NEW v, Suits(t, v)
  PROVE  \E x \in SpecificTargets(targets) : Suits(x, v) /\ x.cpu = t.cpu
<1> DEFINE Fills(gap, value) == gap = "" \/ gap = value
           Subsumed(y) == \E o \in targets \ {y} : Fills(y.os, o.os) /\ Fills(y.cpu, o.cpu) /\ Fills(y.libc, o.libc)
<1>1. SpecificTargets(targets) = {y \in targets : ~Subsumed(y)}
  BY DEF SpecificTargets
<1>2. ASSUME NEW y \in targets, NEW o \in targets \ {y}, Fills(y.os, o.os), Fills(y.cpu, o.cpu), Fills(y.libc, o.libc)
      PROVE  y.os = o.os /\ y.cpu = o.cpu /\ y.libc = "" /\ o.libc # ""
  <2>1. y = Target(y.os, y.cpu, y.libc) /\ o = Target(o.os, o.cpu, o.libc) /\ y.os = o.os /\ y.cpu = o.cpu
    BY <1>2 DEF Closed
  <2>2. y.libc # o.libc
    BY <2>1, Zenon
  <2>. QED
    BY <1>2, <2>1, <2>2
<1>3. CASE Subsumed(t)
  <2>1. PICK o \in targets \ {t} : Fills(t.os, o.os) /\ Fills(t.cpu, o.cpu) /\ Fills(t.libc, o.libc)
    BY <1>3
  <2>2. t.os = o.os /\ t.cpu = o.cpu /\ t.libc = "" /\ o.libc # ""
    BY <1>2, <2>1
  <2>3. ~Subsumed(o)
    BY <1>2, <2>2
  <2>4. Suits(o, v)
    BY <2>2 DEF Suits
  <2>. QED
    BY <1>1, <2>2, <2>3, <2>4
<1>4. CASE ~Subsumed(t)
  BY <1>1, <1>4
<1>. QED
  BY <1>3, <1>4

\* One reading of the facts leaves a suiting target, which the launcher does not exclude.
LEMMA SuitedFacts ==
  ASSUME NEW a, CompleteScanTargets(a.artifact), NEW v, NEW libc,
         NEW t \in a.artifact.targets, Suits(t, v), a.name.ext = "appimage" => a.artifact.launcher \in {"", t.cpu}
  PROVE  LET f == FactsForAsset(a, libc)
         IN /\ Closed(f.targets) /\ f.partial = a.artifact.partial /\ f.launcher = a.artifact.launcher
            /\ \E x \in f.targets : Suits(x, v) /\ x.cpu = t.cpu
<1> DEFINE n        == a.name
           m        == a.artifact
           cpu      == Arches(n)
           first    == NamedLibc(n, libc)
           named    == FilenameTargets(n.os, cpu, first, n.ext)
           filled   == FilledTargets(m, named, cpu, first)
           targets  == SpecificTargets(filled)
           launched == LauncherTargets(n.ext, m.launcher, targets)
           f        == FactsForAsset(a, libc)
<1>1. f.partial = m.partial /\ f.launcher = m.launcher /\ f.targets = DmgTargets(n.ext, launched)
  BY DEF FactsForAsset, CompleteScanTargets
<1> HIDE DEF f
<1>2. Closed(filled)
  BY ClosedStaysFilled
<1> HIDE DEF named, cpu, first
<1>3. PICK y \in filled : Suits(y, v) /\ y.cpu = t.cpu
  <2>1. \A o, c, l : \E x \in FilledTargets(m, o, c, l) : Suits(x, v) /\ x.cpu = t.cpu
    BY SuitedFilled
  <2>. QED
    BY <2>1
<1> HIDE DEF filled
<1>4. PICK x \in targets : Suits(x, v) /\ x.cpu = t.cpu
  <2>1. \E x \in SpecificTargets(filled) : Suits(x, v) /\ x.cpu = y.cpu
    BY <1>2, <1>3, SuitedSpecific
  <2>. QED
    BY <1>3, <2>1
<1>5. Closed(targets) /\ targets # {}
  BY <1>2, <1>3, <1>4, SpecificStays DEF Closed
<1> HIDE DEF targets
<1>6. launched \subseteq targets /\ x \in launched
  <2>1. CASE n.ext # "appimage" \/ m.launcher = ""
    BY <2>1 DEF LauncherTargets
  <2>2. CASE n.ext = "appimage" /\ m.launcher # ""
    <3>1. {IF z.cpu = "" THEN [z EXCEPT !.cpu = m.launcher] ELSE z : z \in targets} = targets
      BY <1>5 DEF Closed
    <3>2. launched = {z \in targets : z.cpu = m.launcher}
      BY <2>2, <3>1 DEF LauncherTargets
    <3>3. x.cpu = m.launcher
      BY <1>4, <2>2
    <3>. QED
      BY <3>2, <3>3
  <2>. QED
    BY <2>1, <2>2
<1> HIDE DEF launched
<1>7. Closed(launched)
  BY <1>5, <1>6 DEF Closed
<1>8. f.targets = launched
  BY <1>1, <1>7, ClosedIsNoGuess
<1>. QED
  BY <1>1, <1>4, <1>6, <1>7, <1>8 DEF f

\* So do the two readings, and what was heard is there for the decision.
LEMMA HeardIsRead ==
  ASSUME NEW file, NEW m, NEW v, Heard(file, m, v), NEW libc
  PROVE  LET a == ReadTwice(file, m, libc)
         IN /\ a.state = "uploaded" /\ a.name = NameOf(file) /\ a.artifact.status = "inspected"
            /\ a.facts.inspection = "inspected" /\ a.facts.suffix = NameOf(file).ext
            /\ a.facts.ext = (IF Kind(NameOf(file).ext) = "" THEN "" ELSE NameOf(file).ext)
            /\ Closed(a.facts.targets) /\ ~a.facts.partial
            /\ \E x \in a.facts.targets : Suits(x, v)
<1> DEFINE a1 == Asset(file, m)
           f1 == FactsForAsset(a1, libc)
           m2 == DescribeAsset(WithFacts(a1, libc))
           a2 == Asset(file, m2)
           f2 == FactsForAsset(a2, libc)
           a  == ReadTwice(file, m, libc)
<1>1. a1.artifact = m /\ a2.artifact = m2 /\ a1.name = NameOf(file) /\ a2.name = NameOf(file) /\ a2.state = "uploaded"
  BY DEF Asset
<1>2. a.facts = f2 /\ a.artifact = m2 /\ a.name = NameOf(file) /\ a.state = "uploaded"
  <2>1. a = WithFacts(a2, libc)
    BY DEF ReadTwice, Read
  <2> HIDE DEF a, a2
  <2>. QED
    BY <1>1, <2>1 DEF WithFacts
<1>3. m2.targets = f1.targets /\ m2.partial = f1.partial /\ m2.launcher = f1.launcher
  BY DescribedFields
<1>4. f1.inspection = "inspected" /\ m2.status = "inspected"
  <2> HIDE DEF a1
  <2>1. f1.inspection = "inspected"
    BY <1>1, FactsFields DEF Heard
  <2>. QED
    BY <2>1, WithFactsFields
<1> HIDE DEF a1, f1, m2, a2, a
<1>5. f2.inspection = "inspected"
  BY <1>1, <1>4, FactsFields
<1>6. f2.suffix = NameOf(file).ext /\ f2.ext = (IF Kind(NameOf(file).ext) = "" THEN "" ELSE NameOf(file).ext)
  BY <1>1 DEF FactsForAsset
<1> HIDE DEF f2
<1>7. CompleteScanTargets(m)
  BY DEF Heard
<1>8. PICK t \in m.targets : Suits(t, v) /\ (NameOf(file).ext = "appimage" => m.launcher \in {"", t.cpu})
  BY DEF Heard
<1>9. /\ Closed(f1.targets) /\ f1.partial = m.partial /\ f1.launcher = m.launcher
      /\ \E x \in f1.targets : Suits(x, v) /\ x.cpu = t.cpu
  BY <1>1, <1>7, <1>8, SuitedFacts DEF f1
<1>10. PICK x \in m2.targets : Suits(x, v) /\ x.cpu = t.cpu
  BY <1>3, <1>9
<1>11. CompleteScanTargets(m2) /\ m2.launcher = m.launcher
  BY <1>3, <1>7, <1>9, <1>10 DEF CompleteScanTargets, Closed
<1>12. Closed(f2.targets) /\ f2.partial = m2.partial /\ \E y \in f2.targets : Suits(y, v)
  BY <1>1, <1>8, <1>10, <1>11, SuitedFacts DEF f2
<1>13. ~f2.partial
  BY <1>11, <1>12 DEF CompleteScanTargets
<1>. QED
  BY <1>2, <1>4, <1>5, <1>6, <1>12, <1>13 DEF a

\* Every format in the catalogue's lists is of some kind.
LEMMA ListedFormats ==
  ASSUME NEW v, v.os \in Platforms, NEW k \in DOMAIN Extensions(v)
  PROVE  Kind(Extensions(v)[k]) # ""
<1>1. ASSUME NEW p \in Platforms, NEW j \in DOMAIN PlatformExts[p]
      PROVE  Kind(PlatformExts[p][j]) # ""
  BY <1>1 DEF Kind
<1>2. Kind("rpm") # "" /\ Kind("deb") # ""
  BY DEF Kind
<1> DEFINE swapped == [PlatformExts.linux EXCEPT ![2] = "rpm", ![3] = "deb"]
<1>3. ASSUME NEW j \in DOMAIN swapped PROVE Kind(swapped[j]) # ""
  <2>1. "linux" \in Platforms /\ DOMAIN swapped = DOMAIN PlatformExts.linux
    BY DEF Platforms, PlatformExts
  <2>2. swapped[j] \in {"rpm", "deb", PlatformExts["linux"][j]}
    BY <1>3
  <2>3. Kind(PlatformExts["linux"][j]) # ""
    BY <1>1, <1>3, <2>1
  <2> HIDE DEF swapped
  <2>. QED
    BY <1>2, <2>2, <2>3
<1> HIDE DEF swapped
<1>4. Extensions(v) = swapped \/ Extensions(v) = PlatformExts[v.os]
  BY DEF Extensions, swapped
<1>. QED
  BY <1>1, <1>3, <1>4

\* So a format that a platform ranks is one that the catalogue knows.
LEMMA RankedFormats ==
  ASSUME NEW v, v.os \in Platforms, NEW ext, FormatRank(ext, v) < Len(Extensions(v))
  PROVE  ExtRank(ext, v) # NoRank /\ Kind(ext) # ""
<1>1. Len(Extensions(v)) \in Nat
  BY ExtensionsAreListed DEF Listed
<1>2. ExtRank(ext, v) # NoRank
  BY <1>1 DEF FormatRank
<1>3. PICK k \in DOMAIN Extensions(v) : Extensions(v)[k] \in NameEndings(ext)
  BY <1>2 DEF ExtRank, RankIn
<1>4. Kind(Extensions(v)[k]) # ""
  BY ListedFormats
<1>5. Kind("tar.gz") # "" /\ Kind("tar.xz") # "" /\ Kind("tar.zst") # ""
  <2>1. PlatformExts["linux"][7] = "tar.gz" /\ PlatformExts["linux"][9] = "tar.xz" /\ PlatformExts["linux"][14] = "tar.zst"
    BY DEF PlatformExts
  <2>2. {7, 9, 14} \subseteq DOMAIN PlatformExts["linux"] /\ "linux" \in Platforms
    BY DEF Platforms, PlatformExts
  <2>3. {"tar.gz", "tar.xz", "tar.zst"} \subseteq UNION {{PlatformExts[p][i] : i \in DOMAIN PlatformExts[p]} : p \in Platforms}
    BY <2>1, <2>2
  <2>. QED
    BY <2>3 DEF Kind
<1>6. Extensions(v)[k] = ext \/ ext \in {"tar.gz", "tar.xz", "tar.zst"}
  BY <1>3 DEF NameEndings
<1>. QED
  BY <1>2, <1>4, <1>5, <1>6

\* The facts keep the extension.
LEMMA FactsHaveASuffix ==
  ASSUME NEW a, NEW libc
  PROVE  "suffix" \in DOMAIN FactsForAsset(a, libc)
BY DEF FactsForAsset

\* So does a description that is read again.
LEMMA ReadingsHaveASuffix ==
  ASSUME NEW file, NEW m, NEW libc
  PROVE  "suffix" \in DOMAIN ReadTwice(file, m, libc).facts
<1>1. PICK b : b = Asset(file, DescribeAsset(WithFacts(Asset(file, m), libc)))
  OBVIOUS
<1>2. ReadTwice(file, m, libc) = WithFacts(b, libc)
  BY <1>1 DEF ReadTwice, Read
<1>. QED
  BY <1>2, WithFactsFields, FactsHaveASuffix

\* The rules take what was heard for a candidate, see a conflict, or wait for a verification.
LEMMA RulesHear ==
  ASSUME NEW file, NEW m, NEW v, Heard(file, m, v), NEW libc, v.os \in Platforms, v.libc = "", v.cpu # "",
         FormatRank(NameOf(file).ext, v) < Len(Extensions(v)),
         ~NotAProgram(ReadTwice(file, m, libc).facts)
  PROVE  Verdict(ReadTwice(file, m, libc), ReadTwice(file, m, libc).facts, v) \in {"candidate", "conflict", "unresolved"}
<1> DEFINE a == ReadTwice(file, m, libc)
           f == a.facts
<1>1. /\ a.state = "uploaded" /\ f.inspection = "inspected" /\ f.suffix = NameOf(file).ext
      /\ Closed(f.targets) /\ \E x \in f.targets : Suits(x, v)
  BY HeardIsRead
<1>2. ExtRank(NameOf(file).ext, v) # NoRank
  BY RankedFormats
<1>3. ~NotAProgram(f)
  OBVIOUS
<1> HIDE DEF a
<1>4. PICK x \in f.targets : Suits(x, v)
  BY <1>1
<1>5. x \in FitTargets(f, v)
  BY <1>4 DEF FitTargets, Suits
<1>6. RankFor(FactsForTarget(f, v), v) # NoRank
  <2>1. FactsForTarget(f, v).suffix = f.suffix
    <3> DEFINE fits == FitTargets(f, v)
    <3> HIDE DEF fits
    <3>1. FactsForTarget(f, v) = [f EXCEPT !.targets = fits, !.os = {t.os : t \in fits} \ {""}, !.cpu = {t.cpu : t \in fits} \ {""}]
      BY DEF FactsForTarget, fits
    <3>2. "suffix" \in DOMAIN f
      BY ReadingsHaveASuffix DEF a
    <3> HIDE DEF f
    <3>. QED
      BY <3>1, <3>2
  <2>. QED
    BY <1>1, <1>2, <2>1 DEF RankFor
<1>7. ~Skipped(f, v)
  BY <1>3, <1>4 DEF Skipped
<1>8. Verdict(a, f, v) \in {"candidate", "conflict", "unresolved"}
  BY <1>1, <1>3, <1>5, <1>6, <1>7 DEF Verdict
<1>. QED
  BY <1>8 DEF a

\* What is best of the candidates is a choice, if perhaps a doubtful one.
LEMMA BestIsADecision ==
  ASSUME NEW list, NEW g, NEW rank, NEW v
  PROVE  /\ Best(list, g, rank, v).status # "incompatible"
         /\ DOMAIN Best(list, g, rank, v) = {"status", "asset", "confidence"}
BY DEF Best

\* With such a file the rules find one, or say that they do not know.
LEMMA RulesKeepTrying ==
  ASSUME NEW assets, NEW i \in DOMAIN assets, NEW v,
         v.os \in Platforms => Verdict(assets[i], assets[i].facts, v) \in {"candidate", "conflict", "unresolved"}
  PROVE  /\ DecideAsset(assets, v).status # "incompatible"
         /\ \A pin : OnlyPinned(DecideAsset(assets, v), pin).status = DecideAsset(assets, v).status
<1> DEFINE cands == {j \in DOMAIN assets : Verdict(assets[j], assets[j].facts, v) = "candidate"}
           d == DecideAsset(assets, v)
<1>1. assets # <<>>
  OBVIOUS
<1>2. CASE v.os \notin Platforms
  <2>1. d = Abstain("unknown")
    BY <1>1, <1>2 DEF DecideAsset
  <2>. QED
    BY <2>1 DEF Abstain, OnlyPinned
<1>3. CASE v.os \in Platforms /\ cands = {}
  <2>1. Verdict(assets[i], assets[i].facts, v) \in {"conflict", "unresolved"}
    BY <1>3
  <2>2. Verdict(assets[i], assets[i].facts, v) = "unresolved" => LeavesDoubt(assets[i], assets[i].facts, v)
    BY DEF LeavesDoubt
  <2>3. d = Abstain("ambiguous") \/ d = Abstain("unknown")
    BY <1>1, <1>3, <2>1, <2>2 DEF DecideAsset
  <2>. QED
    BY <2>3 DEF Abstain, OnlyPinned
<1>4. CASE v.os \in Platforms /\ cands # {}
  <2>1. d = BestCandidate(assets, cands, v)
    BY <1>1, <1>4 DEF DecideAsset
  <2>2. BestCandidate(assets, cands, v).status # "incompatible"
        /\ DOMAIN BestCandidate(assets, cands, v) = {"status", "asset", "confidence"}
    BY BestIsADecision DEF BestCandidate
  <2> HIDE DEF d
  <2>3. d.status # "incompatible" /\ \A pin : OnlyPinned(d, pin).status = d.status
    BY <2>1, <2>2 DEF OnlyPinned
  <2>. QED
    BY <2>3 DEF d
<1>. QED
  BY <1>2, <1>3, <1>4

\* A finite set of no more than one element is what any of its elements says.
LEMMA AtMostOne ==
  ASSUME NEW S, IsFiniteSet(S), NEW x \in S
  PROVE  /\ ~(Cardinality(S) > 1) \/ Cardinality(S) = 1 => S = {x}
         /\ (\A y \in S : y = x) => S = {x} /\ Cardinality(S) = 1 /\ ~(Cardinality(S) > 1)
<1>1. Cardinality(S) \in Nat
  BY FS_CardinalityType
<1>2. Cardinality(S) # 0
  BY FS_EmptySet
<1>3. Cardinality(S) = 1 => S = {x}
  BY FS_Singleton
<1>4. (\A y \in S : y = x) => S = {x}
  OBVIOUS
<1>5. S = {x} => Cardinality(S) = 1
  BY FS_Singleton
<1>. QED
  BY <1>1, <1>2, <1>3, <1>4, <1>5

\* What the gate holds of a file with targets of which one fits.
LEMMA FitIsProven ==
  ASSUME NEW a, NEW v, v.os \in Platforms, v.cpu # "", Assess(a, v).ok,
         a.facts.targets # {}, Closed(a.facts.targets)
  PROVE  LET fit == Assess(a, v)
         IN /\ fit.osProven
            /\ \/ fit.cpuProven /\ \E t \in a.facts.targets : t.os = v.os /\ t.cpu = v.cpu
               \/ ~fit.cpuProven /\ fit.emulated /\ \E t \in a.facts.targets : t.os = v.os /\ Emulates(v.os, v.cpu, t.cpu)
<1> DEFINE f    == a.facts
           fits == {t \in f.targets :
                      /\ t.os = "" \/ v.os \in {"unknown", t.os}
                      /\ v.cpu = "" \/ t.cpu \in {"", v.cpu} \/ Emulates(v.os, v.cpu, t.cpu)
                      /\ v.libc = "" \/ t.libc \in {"", v.libc, "static"}}
<1>1. v.os # "unknown"
  BY DEF Platforms, PlatformExts
<1>2. ~Vetoed(a, f)
  <2>1. ~NoFit.ok
    BY DEF NoFit
  <2>. QED
    BY <2>1 DEF Assess
<1>3. /\ Assess(a, v).ok = (fits # {})
      /\ Assess(a, v).osProven = (v.os # "unknown" /\ \E t \in fits : t.os = v.os)
      /\ Assess(a, v).cpuProven = (v.cpu # "" /\ \E t \in fits : t.cpu = v.cpu)
      /\ Assess(a, v).emulated = (v.cpu # "" /\ fits # {} /\ \A t \in fits : Emulates(v.os, v.cpu, t.cpu))
  BY <1>2 DEF Assess
<1>4. \A t \in fits : t \in f.targets /\ t.os = v.os /\ (t.cpu = v.cpu \/ Emulates(v.os, v.cpu, t.cpu))
  BY <1>1 DEF Closed
<1> HIDE DEF fits
<1>5. PICK t \in fits : TRUE
  BY <1>3
<1>6. Assess(a, v).osProven
  BY <1>1, <1>3, <1>4, <1>5
<1>7. CASE \E x \in fits : x.cpu = v.cpu
  BY <1>3, <1>4, <1>6, <1>7
<1>8. CASE ~\E x \in fits : x.cpu = v.cpu
  BY <1>3, <1>4, <1>5, <1>6, <1>8
<1>. QED
  BY <1>7, <1>8

\* CPUs by the names that the site has for them.
Spelling(targets) == \A t \in targets : NormalizedArch(t.cpu) = t.cpu

\* Nothing is corrected in targets without gaps that a full scan brought.
LEMMA ClosedIsCorrect ==
  ASSUME NEW a, Closed(a.artifact.targets), "deep-inspection" \in a.artifact.sources, Spelling(a.artifact.targets)
  PROVE  CorrectedTargets(a) = a.artifact.targets
<1>1. ASSUME NEW t \in a.artifact.targets PROVE [t EXCEPT !.os = t.os, !.cpu = t.cpu] = t
  <2>1. t = [os |-> t.os, cpu |-> t.cpu, libc |-> t.libc]
    BY DEF Closed, Target
  <2>2. ASSUME NEW o, NEW c, o = t.os, c = t.cpu PROVE [t EXCEPT !.os = o, !.cpu = c] = t
    BY <2>1, <2>2
  <2>. QED
    BY <2>2, Zenon
<1>2. \A t \in a.artifact.targets : t.os # "" /\ t.cpu # "" /\ NormalizedArch(t.cpu) = t.cpu
  BY DEF Closed, Spelling
<1> DEFINE f        == a.facts
           m        == a.artifact
           siblings == {t.os : t \in m.targets} \ {""}
           system   == IF siblings # {} THEN CHOOSE o \in siblings : TRUE
                       ELSE IF Cardinality(f.os) = 1 THEN CHOOSE o \in f.os : TRUE
                       ELSE IF f.os \cap {"dragonfly", "solaris", "illumos", "haiku"} # {}
                       THEN CHOOSE o \in f.os : o \in {"dragonfly", "solaris", "illumos", "haiku"} ELSE f.formatOS
           payload  == "deep-inspection" \in m.sources
           OSOf(t)  == IF t.os = "" THEN system ELSE t.os
           CpuOf(t) == IF NormalizedArch(t.cpu) = "" /\ ~m.partial /\ Cardinality(f.cpu) = 1 /\ f.suffix # "exe"
                       THEN CHOOSE c \in f.cpu : TRUE ELSE NormalizedArch(t.cpu)
           Stub(t)  == /\ ~payload /\ OSOf(t) = "windows"
                       /\ CpuOf(t) # "" /\ CpuOf(t) \notin f.cpu
                       /\ CpuOf(t) = "386" \/ f.cpu # {}
           Same(t)  == [t EXCEPT !.os = OSOf(t), !.cpu = IF Stub(t) THEN "unproven" ELSE CpuOf(t)]
<1>3. CorrectedTargets(a) = {Same(t) : t \in a.artifact.targets}
  BY DEF CorrectedTargets
<1>4. ASSUME NEW t \in a.artifact.targets PROVE Same(t) = t
  <2>1. OSOf(t) = t.os /\ CpuOf(t) = t.cpu /\ ~Stub(t)
    BY <1>2
  <2> HIDE DEF OSOf, CpuOf, Stub
  <2>2. (IF Stub(t) THEN "unproven" ELSE CpuOf(t)) = t.cpu
    BY <2>1
  <2>. QED
    BY <1>1, <2>1, <2>2
<1> HIDE DEF Same
<1>. QED
  BY <1>3, <1>4

\* The CPUs that a system emulates.
LEMMA EmulatedCpus ==
  ASSUME NEW os, NEW cpu, NEW program, Emulates(os, cpu, program)
  PROVE  program \in {"386", "amd64"}
BY DEF Emulates, Emulation

\* All of a hundred percent.
LEMMA PercentOfAll == (100 * 100) \div 100 = 100
OBVIOUS

\* What attributes say of the system and of the CPU, and their changes.
AttrsSay(p, os, osP, cpu, cpuP) ==
  /\ DOMAIN p = {"os", "osP", "cpu", "cpuP", "main"}
  /\ p.os = os /\ p.osP = osP /\ p.cpu = cpu /\ p.cpuP = cpuP

WithOS(p, o)  == [p EXCEPT !.os = o, !.osP = 100]
WithCpu(p, c) == [p EXCEPT !.cpu = c, !.cpuP = 100]

\* A run that is sure, natively or emulated.
Sure(run) == run.native = 100 \/ (run.native = 0 /\ run.emulated = 100)

\* Attributes of the visitor's own system that are sure come to a run.
LEMMA SureRuns ==
  ASSUME NEW attrs, NEW n, NEW v, NEW os, NEW cpu, os = v.os, AttrsSay(attrs, os, 100, cpu, 100),
         v.cpu # "", v.cpu # "not stated",
         \/ cpu = v.cpu
         \/ cpu = "universal" /\ os = "macos"
         \/ Emulates(os, v.cpu, cpu)
  PROVE  Sure(RunProbability(attrs, n, v))
<1>0. attrs.os = v.os /\ attrs.osP = 100 /\ attrs.cpu = cpu /\ attrs.cpuP = 100
  BY DEF AttrsSay
<1>1. (attrs.osP * attrs.cpuP) \div 100 = 100
  BY <1>0, PercentOfAll
<1>2. Emulates(v.os, v.cpu, attrs.cpu) => attrs.cpu \in {"386", "amd64"}
  BY <1>0, EmulatedCpus
<1> DEFINE p      == IF attrs.os = v.os THEN (attrs.osP * attrs.cpuP) \div 100 ELSE 0
           stated == IF attrs.cpu = "not stated" /\ v.os \in {"windows", "linux"} THEN "amd64" ELSE attrs.cpu
           how    == IF v.cpu = "" THEN IF attrs.cpu \in KnownOptions THEN "native" ELSE "never"
                     ELSE IF stated = v.cpu THEN "native"
                     ELSE IF stated = "universal" /\ v.os = "macos" THEN "native"
                     ELSE IF stated = "not stated" /\ v.os = "android" THEN "native"
                     ELSE IF stated = "not stated" /\ v.os = "macos" THEN
                        IF v.cpu = "arm64" \/ FormatOS(n.ext) = "macos" THEN "emulated" ELSE "maybe"
                     ELSE IF Emulates(v.os, v.cpu, stated) THEN "emulated"
                     ELSE "never"
           part(h) == IF how = h THEN p ELSE 0
<1>3. RunProbability(attrs, n, v) = [native |-> part("native"), emulated |-> part("emulated"), maybe |-> part("maybe")]
  BY Zenon DEF RunProbability
<1>4. stated = attrs.cpu /\ stated # "not stated"
  BY <1>0, <1>2
<1>5. p = 100
  BY <1>0, <1>1
<1> HIDE DEF p, stated
<1>6. how = "native" \/ how = "emulated"
  BY <1>0, <1>4
<1> HIDE DEF how
<1>7. PICK x, y, z : x = part("native") /\ y = part("emulated") /\ z = part("maybe")
  OBVIOUS
<1>8. (how = "native" => x = 100) /\ (how = "emulated" => x = 0 /\ y = 100)
  BY <1>5, <1>7
<1>9. RunProbability(attrs, n, v) = [native |-> x, emulated |-> y, maybe |-> z]
  BY <1>3, <1>7, Zenon
<1>10. ASSUME NEW run, run = [native |-> x, emulated |-> y, maybe |-> z]
       PROVE  Sure(run)
  <2>1. run.native = x /\ run.emulated = y
    BY <1>10
  <2>. QED
    BY <1>6, <1>8, <2>1 DEF Sure
<1>. QED
  BY <1>9, <1>10, Zenon
\* A sure run is of one of the two upper tiers.
LEMMA SureTier ==
  ASSUME NEW run, Sure(run), NEW attrs, NEW v
  PROVE  JudgeRun(run, attrs, v).tier \in {TierEmulated, TierNative}
BY DEF Sure, JudgeRun

\* A change says what it changes and keeps the rest.
LEMMA ChangedAttrs ==
  ASSUME NEW p, NEW os, NEW osP, NEW cpu, NEW cpuP, AttrsSay(p, os, osP, cpu, cpuP), NEW x
  PROVE  AttrsSay(WithOS(p, x), x, 100, cpu, cpuP) /\ AttrsSay(WithCpu(p, x), os, osP, x, 100)
BY DEF AttrsSay, WithOS, WithCpu

\* So does the change of all four.
LEMMA ProvenAttrs ==
  ASSUME NEW p, NEW os, NEW osP, NEW cpu, NEW cpuP, AttrsSay(p, os, osP, cpu, cpuP), NEW x, NEW y
  PROVE  AttrsSay([p EXCEPT !.os = x, !.osP = 100, !.cpu = y, !.cpuP = 100], x, 100, y, 100)
BY DEF AttrsSay

\* Finitely many systems and CPUs, all of them told; one target; no other.
Told(T) ==
  (\A u \in T : u.os # "" /\ u.cpu # "") /\ IsFiniteSet({u.os : u \in T}) /\ IsFiniteSet({u.cpu : u \in T})

OneIs(T, os, cpu)  == \E u \in T : u.os = os /\ u.cpu = cpu
EachIs(T, os, cpu) == \A u \in T : u.os = os /\ u.cpu = cpu

\* What the contents prove agrees with a system and a CPU that are sure already, and
\* makes the CPU sure where there is but one.
LEMMA ObservedAttrs ==
  ASSUME NEW p, NEW os, NEW cpu, NEW cpuP, AttrsSay(p, os, 100, cpu, cpuP),
         NEW T, Told(T), NEW real, OneIs(T, os, real),
         (cpu = real /\ cpuP = 100) \/ (real # "unproven" /\ EachIs(T, os, real))
  PROVE  \/ AttrsSay(WithObservedTargets(p, T), os, 100, real, 100)
         \/ AttrsSay(WithObservedTargets(p, T), os, 100, "universal", 100) /\ os = "macos"
<1> DEFINE systems == {u.os : u \in T} \ {""}
           cpus    == {u.cpu : u \in T}
           seen    == WithOS(p, CHOOSE o \in systems : TRUE)
           q       == WithObservedTargets(p, T)
<1>0. PICK t \in T : t.os = os /\ t.cpu = real
  BY DEF OneIs
<1>1. systems = {u.os : u \in T} /\ t.os \in systems /\ t.cpu \in cpus
  <2>1. "" \notin {u.os : u \in T}
    BY DEF Told
  <2>2. t.os \in {u.os : u \in T} /\ t.cpu \in {u.cpu : u \in T}
    BY <1>0, Zenon
  <2>. QED
    BY <2>1, <2>2
<1>2. (\A u \in T : u.os = t.os /\ u.cpu = t.cpu) => (\A o \in systems : o = t.os) /\ (\A c \in cpus : c = t.cpu)
  OBVIOUS
<1>11. EachIs(T, os, real) => (\A o \in systems : o = t.os) /\ (\A c \in cpus : c = t.cpu)
  BY <1>0, <1>2 DEF EachIs
<1>3. IsFiniteSet(systems) /\ IsFiniteSet(cpus) /\ "" \notin cpus
  BY <1>1 DEF Told
<1>4. q = IF Cardinality(systems) > 1 THEN p
          ELSE IF systems = {"macos"} /\ cpus = {"amd64", "arm64"} THEN WithCpu(seen, "universal")
          ELSE IF Cardinality(cpus) = 1 /\ cpus \cap {"", "unproven"} = {} THEN WithCpu(seen, CHOOSE c \in cpus : TRUE)
          ELSE seen
  <2>1. systems # {}
    BY <1>1
  <2>. QED
    BY <2>1, Zenon DEF WithObservedTargets, WithOS, WithCpu
<1> HIDE DEF systems, cpus, q
<1>5. /\ ~(Cardinality(systems) > 1) => systems = {t.os}
      /\ (\A o \in systems : o = t.os) => ~(Cardinality(systems) > 1)
  BY <1>1, <1>3, AtMostOne
<1>6. /\ Cardinality(cpus) = 1 => cpus = {t.cpu}
      /\ (\A c \in cpus : c = t.cpu) => cpus = {t.cpu} /\ Cardinality(cpus) = 1
  BY <1>1, <1>3, AtMostOne
<1>7. CASE Cardinality(systems) > 1
  <2>1. q = p
    BY <1>4, <1>7
  <2>2. ~(\A o \in systems : o = t.os)
    BY <1>5, <1>7
  <2>3. cpu = real /\ cpuP = 100
    BY <1>11, <2>2
  <2>. QED
    BY <2>1, <2>3 DEF q
<1>8. CASE ~(Cardinality(systems) > 1)
  <2>1. systems = {os}
    BY <1>0, <1>5, <1>8
  <2>2. AttrsSay(seen, os, 100, cpu, cpuP)
    <3>1. (CHOOSE o \in systems : TRUE) = os
      BY <2>1
    <3>. QED
      BY <3>1, ChangedAttrs, Zenon
  <2> HIDE DEF seen
  <2>3. CASE systems = {"macos"} /\ cpus = {"amd64", "arm64"}
    <3>1. q = WithCpu(seen, "universal") /\ os = "macos"
      BY <1>4, <1>8, <2>1, <2>3
    <3>. QED
      BY <2>2, <3>1, ChangedAttrs DEF q
  <2>4. CASE ~(systems = {"macos"} /\ cpus = {"amd64", "arm64"}) /\ Cardinality(cpus) = 1 /\ cpus \cap {"", "unproven"} = {}
    <3>1. q = WithCpu(seen, CHOOSE c \in cpus : TRUE)
      BY <1>4, <1>8, <2>4
    <3>2. (CHOOSE c \in cpus : TRUE) = real
      BY <1>0, <1>6, <2>4
    <3>3. q = WithCpu(seen, real)
      BY <3>1, <3>2
    <3>. QED
      BY <2>2, <3>3, ChangedAttrs DEF q
  <2>5. CASE ~(systems = {"macos"} /\ cpus = {"amd64", "arm64"}) /\ ~(Cardinality(cpus) = 1 /\ cpus \cap {"", "unproven"} = {})
    <3>1. q = seen
      BY <1>4, <1>8, <2>5
    <3>2. cpu = real /\ cpuP = 100
      BY <1>0, <1>3, <1>6, <1>11, <2>5
    <3>. QED
      BY <2>2, <3>1, <3>2 DEF q
  <2>. QED
    BY <2>3, <2>4, <2>5
<1>. QED
  BY <1>7, <1>8

\* A file of which a full scan brought the targets, one of which fits, is judged to run.
LEMMA JudgedToRun ==
  ASSUME NEW a, NEW v, v.os \in Platforms, v.cpu # "", v.cpu # "not stated", Assess(a, v).ok,
         a.facts.targets # {}, Closed(a.facts.targets),
         \A t \in a.facts.targets : \E u \in a.artifact.targets : u.os = t.os /\ u.cpu = t.cpu,
         Closed(a.artifact.targets), Spelling(a.artifact.targets),
         a.artifact.status = "inspected", "deep-inspection" \in a.artifact.sources,
         IsFiniteSet({u.os : u \in a.artifact.targets}), IsFiniteSet({u.cpu : u \in a.artifact.targets}),
         SureIfEmulated(a, v), NEW guess \in AttrOptions
  PROVE  Judge(guess, a, v).tier \in {TierEmulated, TierNative}
<1> DEFINE fit    == Assess(a, v)
           T      == a.artifact.targets
           proven == IF fit.cpuProven THEN [guess EXCEPT !.os = v.os, !.osP = 100, !.cpu = v.cpu, !.cpuP = 100]
                     ELSE [guess EXCEPT !.os = v.os, !.osP = 100]
           attrs  == KnownAttrs(guess, a, fit, v)
           run    == RunProbability(attrs, a.name, v)
<1>1. /\ fit.osProven
      /\ \/ fit.cpuProven /\ \E t \in a.facts.targets : t.os = v.os /\ t.cpu = v.cpu
         \/ ~fit.cpuProven /\ fit.emulated /\ \E t \in a.facts.targets : t.os = v.os /\ Emulates(v.os, v.cpu, t.cpu)
  BY FitIsProven
<1>2. CorrectedTargets(a) = T
  BY ClosedIsCorrect
<1>3. PICK os : os = v.os
  OBVIOUS
<1>4. PICK t \in T : /\ t.os = os
                     /\ \/ fit.cpuProven /\ t.cpu = v.cpu
                        \/ ~fit.cpuProven /\ fit.emulated /\ Emulates(os, v.cpu, t.cpu)
  <2> HIDE DEF fit
  <2>. QED
    BY <1>1, <1>3
<1>5. fit.emulated => \A u \in T : u.os = t.os /\ u.cpu = t.cpu
  BY <1>4 DEF SureIfEmulated
<1>6. attrs = WithObservedTargets(proven, T)
  <2>1. T # {}
    BY <1>4
  <2>2. "deep-inspection" \in a.artifact.sources \ {"filename"}
    OBVIOUS
  <2>3. Observed(a.artifact)
    BY <2>1, <2>2 DEF Observed
  <2>. QED
    BY <1>1, <1>2, <2>3, Zenon DEF KnownAttrs
<1> HIDE DEF fit, attrs
<1>7. PICK cpu, cpuP : /\ AttrsSay(proven, os, 100, cpu, cpuP)
                       /\ fit.cpuProven => cpu = v.cpu /\ cpuP = 100
  <2>1. PICK o, p, c, q : AttrsSay(guess, o, p, c, q)
    BY DownloadAssumption DEF AttrsSay
  <2>2. CASE fit.cpuProven
    <3>1. PICK vcpu : vcpu = v.cpu
      OBVIOUS
    <3>2. proven = [guess EXCEPT !.os = os, !.osP = 100, !.cpu = vcpu, !.cpuP = 100]
      BY <1>3, <2>2, <3>1, Zenon
    <3> HIDE DEF proven
    <3>3. AttrsSay(proven, os, 100, vcpu, 100)
      BY <2>1, <3>2, ProvenAttrs, Zenon
    <3>. QED
      BY <3>1, <3>3
  <2>3. CASE ~fit.cpuProven
    <3>1. proven = WithOS(guess, os)
      BY <1>3, <2>3, Zenon DEF WithOS
    <3> HIDE DEF proven
    <3>2. AttrsSay(proven, os, 100, c, q)
      BY <2>1, <3>1, ChangedAttrs, Zenon
    <3>. QED
      BY <2>3, <3>2
  <2>. QED
    BY <2>2, <2>3
<1> HIDE DEF proven
<1>8. PICK real : real = t.cpu
  OBVIOUS
<1>9. OneIs(T, os, real) /\ ((cpu = real /\ cpuP = 100) \/ (real # "unproven" /\ EachIs(T, os, real)))
  BY <1>4, <1>5, <1>7, <1>8, EmulatedCpus DEF OneIs, EachIs
<1>10. \/ AttrsSay(attrs, os, 100, real, 100)
       \/ AttrsSay(attrs, os, 100, "universal", 100) /\ os = "macos"
  <2>1. Told(T)
    BY DEF Told, Closed
  <2> HIDE DEF T
  <2>. QED
    <3>1. OneIs(T, os, real)
      BY <1>9
    <3>2. (cpu = real /\ cpuP = 100) \/ (real # "unproven" /\ EachIs(T, os, real))
      BY <1>9
    <3>3. \/ AttrsSay(WithObservedTargets(proven, T), os, 100, real, 100)
          \/ AttrsSay(WithObservedTargets(proven, T), os, 100, "universal", 100) /\ os = "macos"
      <4>1. AttrsSay(proven, os, 100, cpu, cpuP)
        BY <1>7
      <4>. QED
        BY <2>1, <3>1, <3>2, <4>1, ObservedAttrs, Zenon
    <3>. QED
      BY <1>6, <3>3, Zenon
<1>11. real = v.cpu \/ Emulates(os, v.cpu, real)
  BY <1>4, <1>8
<1>12. Sure(run)
  <2>1. CASE AttrsSay(attrs, os, 100, real, 100)
    BY <1>3, <1>11, <2>1, SureRuns
  <2>2. CASE AttrsSay(attrs, os, 100, "universal", 100) /\ os = "macos"
    BY <1>3, <2>2, SureRuns
  <2>. QED
    BY <1>10, <2>1, <2>2
<1> HIDE DEF run
<1>13. Runs(attrs, a, fit, v) = run
  BY <1>1 DEF Runs, run
<1>14. JudgeRun(run, attrs, v).tier \in {TierEmulated, TierNative}
  BY <1>12, SureTier
<1>. QED
  BY <1>13, <1>14 DEF Judge, attrs, fit

\* The systems and the CPUs of finitely many targets are finitely many.
LEMMA FiniteFields ==
  ASSUME NEW S, IsFiniteSet(S)
  PROVE  IsFiniteSet({u.os : u \in S}) /\ IsFiniteSet({u.cpu : u \in S})
<1> DEFINE os  == [u \in S |-> u.os]
           cpu == [u \in S |-> u.cpu]
<1>1. os \in Surjection(S, {u.os : u \in S}) /\ cpu \in Surjection(S, {u.cpu : u \in S})
  BY DEF Surjection
<1>. QED
  BY <1>1, FS_Surjection

\* Targets whose systems and CPUs are those of others.
LEMMA FieldsOfSome ==
  ASSUME NEW A, NEW B, \A t \in A : \E u \in B : u.os = t.os /\ u.cpu = t.cpu
  PROVE  {u.os : u \in A} \subseteq {u.os : u \in B} /\ {u.cpu : u \in A} \subseteq {u.cpu : u \in B}
OBVIOUS

\* What the description keeps of the merged evidence beside its targets.
LEMMA DescribedStatus ==
  ASSUME NEW file, NEW m, NEW libc
  PROVE  LET a == ReadTwice(file, m, libc)
         IN a.artifact.sources = m.sources /\ (m.status = "inspected" => a.artifact.status = "inspected")
<1> DEFINE a1 == Asset(file, m)
           w1 == WithFacts(a1, libc)
           m2 == DescribeAsset(w1)
           a2 == Asset(file, m2)
           a  == ReadTwice(file, m, libc)
<1>1. a1.artifact = m /\ a2.artifact = m2
  BY DEF Asset
<1>2. a.artifact = m2
  <2>1. a = WithFacts(a2, libc)
    BY DEF ReadTwice, Read
  <2> HIDE DEF a, a2
  <2>. QED
    BY <1>1, <2>1, WithFactsFields
<1>3. m2.sources = w1.artifact.sources /\ m2.status = w1.facts.inspection
  <2> HIDE DEF w1
  <2>. QED
    BY DEF DescribeAsset
<1> HIDE DEF a1, m2, a
<1>4. w1.artifact = m /\ w1.facts = FactsForAsset(a1, libc)
  BY <1>1, WithFactsFields
<1> HIDE DEF w1
<1>5. m.status = "inspected" => FactsForAsset(a1, libc).inspection = "inspected"
  BY <1>1, FactsFields
<1>. QED
  BY <1>2, <1>3, <1>4, <1>5 DEF a

\* What a merge keeps of a scan that has its mark.
LEMMA MergedMark ==
  ASSUME NEW base, NEW m, m.status = "inspected", "deep-inspection" \in m.sources
  PROVE  Merged(base, m).status = "inspected" /\ "deep-inspection" \in Merged(base, m).sources
BY DEF Merged, MergeObservations

\* A candidate that a scan settled is judged to run.
LEMMA CandidateRuns ==
  ASSUME PlacesInv, NEW file \in DOMAIN release.contents, NEW base, NEW libc, NEW v,
         v.os \in Platforms, v.cpu # "", v.cpu # "not stated",
         AuthoritativeScan(Deep(file)), ScanIsDeep(Deep(file)),
         ValidateSelection(ReadTwice(file, Merged(base, Deep(file)), libc), v),
         SureIfEmulated(ReadTwice(file, Merged(base, Deep(file)), libc), v), NEW guess \in AttrOptions
  PROVE  Judge(guess, ReadTwice(file, Merged(base, Deep(file)), libc), v).tier \in {TierEmulated, TierNative}
<1> DEFINE scan == Deep(file)
           m    == Merged(base, scan)
           a    == ReadTwice(file, m, libc)
<1>1. Accepts(a, v)
  BY DEF Accepts
<1>2. scan.status # "failed"
  <2>1. m.status # "failed"
    BY <1>1, BrokenIsRefused
  <2>. QED
    BY <2>1, FailureStays
<1>3. ~NotAProgram(a.facts) /\ a.facts.conflicts \subseteq {FilenameConflict}
  <2> HIDE DEF a
  <2>. QED
    BY <1>1, RefusedOutright
<1>4. /\ CompleteScanTargets(scan) /\ CompleteScanTargets(m) /\ "publisher targets" \notin m.conflicts
      /\ ReadFrom(file, a, m)
  BY <1>2, <1>3, SettledIsRead
<1>5. scan.status = "inspected" /\ "deep-inspection" \in scan.sources
  BY <1>2, <1>4 DEF ScanIsDeep
<1>6. a.artifact.status = "inspected" /\ "deep-inspection" \in a.artifact.sources
  <2>1. m.status = "inspected" /\ "deep-inspection" \in m.sources
    <3> HIDE DEF scan
    <3>. QED
      BY <1>5, MergedMark
  <2>2. a.artifact.sources = m.sources /\ (m.status = "inspected" => a.artifact.status = "inspected")
    <3> HIDE DEF m
    <3>. QED
      BY DescribedStatus
  <2> HIDE DEF a, m
  <2>. QED
    BY <2>1, <2>2
<1>7. \A t \in m.targets : \E u \in scan.targets : u.os = t.os /\ u.cpu = t.cpu
  BY <1>4, MergedTargets
<1>8. IsFiniteSet(scan.targets) /\ \A t \in scan.targets : NormalizedArch(t.cpu) = t.cpu
  BY DownloadAssumption DEF PlacesInv, Deep
<1> HIDE DEF a, m, scan
<1>9. {u.os : u \in a.artifact.targets} \subseteq {u.os : u \in scan.targets}
      /\ {u.cpu : u \in a.artifact.targets} \subseteq {u.cpu : u \in scan.targets}
  <2>1. \A t \in a.artifact.targets : \E u \in scan.targets : u.os = t.os /\ u.cpu = t.cpu
    <3>1. \A t \in a.artifact.targets : \E u \in m.targets : u.os = t.os /\ u.cpu = t.cpu
      BY <1>4 DEF ReadFrom
    <3>2. ASSUME NEW t \in a.artifact.targets PROVE \E u \in scan.targets : u.os = t.os /\ u.cpu = t.cpu
      <4>1. PICK x \in m.targets : x.os = t.os /\ x.cpu = t.cpu
        BY <3>1, <3>2
      <4>2. PICK u \in scan.targets : u.os = x.os /\ u.cpu = x.cpu
        BY <1>7
      <4>. QED
        BY <4>1, <4>2
    <3>. QED
      BY <3>2
  <2>. QED
    BY <2>1, FieldsOfSome
<1>10. IsFiniteSet({u.os : u \in a.artifact.targets}) /\ IsFiniteSet({u.cpu : u \in a.artifact.targets})
  BY <1>8, <1>9, FiniteFields, FS_Subset
<1>14. Spelling(a.artifact.targets)
  <2>1. ASSUME NEW t \in a.artifact.targets PROVE NormalizedArch(t.cpu) = t.cpu
    <3>1. PICK u \in scan.targets : u.cpu = t.cpu
      BY <1>9
    <3>2. NormalizedArch(u.cpu) = u.cpu
      BY <1>8
    <3>. QED
      BY <3>1, <3>2
  <2>. QED
    BY <2>1 DEF Spelling
<1>11. Assess(a, v).ok /\ SureIfEmulated(a, v)
  BY DEF a, m, scan, ValidateSelection
<1>12. Judge(guess, a, v).tier \in {TierEmulated, TierNative}
  BY <1>4, <1>6, <1>10, <1>11, <1>14, JudgedToRun DEF ReadFrom
<1>. QED
  BY <1>12 DEF a, m, scan

\* Where every candidate is judged to run, some one is chosen or nothing is known.
LEMMA JudgedIsChosen ==
  ASSUME NEW assets, NEW v, NEW judged, DOMAIN judged # {},
         \A i \in DOMAIN judged : judged[i].tier \in {TierEmulated, TierNative}, NEW ch
  PROVE  GatedChoice(assets, v, judged, ch).status # "incompatible"
<1> DEFINE best == {i \in DOMAIN judged : judged[i].tier # TierNone /\ \A j \in DOMAIN judged : judged[j].tier <= judged[i].tier}
           pool == Runnable(judged)
<1>1. best # {}
  <2>1. CASE \E i \in DOMAIN judged : judged[i].tier = TierNative
    BY <2>1 DEF TierNative, TierEmulated, TierNone
  <2>2. CASE ~\E i \in DOMAIN judged : judged[i].tier = TierNative
    BY <2>2 DEF TierNative, TierEmulated, TierNone
  <2>. QED
    BY <2>1, <2>2
<1>2. pool # {}
  BY <1>1 DEF Runnable, Prefer
<1> HIDE DEF best, pool
<1>. QED
  BY <1>2 DEF GatedChoice, Abstain, pool

\* The guard lets pass what was heard and is not disputed.
LEMMA HeardIsValid ==
  ASSUME NEW file, NEW m, NEW v, Heard(file, m, v), NEW libc, v.os \in Platforms, v.libc = "",
         FormatRank(NameOf(file).ext, v) < Len(Extensions(v)),
         Undisputed(ReadTwice(file, m, libc)), ~NeedsVerification(ReadTwice(file, m, libc).facts, v)
  PROVE  ValidateSelection(ReadTwice(file, m, libc), v)
<1> DEFINE a    == ReadTwice(file, m, libc)
           fits == {t \in a.facts.targets :
                      /\ t.os = "" \/ v.os \in {"unknown", t.os}
                      /\ v.cpu = "" \/ t.cpu \in {"", v.cpu} \/ Emulates(v.os, v.cpu, t.cpu)
                      /\ v.libc = "" \/ t.libc \in {"", v.libc, "static"}}
<1>1. /\ a.state = "uploaded" /\ a.artifact.status = "inspected" /\ a.facts.suffix = NameOf(file).ext
      /\ a.facts.ext = (IF Kind(NameOf(file).ext) = "" THEN "" ELSE NameOf(file).ext)
      /\ \E x \in a.facts.targets : Suits(x, v)
  BY HeardIsRead
<1>2. Kind(NameOf(file).ext) # ""
  BY RankedFormats
<1>3. ~NotAProgram(a.facts) /\ a.facts.conflicts \subseteq {FilenameConflict} /\ ~NeedsVerification(a.facts, v)
  BY DEF Undisputed
<1> HIDE DEF a
<1>4. ~Vetoed(a, a.facts)
  BY <1>1, <1>2, <1>3 DEF Vetoed, NativeBinaryName
<1>5. PICK x \in a.facts.targets : Suits(x, v)
  BY <1>1
<1>6. x \in fits
  BY <1>5 DEF Suits
<1>7. Assess(a, v).ok = (fits # {})
  BY <1>4, <1>5 DEF Assess
<1>8. ValidateSelection(a, v)
  BY <1>3, <1>6, <1>7 DEF ValidateSelection
<1>. QED
  BY <1>8 DEF a

\* A valid file leaves Jev with a candidate.
LEMMA ValidMeansCandidates ==
  ASSUME NEW assets, NEW v, NEW i \in DOMAIN assets, ValidateSelection(assets[i], v)
  PROVE  Candidates(assets, v) # {}
BY DEF Candidates, Prefer

\* The request has heard of a file that it runs for the visitor.
Hears(r, i) ==
  /\ i \in DOMAIN r.files /\ Settled(r, i) /\ r.v.cpu # "" /\ r.v.libc = ""
  /\ FormatRank(NameOf(r.files[i]).ext, r.v) < Len(Extensions(r.v))
  /\ RunsFor(r.files[i], r.v)

\* Jev then chooses something or says that it does not know.
LEMMA JevKeepsTrying ==
  ASSUME PlacesInv, NEW r, r.files \in Seq(DOMAIN release.contents), HeardOut(r),
         \A j \in DOMAIN r.files : Settled(r, j), NEW i, Hears(r, i), NEW libc \in Libcs,
         NEW attrs \in [{r.files[j] : j \in DOMAIN r.files} -> AttrOptions], NEW ch
  PROVE  JevDecision(Described(r, libc), r.v, attrs, ch).status # "incompatible"
<1> DEFINE assets == Described(r, libc)
           v      == r.v
           judged == Judged(assets, v, attrs)
<1>1. /\ DOMAIN assets = DOMAIN r.files
      /\ \A j \in DOMAIN r.files : assets[j] = ReadTwice(r.files[j], Seen(r, j), libc)
  BY EnrichedIsReadTwice DEF Described
<1>2. \A j \in DOMAIN r.files : /\ Seen(r, j) = Merged(Published(r.files[j], r.facts), Deep(r.files[j]))
                                /\ AuthoritativeScan(Deep(r.files[j])) /\ ScanIsDeep(Deep(r.files[j]))
                                /\ SureIfEmulated(assets[j], v)
  <2>1. SUFFICES ASSUME NEW j \in DOMAIN r.files
                 PROVE  /\ Seen(r, j) = Merged(Published(r.files[j], r.facts), Deep(r.files[j]))
                        /\ AuthoritativeScan(Deep(r.files[j])) /\ ScanIsDeep(Deep(r.files[j]))
                        /\ SureIfEmulated(assets[j], v)
    OBVIOUS
  <2>2. Settled(r, j) /\ assets[j] = Enriched(r, j, libc)
    BY DEF Described
  <2>3. ScanIsDeep(Deep(r.files[j])) /\ SureIfEmulated(Enriched(r, j, libc), r.v)
    BY <2>2 DEF HeardOut
  <2>. QED
    BY <2>2, <2>3 DEF Settled, Seen
<1>3. Heard(r.files[i], Seen(r, i), v) /\ Undisputed(assets[i])
  <2>1. Enriched(r, i, libc) = assets[i] /\ i \in DOMAIN r.files
    BY DEF Described, Hears
  <2>. QED
    BY <2>1 DEF HeardOut, Hears
<1>9. v.libc = ""
  BY DEF Hears
<1>4. v.cpu # "" /\ v.cpu # "not stated" /\ i \in DOMAIN r.files
      /\ FormatRank(NameOf(r.files[i]).ext, v) < Len(Extensions(v))
  BY DEF HeardOut, Hears
<1>5. attrs \in [{r.files[j] : j \in DOMAIN r.files} -> AttrOptions]
  OBVIOUS
<1> HIDE DEF assets, v, judged
<1>6. CASE v.os \notin Platforms
  <2>1. JevDecision(assets, v, attrs, ch) = Abstain("unknown")
    BY <1>6 DEF JevDecision, Immediate
  <2>. QED
    BY <2>1 DEF Abstain, assets, v
<1>7. CASE v.os \in Platforms /\ Candidates(assets, v) = {}
  <2>1. ~ValidateSelection(assets[i], v)
    BY <1>1, <1>4, <1>7, ValidMeansCandidates
  <2>2. assets[i] = ReadTwice(r.files[i], Seen(r, i), libc)
    BY <1>1, <1>4
  <2>3. NeedsVerification(assets[i].facts, v)
    <3>1. PICK file, m : file = r.files[i] /\ m = Seen(r, i)
      OBVIOUS
    <3>2. Heard(file, m, v) /\ Undisputed(ReadTwice(file, m, libc)) /\ ~ValidateSelection(ReadTwice(file, m, libc), v)
      BY <1>3, <2>1, <2>2, <3>1
    <3>3. FormatRank(NameOf(file).ext, v) < Len(Extensions(v))
      BY <1>4, <3>1
    <3>4. NeedsVerification(ReadTwice(file, m, libc).facts, v)
      BY <1>7, <1>9, <3>2, <3>3, HeardIsValid
    <3>. QED
      BY <2>2, <3>1, <3>4
  <2>4. JevDecision(assets, v, attrs, ch) = Abstain("unknown")
    BY <1>1, <1>4, <1>7, <2>3 DEF JevDecision, Immediate
  <2>. QED
    BY <2>4 DEF Abstain, assets, v
<1>8. CASE v.os \in Platforms /\ Candidates(assets, v) # {}
  <2>1. JevDecision(assets, v, attrs, ch) = GatedChoice(assets, v, judged, ch)
    BY <1>8 DEF JevDecision, judged
  <2>2. DOMAIN judged = Candidates(assets, v)
    BY DEF judged, Judged
  <2>3. ASSUME NEW j \in DOMAIN judged PROVE judged[j].tier \in {TierEmulated, TierNative}
    <3>1. j \in DOMAIN r.files /\ ValidateSelection(assets[j], v)
      BY <1>1, <2>2, <2>3, CandidatesAreValid
    <3>2. PICK file : file = r.files[j]
      OBVIOUS
    <3>3. PICK base : base = Published(file, r.facts)
      OBVIOUS
    <3>4. assets[j] = ReadTwice(file, Merged(base, Deep(file)), libc)
      BY <1>1, <1>2, <3>1, <3>2, <3>3
    <3>5. file \in DOMAIN release.contents
      BY <3>1, <3>2
    <3>6. AuthoritativeScan(Deep(file)) /\ ScanIsDeep(Deep(file)) /\ SureIfEmulated(assets[j], v)
      BY <1>2, <3>1, <3>2
    <3>7. assets[j].id = file
      <4>1. PICK d : d = Asset(file, DescribeAsset(WithFacts(Asset(file, Merged(base, Deep(file))), libc)))
        OBVIOUS
      <4>2. assets[j] = WithFacts(d, libc) /\ d.id = file
        BY <3>4, <4>1 DEF ReadTwice, Read, Asset
      <4>. QED
        BY <4>2 DEF WithFacts
    <3>8. attrs[assets[j].id] \in AttrOptions
      BY <1>5, <3>1, <3>2, <3>7
    <3>9. Judge(attrs[assets[j].id], assets[j], v).tier \in {TierEmulated, TierNative}
      BY <1>4, <1>8, <3>1, <3>4, <3>5, <3>6, <3>8, CandidateRuns
    <3>. QED
      BY <2>2, <2>3, <3>9 DEF judged, Judged
  <2>. QED
    BY <1>8, <2>1, <2>2, <2>3, JudgedIsChosen DEF assets, v
<1>. QED
  BY <1>6, <1>7, <1>8 DEF assets, v

\* The rules do so too, on the release or on the pinned file.
LEMMA RulesTurnNobodyAway ==
  ASSUME NEW r, HeardOut(r), NEW i, Hears(r, i), r.pin \in {NoPin, i}, NEW libc \in Libcs
  PROVE  RuleDecision(r, Described(r, libc)).status # "incompatible"
<1> DEFINE assets == Described(r, libc)
           v      == r.v
           file   == r.files[i]
           m      == Seen(r, i)
<1>1. i \in DOMAIN assets /\ assets[i] = ReadTwice(file, m, libc)
  BY EnrichedIsReadTwice DEF Described, Hears
<1>2. Heard(file, m, v) /\ Undisputed(assets[i])
  <2>1. Enriched(r, i, libc) = assets[i] /\ i \in DOMAIN r.files
    BY DEF Described, Hears
  <2>. QED
    BY <2>1 DEF HeardOut, Hears
<1>3. v.cpu # "" /\ v.libc = "" /\ FormatRank(NameOf(file).ext, v) < Len(Extensions(v))
  BY DEF Hears
<1> HIDE DEF assets, v, file, m
<1>4. v.os \in Platforms => Verdict(assets[i], assets[i].facts, v) \in {"candidate", "conflict", "unresolved"}
  <2>1. ~NotAProgram(ReadTwice(file, m, libc).facts)
    BY <1>1, <1>2 DEF Undisputed
  <2>2. v.os \in Platforms =>
          Verdict(ReadTwice(file, m, libc), ReadTwice(file, m, libc).facts, v) \in {"candidate", "conflict", "unresolved"}
    BY <1>2, <1>3, <2>1, RulesHear
  <2>. QED
    BY <1>1, <2>2
<1>5. CASE r.pin = NoPin
  <2>1. RuleDecision(r, assets) = DecideAsset(assets, v)
    BY <1>5 DEF RuleDecision, v
  <2>2. DecideAsset(assets, v).status # "incompatible"
    BY <1>1, <1>4, RulesKeepTrying
  <2>. QED
    BY <2>1, <2>2 DEF assets
<1>6. CASE r.pin # NoPin /\ r.pin = i
  <2> DEFINE one == <<assets[i]>>
  <2>1. RuleDecision(r, assets) = OnlyPinned(DecideAsset(one, v), i)
    BY <1>6 DEF RuleDecision, v
  <2>2. 1 \in DOMAIN one /\ one[1] = assets[i]
    OBVIOUS
  <2> HIDE DEF one
  <2>3. v.os \in Platforms => Verdict(one[1], one[1].facts, v) \in {"candidate", "conflict", "unresolved"}
    BY <1>4, <2>2
  <2>4. DecideAsset(one, v).status # "incompatible"
        /\ OnlyPinned(DecideAsset(one, v), i).status = DecideAsset(one, v).status
    BY <2>2, <2>3, RulesKeepTrying
  <2>. QED
    BY <2>1, <2>4 DEF assets
<1>. QED
  BY <1>5, <1>6

\* Rules or Jev say that nothing in the release runs for the visitor.
Rejected(r) ==
  \E libc \in Libcs :
    \/ RuleDecision(r, Described(r, libc)).status = "incompatible"
    \/ \E attrs \in [{r.files[i] : i \in DOMAIN r.files} -> AttrOptions] :
         \E ch : JevDecision(Described(r, libc), r.v, attrs, ch).status = "incompatible"

\* Nobody says so of a request that has heard from its scans of a file that runs.
LEMMA HeardIsNotRejected ==
  ASSUME PlacesInv, NEW r, r.files \in Seq(DOMAIN release.contents), HeardOut(r),
         \A j \in DOMAIN r.files : Settled(r, j), NEW i, Hears(r, i), r.pin \in {NoPin, i}
  PROVE  ~Rejected(r)
BY RulesTurnNobodyAway, JevKeepsTrying DEF Rejected

\* A decision against every file is the rules' or Jev's: offers and pins add none.
LEMMA DecisionsReject ==
  ASSUME NEW r, NEW libc \in Libcs, NEW c \in Decisions(r, Described(r, libc)), c.d.status = "incompatible"
  PROVE  Rejected(r)
<1> DEFINE assets == Described(r, libc)
           ids    == {r.files[i] : i \in DOMAIN r.files}
           choices(attrs) == ChoicesAmong(Runnable(Judged(assets, r.v, attrs)))
           byJev  == UNION {{JevDecision(assets, r.v, attrs, ch) : ch \in choices(attrs)} : attrs \in [ids -> AttrOptions]}
           byOffer(o) == [status |-> "selected", asset |-> r.pin, confidence |-> o.confidence]
<1>1. \/ c \in {[d |-> byOffer(o), how |-> "offer"] : o \in OfferedDownload(r, assets)}
      \/ c \in {[d |-> RuleDecision(r, assets), how |-> "rules"]}
      \/ c \in {[d |-> PinChecked(r, assets, d), how |-> "jev"] : d \in byJev}
  BY Zenon DEF Decisions
<1> HIDE DEF assets
<1>2. CASE c \in {[d |-> byOffer(o), how |-> "offer"] : o \in OfferedDownload(r, assets)}
  BY <1>2
<1>3. CASE c \in {[d |-> RuleDecision(r, assets), how |-> "rules"]}
  <2>1. c.d = RuleDecision(r, assets)
    BY <1>3
  <2>. QED
    BY <2>1 DEF Rejected, assets
<1>4. CASE c \in {[d |-> PinChecked(r, assets, d), how |-> "jev"] : d \in byJev}
  <2>1. PICK d \in byJev : c.d = PinChecked(r, assets, d)
    <3> HIDE DEF byJev
    <3>. QED
      BY <1>4
  <2>2. PICK attrs \in [ids -> AttrOptions] : \E ch \in choices(attrs) : d = JevDecision(assets, r.v, attrs, ch)
    BY <2>1
  <2>3. PICK ch : d = JevDecision(assets, r.v, attrs, ch)
    BY <2>2
  <2>4. c.d = d
    <3>1. c.d # Abstain("unknown")
      BY DEF Abstain
    <3>. QED
      BY <2>1, <3>1 DEF PinChecked
  <2>. QED
    BY <2>3, <2>4 DEF Rejected, assets
<1>. QED
  BY <1>1, <1>2, <1>3, <1>4

\* As long as the release is the same, so is what is said of its files.
LEMMA RejectedStays ==
  ASSUME release' = release, NEW r, Rejected(r)
  PROVE  Rejected(r)'
<1>1. \A libc : Described(r, libc)' = Described(r, libc)
  BY SameEvidence DEF Described
<1>. QED
  BY <1>1 DEF Rejected

\* A link that says so was made on such a decision.
RejectedInv == Answered /\ answer.kind = "link" /\ answer.status = "incompatible" => Rejected(answer.req)

LEMMA RejectedStep == AcceptedInv /\ RejectedInv /\ [Next]_vars => RejectedInv'
<1>. SUFFICES ASSUME AcceptedInv, RejectedInv, [Next]_vars PROVE RejectedInv'
  OBVIOUS
<1>1. release' = release
  BY PlacesAreKept DEF AcceptedInv
<1>2. CASE answer' = answer \/ answer' = NoAnswer
  BY <1>1, <1>2, RejectedStays DEF RejectedInv, Answered
<1>3. CASE Answer
  <2> DEFINE said(c) == [kind |-> req.kind, req |-> req, how |-> c.how, status |-> c.d.status,
                         served |-> IF ShouldAutoSelect(c.d) THEN {[v |-> req.v, place |-> c.d.asset]} ELSE {}]
  <2>8. PICK libc \in Libcs : \E c \in Decisions(req, Described(req, libc)) : answer' = said(c)
    BY <1>3, Zenon DEF Answer
  <2>1. PICK c \in Decisions(req, Described(req, libc)) : answer' = said(c)
    BY <2>8, Zenon
  <2>2. answer'.req = req /\ answer'.status = c.d.status
    BY <2>1
  <2>3. answer'.status = "incompatible" => Rejected(answer'.req)
    BY <2>2, DecisionsReject
  <2>4. answer'.status = "incompatible" => Rejected(answer.req)'
    BY <1>1, <2>3, RejectedStays
  <2>. QED
    BY <2>4 DEF RejectedInv
<1>4. CASE AnswerPage
  <2>1. answer'.kind = "page"
    <3>1. PICK libc : answer' = [kind |-> "page", req |-> req, how |-> "rules", status |-> "",
                                 served |-> PagePicks(Described(req, libc))]
      BY <1>4 DEF AnswerPage
    <3>. QED
      BY <3>1
  <2>. QED
    BY <2>1 DEF RejectedInv
<1>. QED
  BY <1>2, <1>3, <1>4 DEF Next, vars, Ask, ProbeCached, ProbePasses, ProbeReads, ProbeFails, Deadline, Leave,
         ScanCompletes, Reupload, CacheExpires, OfferExpires, ManifestExpires, RefreshRelease

\* So where the scans were heard out, nobody for whom a file runs is told that none does.
LEMMA HeardMeansNotTurnedAway == AcceptedInv /\ RejectedInv /\ (Answered => HeardOut(answer.req)) => NotTurnedAway
<1>1. SUFFICES ASSUME AcceptedInv, RejectedInv, HeardOut(answer.req), Answered, answer.kind = "link",
                      answer.status = "incompatible", NEW i \in DOMAIN answer.req.files,
                      answer.req.pin \in {NoPin, i}, \A j \in DOMAIN answer.req.files : Settled(answer.req, j),
                      answer.req.v.cpu # "", answer.req.v.libc = "",
                      FormatRank(NameOf(answer.req.files[i]).ext, answer.req.v) < Len(Extensions(answer.req.v)),
                      RunsFor(answer.req.files[i], answer.req.v)
               PROVE  FALSE
  BY DEF NotTurnedAway
<1>2. Rejected(answer.req)
  BY <1>1 DEF RejectedInv
<1>3. Hears(answer.req, i)
  BY <1>1 DEF Hears
<1>4. answer.req.files \in Seq(DOMAIN release.contents) /\ PlacesInv
  BY <1>1 DEF AcceptedInv, WellAsked
<1>. QED
  BY <1>1, <1>2, <1>3, <1>4, HeardIsNotRejected

\* jev/decide.go, picker: as long as the full scans tell what the main programs are for,
\* a visitor who asks of a release whose every file was scanned, and for whom one of the
\* files runs, is not told that nothing runs on the system, whoever decides and whatever
\* the names, the publisher, the probes and the model say.
THEOREM NobodyIsTurnedAway == Spec /\ []ScanTellsTheMain => []NotTurnedAway
<1>1. Init => RejectedInv
  BY DEF Init, RejectedInv, Answered
<1>2. ScanTellsTheMain => (Answered => HeardOut(answer.req))
  BY DEF ScanTellsTheMain
<1>. QED
  BY <1>1, <1>2, ServedWasAccepted, RejectedStep, HeardMeansNotTurnedAway, PTL DEF Spec

=============================================================================
