------------------------------ MODULE Download ------------------------------
(***************************************************************************)
(* How a visitor comes by a file: src/backend/handlers.  A request reads   *)
(* the cached release, puts manifests, saved scans and a few live probes   *)
(* together into what is known of each file (enrichArtifacts), and asks    *)
(* Jev or the rules for one (pick).  /api/link shows the choice and        *)
(* remembers it as an offer; /dl with that pin downloads it; the release   *)
(* page, without Jev, carries a table of choices.                          *)
(*                                                                         *)
(* Files are identities (artifactIdentity): a file uploaded anew under the *)
(* name of another is another file, its Successor.  Shallow and Deep are   *)
(* what InspectArtifact and the scan worker find in them, RunsOn what they *)
(* really run on.  Jev is any answer it may give.  One request is under    *)
(* way at a time: requests meet only in the caches, whose other writers    *)
(* are steps of their own.                                                 *)
(***************************************************************************)
EXTENDS JevGate, Manifests

CONSTANTS Releases,        \* set of [files: sequence of files, contents, manifests,
                           \*         queries: what its visitors send to ResolveVisitor];
                           \* contents[f] is [name, shallow, deep, runsOn, successor]
          PickTargets,     \* visitors the release page has picks for
          AttrOptions,     \* what Describe may say of a file
          ChoiceOptions,   \* [p, insufficient, runnerUp] of answers to choose
          MaxPlaces,       \* files of the largest release
          Libcs,           \* which libc of two NamedLibc may reach first
          ProbeBudget,     \* live probes per request: 4 in the code
          Modes            \* is Jev configured: subset of BOOLEAN

ASSUME DownloadAssumption ==
  /\ ProbeBudget \in Nat
  /\ \A r \in Releases : /\ r.files \in Seq(DOMAIN r.contents)
                         /\ \A f \in DOMAIN r.contents : /\ r.contents[f].successor \in DOMAIN r.contents
                                                        /\ r.contents[f].name.variants \in Nat
                                                        /\ IsFiniteSet(r.contents[f].deep.targets)
                                                        /\ \A t \in r.contents[f].deep.targets : NormalizedArch(t.cpu) = t.cpu
  /\ \A attrs \in AttrOptions : DOMAIN attrs = {"os", "osP", "cpu", "cpuP", "main"}
  /\ Modes \subseteq BOOLEAN

VARIABLES
  release,    \* the repository's release: its first files, manifests and visitors
  primary,    \* Jev is configured
  upstream,   \* the file at each place of the release, at GitHub
  known,      \* the file at each place in the cached release
  manifest,   \* cached manifest facts of the known files: "unread", "read", "failed"
  cached,     \* files whose content observation is cached
  scans,      \* scan record of each place: [file, state]
  offers,     \* remembered downloads: [v, file, confidence]; how and evidence: see Evidence
  req,        \* the request under way, Idle between requests
  answer      \* the answer just given, NoAnswer otherwise

vars == <<release, primary, upstream, known, manifest, cached, scans, offers, req, answer>>

Idle == [kind |-> "idle"]
NoAnswer == [kind |-> "none"]
Answered == answer # NoAnswer

\* The release page asks for no visitor.
Nobody == [os |-> "unknown", cpu |-> "", libc |-> "", prefer |-> "", distro |-> ""]

NoRecord == [file |-> 0, state |-> "none"]

AnyLibc == "gnu"   \* ranks and scan needs do not depend on the libc of a name

-----------------------------------------------------------------------------
(* What is known of a file *)

NameOf(file)    == release.contents[file].name
Shallow(file)   == release.contents[file].shallow
Deep(file)      == release.contents[file].deep
RunsOn(file)    == release.contents[file].runsOn
Successor(file) == release.contents[file].successor

Asset(file, artifact) == [id |-> file, name |-> NameOf(file), state |-> "uploaded", artifact |-> artifact]

\* The first facts: what the publisher's manifests say.
Published(file, facts) ==
  IF facts = "unread" THEN NoFact
  ELSE ReleaseMetadata(release.manifests, {release.manifests[i] : i \in {j \in DOMAIN release.manifests : facts = "read"}},
                       NameOf(file))

CompleteScanTargets(m) == ~m.partial /\ m.targets # {} /\ \A t \in m.targets : t.os # "" /\ t.cpu # ""

\* A full scan that settles the file, proof that it is of no use included.
AuthoritativeScan(m) ==
  \/ m.status = "failed"
  \/ ~m.partial /\ (CompleteScanTargets(m) \/ (m.status = "inspected" /\ m.role \in {"source", "metadata", "debug"}))

\* A scan that settles nothing keeps the fast facts, unless it is a sample.
AppendScanEvidence(m, scan) ==
  IF scan.partial THEN MergeObservations(m, scan) ELSE [m EXCEPT !.sources = @ \cup scan.sources]

NeedsDeepInspection(a) ==
  LET f       == a.facts
      desktop == f.os \cap {"windows", "macos", "linux"} # {}
  IN /\ a.state \in {"", "uploaded"} /\ ~NotAProgram(f)
     /\ desktop \/ (f.os = {} /\ "firmware" \notin f.marks)
     /\ \/ a.name.ext \in {"dmg", "exe", "msi", "pkg", "msix", "msixbundle", "appx", "appxbundle", "flatpak"}
        \/ /\ a.name.ext \in {"zip", "7z", "tar", "tar.gz", "gz", "tgz", "tar.xz", "xz", "txz", "tar.bz2", "bz2", "tar.zst",
                              "zst", "tzst", "rar", "deb", "rpm", "appimage"}
           /\ ~(Observed(a.artifact) /\ CompleteScanTargets(a.artifact))

\* Unknown systems first, then packages and launchers of unknown kind, then unknown CPUs.
NoProbe == 9

InspectionRank(a) ==
  LET f == a.facts
  IN IF NotAProgram(f) THEN NoProbe
     ELSE IF f.targets = {} \/ \E t \in f.targets : t.os = "" THEN 0
     ELSE IF a.name.ext \in {"apk", "appimage"} THEN 1
     ELSE IF \E t \in f.targets : t.cpu = "" THEN 2
     ELSE NoProbe

\* A request keeps, per place: files; records, the saved scans it read; rank, the
\* turn of its probe, NoProbe when there is none left to make; got, what the probe
\* brought ("", "content" or "broken").
Settled(r, i) == r.records[i] /\ AuthoritativeScan(Deep(r.files[i]))

Merged(base, seen) == IF base = NoFact THEN seen ELSE MergeObservations(base, seen)

\* The evidence that a request has about a file: facts, then the saved scan or the probe.
Seen(r, i) ==
  LET file   == r.files[i]
      base   == Published(file, r.facts)
      probed == CASE r.got[i] = "content" -> Merged(base, Shallow(file))
                  [] r.got[i] = "broken" -> Merged(base, [NoFact EXCEPT !.status = "failed"])
                  [] OTHER -> base
  IN IF Settled(r, i) THEN Merged(base, Deep(file))
     ELSE IF r.records[i] THEN AppendScanEvidence(probed, Deep(file))
     ELSE probed

\* enrichArtifacts, for one file: the evidence, then the description.
Enriched(r, i, libc) ==
  LET file == r.files[i]
  IN WithFacts(Asset(file, DescribeAsset(WithFacts(Asset(file, Seen(r, i)), libc))), libc)

Described(r, libc) == [i \in DOMAIN r.files |-> Enriched(r, i, libc)]

\* What is known before any scan or probe, and the turn of each probe.
Base(file, facts) == WithFacts(Asset(file, Published(file, facts)), AnyLibc)

ProbeRanks(r) == [i \in DOMAIN r.files |-> IF Settled(r, i) THEN NoProbe ELSE InspectionRank(Base(r.files[i], r.facts))]

Waiting(r) == {i \in DOMAIN r.rank : r.rank[i] # NoProbe}

-----------------------------------------------------------------------------
(* The choice *)

NoPin == 0

Live(v, file) == {o \in offers : o.v = v /\ o.file = file}

\* Mutant: an offer of medium confidence does not last.
OfferedIfHigh(r, assets) ==
  IF r.pin = NoPin THEN {}
  ELSE {o \in Live(r.v, r.files[r.pin]) : ValidateSelection(assets[r.pin], r.v) /\ o.confidence = "high"}

\* An issued pin with unchanged identity and visitor that current evidence does not reject.
OfferedDownload(r, assets) ==
  IF r.pin = NoPin THEN {}
  ELSE {o \in Live(r.v, r.files[r.pin]) : ValidateSelection(assets[r.pin], r.v) /\ o.confidence \in {"medium", "high"}}

\* The rules on the pinned file alone, or on the release.
OnlyPinned(d, pin) == IF d.asset = NoAsset THEN d ELSE [d EXCEPT !.asset = pin]

RuleDecision(r, assets) ==
  IF r.pin = NoPin THEN DecideAsset(assets, r.v) ELSE OnlyPinned(DecideAsset(<<assets[r.pin]>>, r.v), r.pin)

\* Mutant: Jev's choice is downloaded, whatever was clicked.
PinIgnored(r, assets, d) == d

\* Jev's choice of the release; another file than the pinned one is no download.
PinChecked(r, assets, d) ==
  IF /\ r.pin # NoPin /\ ShouldAutoSelect(d)
     /\ d.asset # r.pin \/ ~ValidateSelection(assets[d.asset], r.v)
  THEN Abstain("unknown") ELSE d

\* The answers choose may give when it is asked about the files in pool.
ChoiceAnswers(pool) ==
  {ch \in {[option |-> o, p |-> c.p, insufficient |-> c.insufficient, runnerUp |-> c.runnerUp] :
             o \in pool \cup {Insufficient}, c \in ChoiceOptions} : ValidChoice(ch, pool)}

NoChoice == [option |-> Insufficient, p |-> 100, insufficient |-> 100, runnerUp |-> 0]

\* What choose may answer; it is asked only where several files run.
ChoicesAmong(pool) == IF Cardinality(pool) > 1 THEN ChoiceAnswers(pool) ELSE {NoChoice}

\* All that pick may decide: the offer, else Jev's answers or, on its failure, the rules.
Decisions(r, assets) ==
  LET ids   == {r.files[i] : i \in DOMAIN r.files}
      byJev == UNION {{JevDecision(assets, r.v, attrs, ch) : ch \in ChoicesAmong(Runnable(Judged(assets, r.v, attrs)))} :
                        attrs \in [ids -> AttrOptions]}
      rules == {[d |-> RuleDecision(r, assets), how |-> "rules"]}
  IN IF primary /\ OfferedDownload(r, assets) # {} THEN
        {[d |-> [status |-> "selected", asset |-> r.pin, confidence |-> o.confidence], how |-> "offer"] :
           o \in OfferedDownload(r, assets)}
     ELSE IF primary /\ ~TooMany(assets, r.v) THEN
        rules \cup {[d |-> PinChecked(r, assets, d), how |-> "jev"] : d \in byJev}
     ELSE rules

-----------------------------------------------------------------------------

Init ==
  /\ release \in Releases
  /\ primary \in Modes
  /\ upstream = release.files
  /\ known = release.files
  /\ manifest = "unread"
  /\ cached = {}
  /\ scans = [i \in DOMAIN release.files |-> NoRecord]
  /\ offers = {}
  /\ req = Idle
  /\ answer = NoAnswer

Places == DOMAIN known

\* A request comes in.  Manifest facts are read once and kept, a failure of some
\* included.  Saved scans are read and missing ones queued until storage fails:
\* reach is the number of places that were handled by then.
Ask(kind, v, pin) ==
  /\ ~Answered /\ req.kind = "idle"
  /\ kind \in {"page", "click"} \/ primary
  /\ pin # NoPin => kind # "page"
  /\ \E facts \in IF manifest = "unread" /\ release.manifests # <<>> THEN {"read", "failed"} ELSE {manifest},
        up \in BOOLEAN, reach \in 0 .. Len(known) :
       LET mine(i) == scans[i].file = known[i] /\ scans[i].state # "none"
           wanted(i) == /\ up /\ i <= reach /\ ~mine(i)
                        /\ NeedsDeepInspection(Base(known[i], facts))
           r == [kind |-> kind, v |-> v, pin |-> pin, files |-> known, facts |-> facts,
                 records |-> [i \in Places |-> up /\ mine(i) /\ scans[i].state = "done"],
                 rank |-> <<>>, probes |-> 0, got |-> [i \in Places |-> ""]]
       IN /\ up \/ reach = 0
          /\ manifest' = facts
          /\ scans' = [i \in Places |-> IF wanted(i) THEN [file |-> known[i], state |-> "queued"] ELSE scans[i]]
          /\ req' = [r EXCEPT !.rank = ProbeRanks(r)]
  /\ UNCHANGED <<release, primary, upstream, known, cached, offers, answer>>

\* The next probe.  A cached observation is free, a live one spends the budget,
\* and past the budget the file is left for a later request.
Probing(i) ==
  /\ req.kind # "idle" /\ i \in Waiting(req)
  /\ \A j \in Waiting(req) \ {i} : req.rank[i] < req.rank[j] \/ (req.rank[i] = req.rank[j] /\ i < j)

Probed(i, got, live) ==
  req' = [req EXCEPT !.rank[i] = NoProbe, !.got[i] = got, !.probes = IF live THEN @ + 1 ELSE @]

ProbeCached(i) ==
  /\ Probing(i) /\ req.files[i] \in cached
  /\ Probed(i, "content", FALSE)
  /\ UNCHANGED <<release, primary, upstream, known, manifest, cached, scans, offers, answer>>

ProbePasses(i) ==
  /\ Probing(i) /\ req.files[i] \notin cached /\ req.probes = ProbeBudget
  /\ Probed(i, "", FALSE)
  /\ UNCHANGED <<release, primary, upstream, known, manifest, cached, scans, offers, answer>>

\* A malformed file is known to be broken in this request only.
ProbeReads(i) ==
  LET file == req.files[i]
      ok   == Shallow(file).status # "failed"
  IN /\ Probing(i) /\ file \notin cached /\ req.probes < ProbeBudget /\ upstream[i] = file
     /\ Probed(i, IF ok THEN "content" ELSE "broken", TRUE)
     /\ cached' = IF ok THEN cached \cup {file} ELSE cached
     /\ UNCHANGED <<release, primary, upstream, known, manifest, scans, offers, answer>>

\* A file that cannot be reached says nothing.
ProbeFails(i) ==
  /\ Probing(i) /\ req.files[i] \notin cached /\ req.probes < ProbeBudget
  /\ Probed(i, "", TRUE)
  /\ UNCHANGED <<release, primary, upstream, known, manifest, cached, scans, offers, answer>>

\* The three seconds of enrichArtifacts are over.
Deadline ==
  /\ req.kind # "idle" /\ Waiting(req) # {}
  /\ req' = [req EXCEPT !.rank = [i \in DOMAIN @ |-> NoProbe]]
  /\ UNCHANGED <<release, primary, upstream, known, manifest, cached, scans, offers, answer>>

\* What a request knows about the file at a place.  Offers carry it, and who made
\* them, for OfferStands alone: the code remembers neither.
Evidence(r, i) == [facts |-> r.facts, record |-> r.records[i], got |-> r.got[i]]

\* The answer, and the offer that /api/link leaves behind.
Answer ==
  /\ req.kind \in {"link", "click"} /\ Waiting(req) = {}
  /\ \E libc \in Libcs :
       \E c \in Decisions(req, Described(req, libc)) :
         LET served == ShouldAutoSelect(c.d)
             offer  == [v |-> req.v, file |-> req.files[c.d.asset], confidence |-> c.d.confidence,
                        how |-> c.how, seen |-> Evidence(req, c.d.asset)]
         IN /\ answer' = [kind |-> req.kind, req |-> req, how |-> c.how, status |-> c.d.status,
                          served |-> IF served THEN {[v |-> req.v, place |-> c.d.asset]} ELSE {}]
            /\ offers' = IF req.kind = "link" /\ primary /\ req.pin = NoPin /\ served
                         THEN (offers \ Live(offer.v, offer.file)) \cup {offer} ELSE offers
  /\ req' = Idle
  /\ UNCHANGED <<release, primary, upstream, known, manifest, cached, scans>>

\* The release page: picks for the common visitors, without Jev only.
PagePicks(assets) ==
  {[v |-> v, place |-> DecideAsset(assets, v).asset] : v \in {w \in PickTargets : ~primary /\ ShouldAutoSelect(DecideAsset(assets, w))}}

AnswerPage ==
  /\ req.kind = "page" /\ Waiting(req) = {}
  /\ \E libc \in Libcs :
       answer' = [kind |-> "page", req |-> req, how |-> "rules", status |-> "", served |-> PagePicks(Described(req, libc))]
  /\ req' = Idle
  /\ UNCHANGED <<release, primary, upstream, known, manifest, cached, scans, offers>>

\* The visitor takes the answer.  Nothing comes between, as nothing else in the
\* state depends on it.
Leave ==
  /\ Answered
  /\ answer' = NoAnswer
  /\ UNCHANGED <<release, primary, upstream, known, manifest, cached, scans, offers, req>>

\* The scan worker ends a scan.  A file that was replaced, or that an extractor
\* fails on, is given up after its retries.
ScanCompletes(i) ==
  /\ ~Answered
  /\ scans[i].state = "queued"
  /\ scans' = [scans EXCEPT ![i].state =
                 IF upstream[i] = scans[i].file /\ Deep(scans[i].file).status # "error" THEN "done" ELSE "gave up"]
  /\ UNCHANGED <<release, primary, upstream, known, manifest, cached, offers, req, answer>>

\* Manifest facts, observations and offers expire, and the release, which is kept for
\* a shorter time.
CacheExpires(file) ==
  /\ ~Answered
  /\ cached' = cached \ {file}
  /\ UNCHANGED <<release, primary, upstream, known, manifest, scans, offers, req, answer>>

ManifestExpires ==
  /\ ~Answered
  /\ manifest # "unread"
  /\ manifest' = "unread"
  /\ UNCHANGED <<release, primary, upstream, known, cached, scans, offers, req, answer>>

OfferExpires(o) ==
  /\ ~Answered
  /\ offers' = offers \ {o}
  /\ UNCHANGED <<release, primary, upstream, known, manifest, cached, scans, req, answer>>

RefreshRelease ==
  /\ ~Answered
  /\ known # upstream
  /\ known' = upstream
  /\ manifest' = "unread"
  /\ UNCHANGED <<release, primary, upstream, cached, scans, offers, req, answer>>

\* The publisher uploads another file under the same name.
Reupload(i) ==
  /\ ~Answered
  /\ Successor(upstream[i]) # upstream[i]
  /\ upstream' = [upstream EXCEPT ![i] = Successor(@)]
  /\ UNCHANGED <<release, primary, known, manifest, cached, scans, offers, req, answer>>

Next ==
  \/ \E q \in release.queries, pin \in {NoPin} \cup Places, kind \in {"link", "click"} : Ask(kind, ResolveVisitor(q), pin)
  \/ Ask("page", Nobody, NoPin)
  \/ \E i \in Places : ProbeCached(i) \/ ProbePasses(i) \/ ProbeReads(i) \/ ProbeFails(i)
  \/ Deadline
  \/ Answer
  \/ AnswerPage
  \/ Leave
  \/ \E i \in Places : ScanCompletes(i) \/ Reupload(i)
  \/ \E f \in cached : CacheExpires(f)
  \/ \E o \in offers : OfferExpires(o)
  \/ ManifestExpires
  \/ RefreshRelease

Spec == Init /\ [][Next]_vars

\* Pages keep being loaded and requests end: artifacts.go bounds the reads of each by
\* three seconds.  A file that is asked for again and again is reachable at times.
FairSpec ==
  /\ Spec
  /\ []<>(req = Idle /\ ~Answered)
  /\ WF_vars(Ask("page", Nobody, NoPin))
  /\ \A i \in 1 .. MaxPlaces : SF_vars(ProbeReads(i))

-----------------------------------------------------------------------------
(* Properties *)

RunsFor(file, v) ==
  \E t \in RunsOn(file) : t.os = v.os /\ (v.cpu = "" \/ t.cpu = v.cpu \/ Emulates(v.os, v.cpu, t.cpu))

\* Whom a target is for, of those who ask for no libc.
Suits(t, v) == t.os = v.os /\ (t.cpu = v.cpu \/ Emulates(v.os, v.cpu, t.cpu))

\* What a request knows of a file tells that it runs for v.
Heard(file, m, v) ==
  /\ CompleteScanTargets(m) /\ m.status = "inspected"
  /\ \E t \in m.targets : Suits(t, v) /\ (NameOf(file).ext = "appimage" => m.launcher \in {"", t.cpu})

\* Nothing speaks against a file but, perhaps, the systems and CPUs in its name.
Undisputed(a) == ~NotAProgram(a.facts) /\ a.facts.conflicts \subseteq {FilenameConflict}

\* The worker leaves its mark on what it has found.
ScanIsDeep(m) == CompleteScanTargets(m) => m.status \in {"failed", "inspected"} /\ "deep-inspection" \in m.sources

\* A file that can only be emulated has one target, so Jev's guess of its CPU gives way.
SureIfEmulated(a, v) == Assess(a, v).emulated => \A t, u \in a.artifact.targets : t.os = u.os /\ t.cpu = u.cpu

\* The scans of a request are marked, and it hears from them for whom its files run.
HeardOut(r) ==
  /\ r.v.cpu # "not stated"
  /\ \A i \in DOMAIN r.files, libc \in Libcs :
       LET file == r.files[i]  a == Enriched(r, i, libc)
       IN Settled(r, i) =>
            /\ ScanIsDeep(Deep(file))
            /\ SureIfEmulated(a, r.v)
            /\ RunsFor(file, r.v) /\ r.v.cpu # "" /\ r.v.libc = "" => Heard(file, Seen(r, i), r.v) /\ Undisputed(a)

\* What a finished scan says of a file, when it speaks for all of it, is what the
\* main program of the file is for: helpers, installers' stubs, libraries and
\* uninstallers add no system and no CPU, and none of them is taken for the program.
\* (The launcher of an AppImage is reported beside the program and may differ.)
NothingButTheMain ==
  \A i \in Places :
    LET scan == Deep(scans[i].file)
    IN scans[i].state = "done" /\ scan.status # "failed" /\ AuthoritativeScan(scan) =>
         \A t \in scan.targets :
           (NameOf(scans[i].file).ext = "appimage" => scan.launcher \in {"", t.cpu})
             => [os |-> t.os, cpu |-> t.cpu] \in RunsOn(scans[i].file)

\* A finished scan tells what the main program of the file is for, no more and no
\* less: nothing else in the file counts, and a request hears of every system and CPU
\* that the program runs on, whatever the name and the publisher say.
ScanTellsTheMain == NothingButTheMain /\ (Answered => HeardOut(answer.req))

\* A bounded sample that does not call itself partial has missed no system and no
\* CPU of the main program, whatever was left unread.  (The header of a setup
\* program is not a sample of what it installs.)
SampleMissesNothing ==
  \A file \in cached :
    LET m == Shallow(file)
    IN m.role = "application" /\ ~m.partial /\ m.conflicts = {} /\ NameOf(file).ext # "exe" =>
         \A t \in RunsOn(file) : \E s \in m.targets : Meets(s.os, t.os) /\ Meets(s.cpu, t.cpu)

\* A file whose finished scan settled what it is is given only to visitors for whom
\* it runs, whoever decides, whatever its name, its publisher and the model say.
ScannedRuns ==
  Answered => \A s \in answer.served :
    Settled(answer.req, s.place) => RunsFor(answer.req.files[s.place], s.v)

\* A file that this request saw to be broken is not given out, not even to a
\* visitor who was offered it before.  (A full scan that found programs in a
\* sample of the file overrides a probe that could not read it.)
BrokenNeverServed ==
  Answered => \A s \in answer.served :
    LET scan == IF answer.req.records[s.place] THEN Deep(answer.req.files[s.place]) ELSE NoFact
    IN scan.status # "failed" /\ (scan.partial \/ answer.req.got[s.place] # "broken")

\* A click on a shown file downloads that file or nothing.
PinnedOrNothing ==
  Answered /\ answer.req.pin # NoPin => \A s \in answer.served : s.place = answer.req.pin

\* What Jev offered is downloaded as long as the offer lives and the evidence about
\* the file is what it was, whatever Jev would say of the other files by then.  (A
\* name with the tokens of gnu and of static alike is read anew each time: NamedLibc.)
OfferStands ==
  Answered /\ answer.kind = "click" /\ answer.req.pin # NoPin =>
    \A o \in Live(answer.req.v, answer.req.files[answer.req.pin]) :
      o.how = "jev" /\ o.seen = Evidence(answer.req, answer.req.pin) /\ NameOf(o.file).libc # {"gnu", "static"} =>
        answer.served = {[v |-> o.v, place |-> answer.req.pin]}

\* Where every file was settled by a scan, nobody for whom one of them runs, in a
\* format that the catalogue knows, is told that nothing here runs on the system.
\* (A link with a pin is about the pinned file alone; who asks for a libc may be
\* refused for that.)
NotTurnedAway ==
  Answered /\ answer.kind = "link" /\ answer.status = "incompatible" =>
    ~\E i \in DOMAIN answer.req.files :
        /\ answer.req.pin \in {NoPin, i}
        /\ \A j \in DOMAIN answer.req.files : Settled(answer.req, j)
        /\ answer.req.v.cpu # "" /\ answer.req.v.libc = ""
        /\ FormatRank(NameOf(answer.req.files[i]).ext, answer.req.v) < Len(Extensions(answer.req.v))
        /\ RunsFor(answer.req.files[i], answer.req.v)

\* artifacts.go:64: "repeated requests fill in every uncertain asset a few at a
\* time".  A file that a probe can tell about comes to be known, again whenever the
\* cache has dropped it.
RepeatedRequestsFillIn ==
  LET uncertain(i) == /\ upstream[i] = known[i] /\ Shallow(known[i]).status # "failed" /\ scans[i].state # "done"
                      /\ InspectionRank(Base(known[i], manifest)) # NoProbe
  IN \A i \in 1 .. MaxPlaces : []<>(i \in Places /\ uncertain(i) => known[i] \in cached)
=============================================================================
