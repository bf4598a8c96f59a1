------------------------------- MODULE Picker -------------------------------
(***************************************************************************)
(* The rule picker of src/backend/picker: what a release file's name and   *)
(* the observations about it say (Classify, FactsForAsset), and which file *)
(* a visitor is given (DecideAsset).  A name is the set of catalogue       *)
(* tokens found in it; catalog.json supplies their meaning.                *)
(*                                                                         *)
(*   name     [os, cpu, libc, marks : sets of tokens, ext, variants]       *)
(*   target   [os, cpu, libc], "" where nothing is known                   *)
(*   observed what an inspection reports: [status, role, targets, partial, *)
(*            launcher, conflicts, sources]; Unobserved stands for nil     *)
(*   asset    [id, name, state, artifact], and facts where the code asks   *)
(*            FactsForAsset for them                                       *)
(*   visitor  [os, cpu, libc, prefer, distro]                              *)
(***************************************************************************)
EXTENDS Integers, FiniteSets, Sequences

Unobserved == [status |-> "", role |-> "unknown", targets |-> {}, partial |-> FALSE,
               launcher |-> "", conflicts |-> {}, sources |-> {}]

-----------------------------------------------------------------------------
(* catalog.json *)

PlatformExts ==
  [windows |-> <<"exe", "msi", "msix", "appx", "zip", "tar", "tar.zst", "tzst", "xz", "zst", "7z", "jar">>,
   macos   |-> <<"dmg", "pkg", "zip", "tar.gz", "tgz", "gz", "tar", "tar.zst", "tzst", "xz", "zst", "7z", "jar">>,
   linux   |-> <<"appimage", "deb", "rpm", "flatpak", "snap", "apk", "tar.gz", "tgz", "tar.xz", "txz", "gz",
                 "zip", "tar", "tar.zst", "tzst", "xz", "zst", "7z", "jar">>,
   android |-> <<"apk", "aab", "zip", "tar.gz", "tgz", "tar.xz", "txz", "tar", "tar.zst", "tzst", "xz", "zst", "7z">>,
   ios     |-> <<"ipa">>]

Platforms == DOMAIN PlatformExts

FormatOS(ext) ==
  CASE ext \in {"exe", "msi", "msix", "appx"} -> "windows"
    [] ext \in {"dmg", "pkg"} -> "macos"
    [] ext \in {"appimage", "deb", "rpm", "flatpak", "snap"} -> "linux"
    [] ext = "aab" -> "android"
    [] ext = "ipa" -> "ios"
    [] OTHER -> ""

Kind(ext) ==
  IF ext \in {"exe", "msi", "msix", "appx", "dmg", "pkg"} THEN "installer"
  ELSE IF ext \in {"deb", "rpm", "flatpak", "snap", "apk", "aab", "ipa"} THEN "package"
  ELSE IF ext = "appimage" THEN "executable"
  ELSE IF ext \in UNION {{PlatformExts[p][i] : i \in DOMAIN PlatformExts[p]} : p \in Platforms} THEN "archive"
  ELSE ""

PreferKey(ext) ==
  CASE ext = "tgz" -> "tar.gz" [] ext = "txz" -> "tar.xz" [] ext = "tzst" -> "tar.zst" [] OTHER -> ext

\* strings.HasSuffix(name, "." + ext): a compound extension also ends in its last part.
NameEndings(ext) ==
  {ext} \cup (CASE ext = "tar.gz" -> {"gz"} [] ext = "tar.xz" -> {"xz"} [] ext = "tar.zst" -> {"zst"} [] OTHER -> {})

\* The only cross-CPU fallbacks, closest first.
Emulation(os, cpu) ==
  CASE os = "windows" /\ cpu = "amd64" -> <<"386">>
    [] os = "windows" /\ cpu = "arm64" -> <<"amd64", "386">>
    [] os = "macos" /\ cpu = "arm64" -> <<"amd64">>
    [] OTHER -> <<>>

Emulates(os, cpu, program) == \E i \in DOMAIN Emulation(os, cpu) : Emulation(os, cpu)[i] = program

EmulationRank(os, cpu, program) ==
  CHOOSE i \in DOMAIN Emulation(os, cpu) : Emulation(os, cpu)[i] = program

-----------------------------------------------------------------------------
(* What the name says *)

\* Macs have no 32-bit builds: "arm" and "x86" mean the 64-bit CPU there.
ArchOf(token, mac) ==
  CASE token = "win32" -> "386"
    [] token = "arm" /\ mac -> "arm64"
    [] token = "x86" -> IF mac THEN "amd64" ELSE "386"
    [] OTHER -> token

Arches(n) ==
  LET mac    == "macos" \in n.os \/ n.ext \in {"dmg", "pkg"}
      tokens == IF Cardinality(n.cpu) > 1 THEN n.cpu \ {"win32"} ELSE n.cpu
      named  == {ArchOf(t, mac) : t \in tokens}
  IN IF mac /\ "universal" \in n.marks THEN {"amd64", "arm64"}
     ELSE IF "macos" \in n.os /\ named = {} /\ "apple" \in n.marks THEN {"arm64"}
     ELSE named

\* The libc of a name with the tokens in n.libc.  musl always wins; of gnu and
\* static the one the iteration over catalog.Libc, a Go map, reaches first:
\* first is that choice.
NamedLibc(n, first) ==
  CASE "musl" \in n.libc -> "musl"
    [] n.libc = {} -> ""
    [] n.libc = {"gnu", "static"} -> first
    [] OTHER -> CHOOSE l \in n.libc : TRUE

AndroidWithLinuxHost(os) == os = {"android", "linux"}

FilenameRole(n) ==
  IF "sidecar" \in n.marks THEN "metadata"
  ELSE IF "source" \in n.marks THEN "source"
  ELSE IF "symbols" \in n.marks THEN "debug"
  ELSE IF Kind(n.ext) = "installer" THEN "installer"
  ELSE IF Kind(n.ext) \in {"package", "executable"} \/ n.os # {} THEN "application"
  ELSE "unknown"

FilenameTargets(os, cpu, libc, ext) ==
  LET named == IF AndroidWithLinuxHost(os) THEN {"android"}
               ELSE IF os = {} THEN {FormatOS(ext)} ELSE os
      cpus  == IF cpu = {} THEN {""} ELSE cpu
  IN {t \in [os : named, cpu : cpus, libc : {libc}] : t.os # "" \/ t.cpu # ""}

IncompatiblePlatform(f, os) ==
  /\ f.os \ {os} # {}
  /\ ~(os = "android" /\ AndroidWithLinuxHost(f.os))

-----------------------------------------------------------------------------
(* What the name and the observations say together *)

Meets(x, y) == x = "" \/ y = "" \/ x = y

TargetsMeet(x, y) ==
  /\ Meets(x.os, y.os)
  /\ Meets(x.cpu, y.cpu)
  /\ Meets(x.libc, y.libc) \/ "static" \in {x.libc, y.libc}

Covers(from, to) == \A x \in from : \E y \in to : TargetsMeet(x, y)

TargetsAgree(a, b) == a = {} \/ b = {} \/ (Covers(a, b) /\ Covers(b, a))

\* Broad structural facts go once a header fills their gaps.
SpecificTargets(targets) ==
  LET Fills(gap, value) == gap = "" \/ gap = value
      Subsumed(t) == \E o \in targets \ {t} :
                        Fills(t.os, o.os) /\ Fills(t.cpu, o.cpu) /\ Fills(t.libc, o.libc)
  IN {t \in targets : ~Subsumed(t)}

FilenameConflict == "filename targets conflict with observed targets"

\* Contradictions that the name shows by itself.
NameConflicts(a) ==
  LET n == a.name  m == a.artifact
  IN { c \in {"several systems", "package format"} :
         /\ ~AndroidWithLinuxHost(n.os)
         /\ CASE c = "several systems" -> Cardinality(n.os) > 1 /\ ~(m.status = "inspected" /\ m.targets # {})
              [] c = "package format" -> FormatOS(n.ext) # "" /\ n.os \ {FormatOS(n.ext)} # {} }

\* The observed targets with the gaps the name can fill.
FilledTargets(m, named, cpu, libc) ==
  { [os   |-> IF t.os = "" /\ Cardinality(named) = 1 THEN (CHOOSE x \in named : TRUE).os ELSE t.os,
     cpu  |-> IF t.cpu = "" /\ Cardinality(cpu) = 1 /\ ~m.partial THEN CHOOSE c \in cpu : TRUE ELSE t.cpu,
     libc |-> IF t.libc = "" THEN libc ELSE t.libc] : t \in m.targets }

\* An AppImage runs through a launcher whose CPU must be that of its payload.
LauncherTargets(ext, launcher, targets) ==
  IF ext # "appimage" \/ launcher = "" THEN targets
  ELSE {t \in {IF t.cpu = "" THEN [t EXCEPT !.cpu = launcher] ELSE t : t \in targets} : t.cpu = launcher}

LauncherConflicts(ext, launcher, cpu, targets) ==
  IF ext # "appimage" \/ launcher = "" THEN {}
  ELSE {c \in {"launcher and filename", "launcher and payload"} :
          CASE c = "launcher and filename" -> cpu # {} /\ launcher \notin cpu
            [] c = "launcher and payload" -> targets # {} /\ \A t \in targets : t.cpu \notin {"", launcher}}

\* A dmg that names no CPU is taken to be universal.
DmgTargets(ext, targets) ==
  IF ext # "dmg" THEN targets
  ELSE UNION {IF t.os = "macos" /\ t.cpu = ""
              THEN {[t EXCEPT !.cpu = "amd64"], [t EXCEPT !.cpu = "arm64"]} ELSE {t} : t \in targets}

FactsForAsset(a, first) ==
  LET n        == a.name
      m        == a.artifact
      libc     == NamedLibc(n, first)
      cpu      == Arches(n)
      roleSeen == m.role \notin {"", "unknown"}
      named    == FilenameTargets(n.os, cpu, libc, n.ext)
      filled   == FilledTargets(m, named, cpu, libc)
      targets  == IF m.targets # {} THEN SpecificTargets(filled) ELSE IF m.partial THEN {} ELSE named
  IN [os         |-> n.os,
      cpu        |-> cpu,
      libc       |-> libc,
      ext        |-> IF Kind(n.ext) = "" THEN "" ELSE n.ext,
      suffix     |-> n.ext,
      kind       |-> Kind(n.ext),
      formatOS   |-> FormatOS(n.ext),
      marks      |-> n.marks,
      variants   |-> n.variants,
      nonNative  |-> "wasm" \in n.marks,
      role       |-> IF roleSeen THEN m.role ELSE FilenameRole(n),
      inspection |-> IF m.status # "" THEN m.status ELSE "unknown",
      partial    |-> m.partial,
      launcher   |-> m.launcher,
      targets    |-> DmgTargets(n.ext, LauncherTargets(n.ext, m.launcher, targets)),
      conflicts  |-> UNION {NameConflicts(a), m.conflicts,
                            LauncherConflicts(n.ext, m.launcher, cpu, targets),
                            IF roleSeen /\ FilenameRole(n) \in {"source", "debug", "metadata"} /\ m.role # FilenameRole(n)
                            THEN {"role"} ELSE {},
                            IF ~m.partial /\ ~TargetsAgree(named, filled)
                            THEN {FilenameConflict} ELSE {}}]

NotAProgram(f) == f.role \in {"source", "debug", "metadata"} \/ f.nonNative

WithFacts(a, first) ==
  [id |-> a.id, name |-> a.name, state |-> a.state, artifact |-> a.artifact, facts |-> FactsForAsset(a, first)]

\* What the release payload and the decisions carry about a file.
DescribeAsset(a) ==
  [status |-> a.facts.inspection, role |-> a.facts.role, targets |-> a.facts.targets, partial |-> a.facts.partial,
   launcher |-> a.facts.launcher, conflicts |-> a.facts.conflicts, sources |-> a.artifact.sources]

\* Unchecked launchers and CPUs absent from a partial sample block a download.
NeedsVerification(f, v) ==
  /\ ~NotAProgram(f) /\ f.inspection # "failed"
  /\ ~(v.os # "unknown" /\ ( \/ f.formatOS \notin {"", v.os}
                             \/ f.partial /\ IncompatiblePlatform(f, v.os) ))
  /\ \/ f.ext = "appimage" /\ f.launcher = ""
     \/ /\ f.partial
        /\ ~\E t \in f.targets :
              /\ t.os = v.os /\ v.cpu # ""
              /\ t.cpu = v.cpu \/ Emulates(v.os, v.cpu, t.cpu)
              /\ v.libc = "" \/ t.libc \in {v.libc, "static"}

-----------------------------------------------------------------------------
(* Who asks *)

\* ua is the set of systems and CPUs the User-Agent mentions: an Android one
\* says Linux too, an iPhone's says Mac OS X.
DetectPlatform(ua) ==
  IF "windows" \in ua THEN "windows" ELSE IF "android" \in ua THEN "android" ELSE IF "ios" \in ua THEN "ios"
  ELSE IF "macos" \in ua THEN "macos" ELSE IF "linux" \in ua THEN "linux" ELSE "unknown"

DetectArch(ua) ==
  IF "arm64" \in ua THEN "arm64" ELSE IF "arm" \in ua THEN "arm" ELSE IF "amd64" \in ua THEN "amd64"
  ELSE IF "386" \in ua THEN "386" ELSE ""

\* The query wins, then the User-Agent; a script that names nothing gets linux/amd64.
ResolveVisitor(q) ==
  [os     |-> IF q.os \in Platforms THEN q.os
              ELSE IF DetectPlatform(q.ua) # "unknown" THEN DetectPlatform(q.ua)
              ELSE IF q.script THEN "linux"
              ELSE "unknown",
   cpu    |-> IF q.cpu = "unknown" THEN ""
              ELSE IF q.cpu # "" THEN q.cpu
              ELSE IF DetectArch(q.ua) # "" THEN DetectArch(q.ua)
              ELSE IF q.script THEN "amd64"
              ELSE "",
   libc   |-> q.libc,
   prefer |-> q.prefer,
   distro |-> IF "debian" \in q.ua THEN "deb" ELSE IF "fedora" \in q.ua THEN "rpm" ELSE ""]

-----------------------------------------------------------------------------
(* Which file the visitor gets *)

\* A Fedora or RHEL User-Agent swaps deb and rpm, unless a format is asked for.
Extensions(v) ==
  IF v.os = "linux" /\ v.prefer = "" /\ v.distro = "rpm"
  THEN [PlatformExts.linux EXCEPT ![2] = "rpm", ![3] = "deb"]
  ELSE PlatformExts[v.os]

NoRank == 99

\* The rank of the first listed extension the name ends in, -1 for the format
\* asked for, NoRank for none.
RankIn(exts, endings, prefer) ==
  LET hits == {i \in DOMAIN exts : exts[i] \in endings}
      hit  == CHOOSE i \in hits : \A j \in hits : i <= j
  IN IF hits = {} THEN NoRank ELSE IF prefer # "" /\ prefer = PreferKey(exts[hit]) THEN -1 ELSE hit - 1

ExtRank(ext, v) == RankIn(Extensions(v), NameEndings(ext), v.prefer)

\* DecideAsset's order of formats, which the model-backed picker shares.
FormatRank(ext, v) ==
  IF v.os \notin Platforms THEN 0
  ELSE IF ExtRank(ext, v) = NoRank THEN Len(Extensions(v)) ELSE ExtRank(ext, v)

\* An extensionless name, or one whose last dot belongs to a version.
NativeBinaryName(ext) == ext = ""

\* Mutant: only the CPU itself fits.
FitTargetsUnemulated(f, v) ==
  { t \in f.targets :
      /\ t.os \in {"", v.os}
      /\ v.cpu = "" \/ t.cpu = v.cpu
      /\ v.libc = "" \/ t.libc \in {"", v.libc, "static"} }

\* The targets of f that run for v.
FitTargets(f, v) ==
  { t \in f.targets :
      /\ t.os \in {"", v.os}
      /\ v.cpu = "" \/ t.cpu \in {"", v.cpu} \/ Emulates(v.os, v.cpu, t.cpu)
      /\ v.libc = "" \/ t.libc \in {"", v.libc, "static"} }

\* f narrowed to those targets.
FactsForTarget(f, v) ==
  LET fits == FitTargets(f, v)
  IN [f EXCEPT !.targets = fits,
               !.os = {t.os : t \in fits} \ {""},
               !.cpu = {t.cpu : t \in fits} \ {""}]

\* A native binary without an extension is ranked last, when it names the system.
RankFor(f, v) ==
  IF ExtRank(f.suffix, v) # NoRank THEN ExtRank(f.suffix, v)
  ELSE IF /\ v.os \in f.os
          /\ v.cpu = "" \/ v.cpu \in f.cpu
          /\ NativeBinaryName(f.suffix) \/ (f.inspection = "inspected" /\ f.role = "application")
       THEN Len(Extensions(v)) ELSE NoRank

ArchBitWidth(f) ==
  IF f.cpu \cap {"amd64", "arm64"} # {} THEN 0 ELSE IF f.cpu \cap {"386", "arm"} # {} THEN 2 ELSE 1

LibcPenalty(f, want) ==
  LET has == {t.libc : t \in f.targets}
  IN CASE want = "musl" -> IF has \cap {"musl", "static"} # {} THEN 0 ELSE IF "gnu" \in has THEN 2 ELSE 1
       [] want = "gnu" -> IF has \cap {"gnu", "static"} # {} THEN 0 ELSE IF "musl" \in has THEN 2 ELSE 1
       [] want = "static" -> IF "static" \in has THEN 0 ELSE 1
       [] OTHER -> IF "musl" \in has /\ "gnu" \notin has THEN 2 ELSE IF has \cap {"musl", "gnu"} # {} THEN 1 ELSE 0

EmulationCost(f, v) ==
  LET ranks == {EmulationRank(v.os, v.cpu, t.cpu) : t \in {x \in f.targets : Emulates(v.os, v.cpu, x.cpu)}}
  IN IF v.cpu = "" \/ ranks = {} \/ \E t \in f.targets : t.cpu \in {"", v.cpu} THEN 0
     ELSE CHOOSE r \in ranks : \A s \in ranks : r <= s

\* A macOS build for both Intel and Apple Silicon, judged on all its targets.
Universal(f, v) ==
  v.os = "macos" /\ {"amd64", "arm64"} \subseteq {t.cpu : t \in {x \in f.targets : x.os = "macos"}}

\* Files that are out before any ranking, and why.
Skipped(f, v) ==
  \/ NotAProgram(f)
  \/ f.targets = {} /\ (IncompatiblePlatform(f, v.os) \/ f.formatOS \notin {"", v.os})

Verdict(a, f, v) ==
  IF a.state \notin {"", "uploaded"} \/ NotAProgram(f) THEN "skipped"
  ELSE IF f.conflicts # {} THEN "conflict"
  ELSE IF f.inspection = "failed" THEN "unresolved"
  ELSE IF Skipped(f, v) THEN "skipped"
  ELSE IF NeedsVerification(f, v) THEN "unresolved"
  ELSE IF f.targets # {} /\ FitTargets(f, v) = {} THEN "unfit"
  ELSE IF RankFor(FactsForTarget(f, v), v) = NoRank THEN "unfit"
  ELSE "candidate"

\* A file that may yet turn out to fit: what it runs on is not known.
LeavesDoubt(a, f, v) ==
  \/ Verdict(a, f, v) = "unresolved"
  \/ Verdict(a, f, v) \in {"unfit", "candidate"} /\ (f.targets = {} \/ \E t \in f.targets : t.os = "")

Prefer(S, P(_)) == IF \E i \in S : P(i) THEN {i \in S : P(i)} ELSE S

\* Setup replaces a portable Windows build unless the format asked for is the portable one's.
SetupFirst(S, g, rank, v) ==
  LET portable == {i \in S : "portable" \in g[i].marks}
      setups   == {i \in S \ portable : g[i].kind = "installer" /\ (v.cpu = "" \/ g[i].cpu # {})}
      asked(T) == \E i \in T : rank[i] = -1
  IN IF v.os = "windows" /\ portable # {} /\ setups # {} /\ (~asked(S) \/ asked(setups)) THEN setups ELSE S

\* The candidates left after each policy step, in the code's order.
Shortlist(S, f, g, rank, v) ==
  LET hit(i)  == v.os \in g[i].os \/ g[i].formatOS = v.os
      main(i) == "cli" \notin g[i].marks
      cpu(i)  == v.cpu # "" /\ g[i].cpu # {}
      exact(i) == v.cpu # "" /\ v.cpu \in g[i].cpu
      both(i) == Universal(f[i], v)
      setup   == SetupFirst(Prefer(Prefer(S, hit), main), g, rank, v)
      known   == Prefer(setup, cpu)
      cost    == [i \in known |-> EmulationCost(g[i], v)]
      closest == {i \in known : \A j \in known : cost[i] <= cost[j]}
  IN Prefer(Prefer(closest, exact), both)

\* Lexicographic order on the scores.
Better(s, t) == \E i \in DOMAIN s : s[i] < t[i] /\ \A j \in 1 .. i - 1 : s[j] = t[j]

ConfidenceFor(g, v, tied) ==
  LET exclusive == g.formatOS = v.os /\ g.ext # ""
      hit       == v.os \in g.os \/ g.formatOS = v.os
      archHit   == v.cpu # "" /\ v.cpu \in g.cpu
  IN IF v.cpu # "" /\ g.cpu = {} THEN "low"
     ELSE IF tied THEN "low"
     ELSE IF ~hit /\ ~exclusive /\ g.formatOS = "" THEN "low"
     ELSE IF (hit \/ exclusive) /\ (v.cpu = "" \/ archHit) THEN "high"
     ELSE IF exclusive THEN "high"
     ELSE IF hit \/ archHit THEN "medium"
     ELSE "low"

NoAsset == 0

Abstain(status) == [status |-> status, asset |-> NoAsset, confidence |-> "low"]

\* The best of the shortlist, by format, width of the CPU, libc and the variants in the name.
Best(list, g, rank, v) ==
  LET score == [i \in list |-> <<rank[i], ArchBitWidth(g[i]), LibcPenalty(g[i], v.libc), g[i].variants>>]
      best  == CHOOSE i \in list : \A j \in list \ {i} :
                  ~Better(score[j], score[i]) /\ (j < i => score[j] # score[i])
      tied  == \E j \in list \ {best} : score[j] = score[best]
      conf  == ConfidenceFor(g[best], v, tied)
  IN [status     |-> IF tied THEN "ambiguous" ELSE IF conf = "low" THEN "unknown" ELSE "selected",
      asset      |-> best,
      confidence |-> conf]

BestCandidate(assets, cands, v) ==
  LET f    == [i \in cands |-> assets[i].facts]
      g    == [i \in cands |-> FactsForTarget(f[i], v)]
      rank == [i \in cands |-> RankFor(g[i], v)]
  IN Best(Shortlist(cands, f, g, rank, v), g, rank, v)

\* assets is a sequence; the decision names its asset by its place in it.
DecideAsset(assets, v) ==
  LET verdict(i) == Verdict(assets[i], assets[i].facts, v)
      cands      == {i \in DOMAIN assets : verdict(i) = "candidate"}
  IN IF assets = <<>> THEN Abstain("incompatible")
     ELSE IF v.os \notin Platforms THEN Abstain("unknown")
     ELSE IF cands = {} THEN
        Abstain(IF \E i \in DOMAIN assets : verdict(i) = "conflict" THEN "ambiguous"
                ELSE IF \E i \in DOMAIN assets : LeavesDoubt(assets[i], assets[i].facts, v) THEN "unknown"
                ELSE "incompatible")
     ELSE BestCandidate(assets, cands, v)

ShouldAutoSelect(decision) == decision.asset # NoAsset /\ decision.confidence # "low"
=============================================================================
