------------------------------ MODULE JevGate ------------------------------
(***************************************************************************)
(* The code around the model in src/backend/jev: which files may be put to *)
(* it (ValidateSelection, prepare), what its answers are worth (judge,     *)
(* runnable) and what confidence a choice earns (gate).  The model's       *)
(* answers are inputs, probabilities are whole percents:                   *)
(*   attrs  [os, osP, cpu, cpuP, main]: the options Describe found likely, *)
(*          the rest of each distribution lying on options that never fit  *)
(*   choice [option, p, insufficient, runnerUp]: the answer to choose      *)
(***************************************************************************)
EXTENDS Picker

CONSTANT MaxCandidates    \* maxCandidates, 100 in the code

ASSUME MaxCandidatesAssumption == MaxCandidates \in Nat \ {0}

\* The option "not enough information", among places of files.
Insufficient == 0

\* Fit tiers, low to high.
TierNone == 0   TierMaybe == 1   TierEmulated == 2   TierNative == 3

-----------------------------------------------------------------------------
(* The guard *)

NoFit == [ok |-> FALSE, osProven |-> FALSE, cpuProven |-> FALSE, emulated |-> FALSE, libcProven |-> FALSE]

\* Mutant: what was found to be broken is no veto.
VetoedUnlessBroken(a, f) ==
  \/ a.state \notin {"", "uploaded"}
  \/ NotAProgram(f)
  \/ f.conflicts \ {FilenameConflict} # {}
  \/ f.ext = "" /\ ~NativeBinaryName(f.suffix) /\ f.suffix # "bin"

\* A disagreement of name and contents is no veto here: the observed targets already stand.
Vetoed(a, f) ==
  \/ a.state \notin {"", "uploaded"}
  \/ NotAProgram(f)
  \/ f.conflicts \ {FilenameConflict} # {}
  \/ a.artifact.status = "failed"
  \/ f.ext = "" /\ ~NativeBinaryName(f.suffix) /\ f.suffix # "bin"

Assess(a, v) ==
  LET f    == a.facts
      fits == {t \in f.targets :
                 /\ t.os = "" \/ v.os \in {"unknown", t.os}
                 /\ v.cpu = "" \/ t.cpu \in {"", v.cpu} \/ Emulates(v.os, v.cpu, t.cpu)
                 /\ v.libc = "" \/ t.libc \in {"", v.libc, "static"}}
  IN IF Vetoed(a, f) THEN NoFit
     ELSE IF f.targets = {} THEN
        IF v.os # "unknown" /\ (IncompatiblePlatform(f, v.os) \/ f.formatOS \notin {"", v.os}) THEN NoFit
        ELSE [NoFit EXCEPT !.ok = TRUE, !.libcProven = v.libc = ""]
     ELSE
        [ok         |-> fits # {},
         osProven   |-> v.os # "unknown" /\ \E t \in fits : t.os = v.os,
         cpuProven  |-> v.cpu # "" /\ \E t \in fits : t.cpu = v.cpu,
         emulated   |-> v.cpu # "" /\ fits # {} /\ \A t \in fits : Emulates(v.os, v.cpu, t.cpu),
         libcProven |-> v.libc = "" \/ \E t \in fits : t.libc # "" /\ t.libc \in {v.libc, "static"}]

ValidateSelection(a, v) == Assess(a, v).ok /\ ~NeedsVerification(a.facts, v)

\* The guarded candidates, narrowed to a requested runtime and format where one has them.
Candidates(assets, v) ==
  LET ok        == {i \in DOMAIN assets : ValidateSelection(assets[i], v)}
      proven(i) == v.libc \in {"", "gnu"} \/ Assess(assets[i], v).libcProven
      asked(i)  == v.prefer # "" /\ FormatRank(assets[i].name.ext, v) = -1
  IN Prefer(Prefer(ok, proven), asked)

\* An answer that needs no model: the visitor's system is unknown, or nothing may be offered.
Immediate(assets, v) ==
  IF v.os \notin Platforms THEN Abstain("unknown")
  ELSE IF \E i \in DOMAIN assets : NeedsVerification(assets[i].facts, v) THEN Abstain("unknown")
  ELSE Abstain("incompatible")

-----------------------------------------------------------------------------
(* What the answers are worth *)

\* An artifact whose targets come from its contents or the publisher.
Observed(m) == m.status = "inspected" /\ m.targets # {} /\ m.sources \ {"filename"} # {}

\* How packages spell a CPU, with what the inspector puts before it.
Spelled(names) == names \cup {"rpm:" \o n : n \in names} \cup {"linux-" \o n : n \in names}

NormalizedArch(cpu) ==
  CASE cpu \in Spelled({"386", "i686"}) -> "386"
    [] cpu \in Spelled({"arm", "armv5", "armv5tel", "armv6", "armv7", "armhf"}) -> "arm"
    [] cpu \in Spelled({"arm64", "arm64e"}) -> "arm64"
    [] cpu \in Spelled({"amd64"}) -> "amd64"
    [] OTHER -> cpu

\* Known quirks of the inspector corrected: a slice without a system takes its
\* siblings' or the name's, a setup stub's CPU label on Windows proves nothing.
CorrectedTargets(a) ==
  LET f        == a.facts
      m        == a.artifact
      siblings == {t.os : t \in m.targets} \ {""}
      system   == IF siblings # {} THEN CHOOSE o \in siblings : TRUE
                  ELSE IF Cardinality(f.os) = 1 THEN CHOOSE o \in f.os : TRUE
                  ELSE IF f.os \cap {"dragonfly", "solaris", "illumos", "haiku"} # {}
                  THEN CHOOSE o \in f.os : o \in {"dragonfly", "solaris", "illumos", "haiku"} ELSE f.formatOS
      payload  == "deep-inspection" \in m.sources
      OSOf(t)  == IF t.os = "" THEN system ELSE t.os
      CpuOf(t) == IF NormalizedArch(t.cpu) = "" /\ ~m.partial /\ Cardinality(f.cpu) = 1 /\ f.suffix # "exe"
                  THEN CHOOSE c \in f.cpu : TRUE ELSE NormalizedArch(t.cpu)
      Stub(t)  == /\ ~payload /\ OSOf(t) = "windows"
                  /\ CpuOf(t) # "" /\ CpuOf(t) \notin f.cpu
                  /\ CpuOf(t) = "386" \/ f.cpu # {}
  IN {[t EXCEPT !.os = OSOf(t), !.cpu = IF Stub(t) THEN "unproven" ELSE CpuOf(t)] : t \in m.targets}

\* The model's OS and CPU guesses give way to what the contents prove.
WithObservedTargets(attrs, targets) ==
  LET systems == {t.os : t \in targets} \ {""}
      cpus    == {t.cpu : t \in targets}
      seenOS  == IF systems = {} THEN attrs ELSE [attrs EXCEPT !.os = CHOOSE o \in systems : TRUE, !.osP = 100]
  IN IF Cardinality(systems) > 1 THEN attrs
     ELSE IF systems = {"macos"} /\ cpus = {"amd64", "arm64"} THEN [seenOS EXCEPT !.cpu = "universal", !.cpuP = 100]
     ELSE IF Cardinality(cpus) = 1 /\ cpus \cap {"", "unproven"} = {} THEN
        [seenOS EXCEPT !.cpu = CHOOSE c \in cpus : TRUE, !.cpuP = 100]
     ELSE seenOS

KnownOptions == {"amd64", "arm64", "arm", "386", "universal", "not stated"}

\* Percent that a file with these attributes runs for v: natively, emulated, perhaps.
RunProbability(attrs, n, v) ==
  LET p      == IF attrs.os = v.os THEN (attrs.osP * attrs.cpuP) \div 100 ELSE 0
      stated == IF attrs.cpu = "not stated" /\ v.os \in {"windows", "linux"} THEN "amd64" ELSE attrs.cpu
      how    == IF v.cpu = "" THEN IF attrs.cpu \in KnownOptions THEN "native" ELSE "never"
                ELSE IF stated = v.cpu THEN "native"
                ELSE IF stated = "universal" /\ v.os = "macos" THEN "native"
                ELSE IF stated = "not stated" /\ v.os = "android" THEN "native"
                ELSE IF stated = "not stated" /\ v.os = "macos" THEN
                   IF v.cpu = "arm64" \/ FormatOS(n.ext) = "macos" THEN "emulated" ELSE "maybe"
                ELSE IF Emulates(v.os, v.cpu, stated) THEN "emulated"
                ELSE "never"
  IN [native   |-> IF how = "native" THEN p ELSE 0,
      emulated |-> IF how = "emulated" THEN p ELSE 0,
      maybe    |-> IF how = "maybe" THEN p ELSE 0]

InferredOSThreshold == 90

AppBundleByName(a) == "app bundle" \in a.name.marks /\ ~Observed(a.artifact)

\* The guess about a file, with what is known of it put in its place.
KnownAttrs(attrs, a, fit, v) ==
  LET proven == IF ~fit.osProven THEN attrs
                ELSE IF fit.cpuProven THEN [attrs EXCEPT !.os = v.os, !.osP = 100, !.cpu = v.cpu, !.cpuP = 100]
                ELSE [attrs EXCEPT !.os = v.os, !.osP = 100]
  IN IF Observed(a.artifact) THEN WithObservedTargets(proven, CorrectedTargets(a))
     ELSE IF AppBundleByName(a) THEN [proven EXCEPT !.os = "macos", !.osP = 100]
     ELSE proven

\* Likely to run natively, emulated, perhaps: a system that is only inferred is a perhaps.
Runs(attrs, a, fit, v) ==
  LET run == RunProbability(attrs, a.name, v)
      osP == IF attrs.os = v.os THEN attrs.osP ELSE 0
  IN IF /\ ~fit.osProven /\ ~AppBundleByName(a) /\ osP < InferredOSThreshold
        /\ a.name.os = {} /\ FormatOS(a.name.ext) = ""
     THEN [native |-> 0, emulated |-> 0, maybe |-> run.native + run.emulated + run.maybe] ELSE run

JudgeRun(run, attrs, v) ==
  LET some == run.native + run.emulated
  IN [tier |-> IF run.native >= 50 THEN TierNative
               ELSE IF some >= 50 THEN TierEmulated
               ELSE IF some + run.maybe >= 50 THEN TierMaybe
               ELSE TierNone,
      fitP |-> IF run.native >= 50 THEN run.native ELSE IF some >= 50 THEN some ELSE some + run.maybe,
      main |-> attrs.main,
      universal |-> v.os = "macos" /\ attrs.cpu = "universal" /\ attrs.cpuP >= 50]

\* Code's verdict on one file: the tier at which it runs and how likely.
Judge(guess, a, v) ==
  LET fit   == Assess(a, v)
      attrs == KnownAttrs(guess, a, fit, v)
  IN JudgeRun(Runs(attrs, a, fit, v), attrs, v)

Judged(assets, v, attrs) == [i \in Candidates(assets, v) |-> Judge(attrs[assets[i].id], assets[i], v)]

\* The best tier, then the main builds and the universal Mac builds where there are any.
Runnable(judged) ==
  LET best == {i \in DOMAIN judged : judged[i].tier # TierNone /\ \A j \in DOMAIN judged : judged[j].tier <= judged[i].tier}
      main(i) == judged[i].main >= 50
      both(i) == judged[i].universal
  IN Prefer(Prefer(best, main), both)

-----------------------------------------------------------------------------
(* The confidence a choice earns *)

Cap(conf, ceiling) ==
  IF conf = "high" \/ (conf = "medium" /\ ceiling = "low") THEN ceiling ELSE conf

\* Proof of OS and CPU replaces the model's fit; weaker evidence caps its certainty.
Gate(f, chosenP, fitP0, tier, v) ==
  LET fitP == IF f.osProven /\ (f.cpuProven \/ f.emulated) THEN 100 ELSE fitP0
      base == IF chosenP >= 80 /\ fitP >= 80 THEN "high"
              ELSE IF chosenP >= 50 /\ fitP >= 50 THEN "medium" ELSE "low"
      byTier == CASE tier = TierMaybe -> Cap(base, "low") [] tier = TierEmulated -> Cap(base, "medium") [] OTHER -> base
      byOS   == IF f.osProven THEN byTier ELSE Cap(byTier, "medium")
      byLibc == IF f.libcProven THEN byOS ELSE IF v.libc = "gnu" THEN Cap(byOS, "medium") ELSE Cap(byOS, "low")
  IN IF v.cpu = "" \/ f.emulated \/ ~f.cpuProven THEN Cap(byLibc, "medium") ELSE byLibc

\* The chosen file's weight: nothing when abstention is close, medium on a clear lead.
ChosenP(ch) ==
  IF 2 * ch.p < 3 * ch.insufficient THEN 0
  ELSE IF ch.p < 50 /\ 2 * ch.p >= 3 * ch.runnerUp THEN 50
  ELSE ch.p

\* Answers choose accepts for the files in pool: validChoice.
ValidChoice(ch, pool) ==
  /\ ch.option \in pool \cup {Insufficient}
  /\ IF ch.option = Insufficient THEN ch.p = ch.insufficient ELSE ch.insufficient <= ch.runnerUp
  /\ ch.p >= ch.runnerUp /\ ch.p + ch.runnerUp <= 100
  /\ ch.p + Cardinality(pool) * ch.runnerUp >= 100

\* Code's decision on the files it judged: the only one that runs, or the one chosen.
GatedChoice(assets, v, judged, ch) ==
  LET pool   == Runnable(judged)
      alone  == Cardinality(pool) = 1
      chosen == IF alone THEN CHOOSE i \in pool : TRUE ELSE ch.option
      conf   == Gate(Assess(assets[chosen], v), IF alone THEN 100 ELSE ChosenP(ch), judged[chosen].fitP, judged[chosen].tier, v)
  IN IF pool = {} THEN Abstain("incompatible")
     ELSE IF ~alone /\ ch.option = Insufficient THEN Abstain("unknown")
     ELSE [status     |-> IF conf = "low" THEN "unknown" ELSE "selected",
           asset      |-> chosen,
           confidence |-> conf]

\* Decide, given the answers: attrs per describable file and, where several files run, a choice.
JevDecision(assets, v, attrs, ch) ==
  IF v.os \notin Platforms \/ Candidates(assets, v) = {} THEN Immediate(assets, v)
  ELSE GatedChoice(assets, v, Judged(assets, v, attrs), ch)

\* The call fails when there are too many candidates; the rules answer then.
TooMany(assets, v) == Cardinality(Candidates(assets, v)) > MaxCandidates
=============================================================================
