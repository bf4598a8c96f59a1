--------------------------- MODULE DeepInspector ---------------------------
(***************************************************************************)
(* DeepInspector of src/backend/github: what the scan worker finds in the  *)
(* whole file once the extractors have listed it.  Extractors are external:*)
(* Listing is what they show of a file, and an entry marked unreadable is  *)
(* one they fail on.  A result is a report of Inspector, Broken (malformed,*)
(* kept as a failed file), Unread (any other error: the scan is retried)   *)
(* or Limit.  Beyond the model: the caps on bundles, bundle packages,      *)
(* launcher siblings, libraries, bytes and extractor commands.             *)
(***************************************************************************)
EXTENDS Inspector

CONSTANTS MaxDepth,         \* deepMaxDepth, 6 in the code
          MaxNested,        \* candidate payloads in one container: 16
          MaxExecutables    \* candidate executables in one container: 64

ASSUME DeepBoundsAssumption ==
  MaxDepth \in Nat /\ MaxNested \in Nat \ {0} /\ MaxExecutables \in Nat \ {0}

DeepReport(role, targets) == [Report(role, targets) EXCEPT !.sources = {"deep-inspection"}]

DeepUnknown == [DeepReport("unknown", {}) EXCEPT !.status = "unknown"]

Unread == [DeepUnknown EXCEPT !.status = "error"]
Limit  == [DeepUnknown EXCEPT !.status = "limit"]

\* A reader that does not recognise the archive leaves it to the next one.
NotMine == [DeepUnknown EXCEPT !.status = "not mine"]

IsError(m) == m.status \in {"failed", "error", "limit"}

Proven(m) ==
  /\ ~m.partial /\ m.status = "inspected" /\ m.conflicts = {} /\ m.targets # {}
  /\ \A t \in m.targets : t.os # "" /\ t.cpu \notin {"", Foreign}

\* Applications must agree, so that a helper cannot add a CPU.
CommonTargets(results) ==
  LET common == {t \in results[1].targets : \A i \in DOMAIN results : t \in results[i].targets}
  IN IF results = <<>> \/ common = {} THEN DeepUnknown
     ELSE [results[1] EXCEPT !.targets = common, !.partial = \E i \in DOMAIN results : results[i].partial]

\* The first result that Stops, else what they say together.
Unless(Stops(_), results, together) ==
  IF \E i \in DOMAIN results : Stops(results[i]) THEN SelectSeq(results, Stops)[1] ELSE together

Unproven(m) == ~Proven(m)

Agreed(results) == Unless(Unproven, results, CommonTargets(results))

AllOf(results, P(_)) == \A i \in DOMAIN results : P(results[i])

Mapped(seq, F(_)) == [i \in DOMAIN seq |-> F(seq[i])]

-----------------------------------------------------------------------------
(* Headers of entries *)

Told(head, seen) ==
  IF Malformed(head) THEN Broken
  ELSE IF ~seen.found \/ (head.is = "pe" /\ HybridImage(head) = "unreadable") THEN DeepUnknown
  ELSE [DeepReport(seen.role, seen.targets) EXCEPT !.conflicts = seen.conflicts]

HeadReport(f) == Told(HeadOf(f), SniffBinary(HeadOf(f), TRUE))

\* deepArchive.headers and binary: libraries and unknown files are no applications.
EntryHeaders(e) == IF Unreadable(e) THEN Unread ELSE HeadReport(e.body)

OnlyApplication(m) == IF IsError(m) \/ m.role = "application" THEN m ELSE DeepUnknown

EntryBinary(e) == OnlyApplication(EntryHeaders(e))

-----------------------------------------------------------------------------
(* Mac applications *)

MachO(e) == HeadOf(e.body).is = "macho" /\ EntryBinary(e).role = "application"

\* Old headers without a platform take it from the bundle.
MacTargets(m) ==
  IF \E t \in m.targets : t.os \notin {"", "macos"} THEN DeepUnknown
  ELSE [m EXCEPT !.targets = {[t EXCEPT !.os = "macos"] : t \in @}]

MacBinary(e) == IF MachO(e) THEN MacTargets(EntryBinary(e)) ELSE EntryBinary(e)

\* A launcher script starts the real program beside it.
MacLauncher(siblings) ==
  LET apps == SelectSeq(siblings, LAMBDA e : MachO(e) /\ Proven(MacBinary(e)))
  IN Unless(IsError, Mapped(siblings, MacBinary), CommonTargets(Mapped(apps, MacBinary)))

OnlyProven(m) == IF IsError(m) \/ Proven(m) THEN m ELSE DeepUnknown

MainOf(main, siblings) ==
  IF MachO(main) \/ IsError(EntryBinary(main)) THEN MacBinary(main)
  ELSE IF main.body.form = "script" THEN MacLauncher(siblings)
  ELSE DeepUnknown

\* The main executable that one Info.plist declares.
MacApp(entries, info) ==
  LET inApp(at) == SelectSeq(entries, LAMBDA e : e.app = info.app /\ e.at = at)
      mains     == SelectSeq(inApp("MacOS"), LAMBDA e : info.body.form = "plist" /\ e.name = info.body.executable)
  IN IF Unreadable(info) THEN Unread
     ELSE IF Len(inApp("Info.plist")) # 1 \/ Len(mains) # 1 THEN DeepUnknown
     ELSE OnlyProven(MainOf(mains[1], inApp("MacOS")))

\* Each top-level bundle's main executable; nested helper apps add nothing.
MacApps(a) ==
  LET infos == SelectSeq(a.entries, LAMBDA e : e.app # "" /\ e.at = "Info.plist")
  IN IF infos # <<>> THEN Agreed(Mapped(infos, LAMBDA e : MacApp(a.entries, e)))
     ELSE IF \E i \in DOMAIN a.entries : a.entries[i].app # "" THEN DeepUnknown
     ELSE NotMine

-----------------------------------------------------------------------------
(* MSIX; manifest is [of |-> "", "package", "bundle" or "unusable", cpu, apps, packages] *)

NoManifest == [of |-> "", cpu |-> "", apps |-> <<>>, packages |-> <<>>]

MSIXCPUs == {"amd64", "386", "arm64", "arm"}

Installer(m) == IF Proven(m) THEN [m EXCEPT !.role = "installer"] ELSE m

OnWindows(m) == \A t \in m.targets : t.os = "windows"

\* An architecture binds the package; a neutral one needs proof of each application.
MSIXPackage(a) ==
  LET found(name) == SelectSeq(a.entries, LAMBDA e : e.name = name)
      Fit(m, e) == IsError(m) \/ (Proven(m) /\ OnWindows(m) /\ HeadOf(e.body).clr = {})
      App(name) == IF Len(found(name)) = 1 /\ Fit(EntryBinary(found(name)[1]), found(name)[1])
                   THEN EntryBinary(found(name)[1]) ELSE DeepUnknown
  IN IF a.manifest.apps = <<>> THEN DeepUnknown
     ELSE IF a.manifest.cpu \in MSIXCPUs THEN DeepReport("installer", {Target("windows", a.manifest.cpu, "")})
     ELSE IF a.manifest.cpu # "" THEN DeepUnknown
     ELSE Installer(Agreed(Mapped(a.manifest.apps, App)))

\* open is what inspect finds inside each entry of a.
\* Independently installable application packages add up; resources and stubs do not
\* count, and no payload counts twice.
MSIXBundle(a, open) ==
  LET apps == SelectSeq(a.manifest.packages, LAMBDA p : p.type = "application")
      Package(i) == LET p     == apps[i]
                        found == SelectSeq(a.entries, LAMBDA e : e.name = p.file)
                    IN IF Len(found) # 1 \/ (\E j \in 1 .. i - 1 : apps[j].file = p.file) THEN DeepUnknown
                       ELSE IF p.cpu \in MSIXCPUs THEN DeepReport("installer", {Target("windows", p.cpu, "")})
                       ELSE IF p.cpu # "" THEN DeepUnknown
                       ELSE IF Proven(open[found[1]]) /\ ~OnWindows(open[found[1]]) THEN DeepUnknown
                       ELSE open[found[1]]
      packages == [i \in DOMAIN apps |-> Package(i)]
      targets  == UNION {packages[i].targets : i \in DOMAIN packages}
  IN Unless(Unproven, packages, IF targets = {} THEN DeepUnknown ELSE DeepReport("installer", targets))

MSIX(a, open) ==
  CASE a.manifest.of = "" -> NotMine
    [] a.manifest.of = "package" -> MSIXPackage(a)
    [] a.manifest.of = "bundle" -> MSIXBundle(a, open)
    [] OTHER -> DeepUnknown

-----------------------------------------------------------------------------
(* Other archives *)

\* Electron installers carry one app-* archive per CPU, whatever follows the dash.
AppArchive(e) == (AppCPU(e.name) # "" \/ "app-*" \in e.marks) /\ e.ext \in {"7z", "zip"}

Packages(a, open) ==
  LET apps == Mapped(SelectSeq(a.entries, AppArchive), LAMBDA e : open[e])
  IN IF apps = <<>> THEN NotMine
     ELSE Unless(Unproven, apps, DeepReport("installer", UNION {apps[i].targets : i \in DOMAIN apps}))

\* helper: uninstallers, updaters, crash handlers, redistributables; system:
\* copied to Windows or the temporary directory; resource: below /resources/ or $.
ExecutableCandidate(e) ==
  /\ e.marks \cap {"tiny", "helper", "system", "resource"} = {} /\ e.at # "Frameworks"
  /\ e.ext = "exe" \/ (e.ext = "" /\ (e.at = "bin" \/ e.depth = 0))

\* innoCPUGates: the CPUs on which an Inno entry is installed.
InnoCPUGates(gate) ==
  CASE gate = "IsArm64" -> {"arm64"}
    [] gate = "not IsArm64" -> {"amd64", "386"}
    [] gate \in {"IsX64Compatible", "IsX64OS", "IsX64"} -> {"amd64"}
    [] gate \in {"IsX86Compatible", "IsX86OS", "IsX86"} -> {"386"}
    [] gate = "not IsX64Compatible" -> {"386", "arm64"}
    [] OTHER -> {}

\* The installer picks one copy per CPU for every destination: the targets add up.
CPUGated(apps) ==
  LET at(dest)   == {i \in DOMAIN apps : apps[i].dest = dest}
      targets(S) == UNION {apps[i].report.targets : i \in S}
      admits(i)  == InnoCPUGates(apps[i].gate)
  IN /\ Len(apps) >= 2
     /\ \A i \in DOMAIN apps : /\ admits(i) # {} /\ apps[i].dest # ""
                               /\ \A t \in apps[i].report.targets : t.cpu \in admits(i)
                               /\ \A j \in at(apps[i].dest) \ {i} : admits(i) \cap admits(j) = {}
                               /\ targets(at(apps[i].dest)) = targets(DOMAIN apps)

\* One executable's report, with what tells it from the others of its archive.
ExecutableIn(a, e) ==
  LET InnoOS(m) == IF a.kind # "Inno" THEN m
                   ELSE [m EXCEPT !.targets = {[t EXCEPT !.os = IF @ = "" THEN "windows" ELSE @] : t \in @}]
  IN [report |-> InnoOS(EntryBinary(e)), depth |-> e.depth, name |-> IF e.ext = "exe" THEN e.name ELSE "",
      gate |-> e.gate, dest |-> e.dest]

IsApplication(x) == x.report.role = "application" /\ x.report.targets # {}

\* Those down to the level on which the first application was found.
Examined(tried) ==
  LET found == {tried[i].depth : i \in {j \in DOMAIN tried : IsApplication(tried[j])}}
  IN SelectSeq(tried, LAMBDA x : \A d \in found : x.depth <= d)

\* The CPUs that apps prove together, or the one named like the application.
Spoken(a, apps) ==
  LET reports(s) == Mapped(s, LAMBDA x : x.report)
      named      == SelectSeq(apps, LAMBDA x : a.kind = "Inno" /\ a.appName # "" /\ x.name = a.appName)
  IN IF a.kind = "Inno" /\ CPUGated(apps) THEN DeepReport("application", UNION {apps[i].report.targets : i \in DOMAIN apps})
     ELSE IF ~Proven(CommonTargets(reports(apps))) /\ named # <<>> THEN CommonTargets(reports(named))
     ELSE CommonTargets(reports(apps))

ExecutablesTell(a, examined, cut) ==
  LET apps == SelectSeq(examined, IsApplication)
  IN IF \E i \in DOMAIN examined : IsError(examined[i].report) THEN SelectSeq(examined, LAMBDA x : IsError(x.report))[1].report
     ELSE IF apps = <<>> THEN NotMine
     ELSE [Spoken(a, apps) EXCEPT !.partial = @ \/ cut]

\* The applications nearest to the archive's root speak for it.
Executables(a) ==
  LET cands == SelectSeq(a.entries, ExecutableCandidate)
      tried == Mapped(UpTo(MaxExecutables, ByRank(DOMAIN cands, LAMBDA i : cands[i].depth)), LAMBDA i : ExecutableIn(a, cands[i]))
  IN ExecutablesTell(a, Examined(tried), Len(cands) > MaxExecutables /\ Len(Examined(tried)) = Len(tried))

\* Library-only downloads are no programs; a JVM distribution runs where its native
\* libraries do.
RuntimeLibraries(a) ==
  LET library(e) == e.ext \in {"so", "dylib", "dll", "prx"}
      only   == AllOf(a.entries, library)
      jvm    == \E i, j \in DOMAIN a.entries : a.entries[i].ext = "jar" /\ "java launcher" \in a.entries[j].marks
      libs   == SelectSeq(a.entries, LAMBDA e : library(e) /\ (only \/ e.at = "nativelib"))
      odd(m) == ~(m.role = "metadata" /\ m.status = "inspected" /\ m.targets # {} /\ m.conflicts = {})
      Program(m) == IF Proven(m) THEN [m EXCEPT !.role = "application"] ELSE m
      Together(read) == IF only THEN DeepReport("metadata", {}) ELSE Program(CommonTargets(read))
      Tell(read) == LET odds == SelectSeq(read, odd)
                    IN IF odds = <<>> THEN Together(read) ELSE IF IsError(odds[1]) THEN odds[1] ELSE DeepUnknown
  IN IF libs = <<>> \/ ~(only \/ jvm) THEN NotMine ELSE Tell(Mapped(libs, EntryHeaders))

\* What is left are payloads inside: an unproven one yields to a proven one.
Nested(a, open) ==
  LET payload(e) == /\ "empty" \notin e.marks
                    /\ \/ Len(a.entries) = 1 \/ e.name = "payload"
                       \/ e.ext \in {"cab", "pkg", "cpio", "tar", "tar.gz", "7z", "zip", "nupkg", "xz", "gz", "zst", "pbzx"}
      inner  == Mapped(SelectSeq(a.entries, payload), LAMBDA e : open[e])
      proven == SelectSeq(inner, Proven)
      Left   == IF proven # <<>> THEN CommonTargets(proven)
                ELSE IF inner # <<>> THEN inner[Len(inner)]
                ELSE IF a.kind = "Nsis" THEN [DeepUnknown EXCEPT !.role = "installer"] ELSE DeepUnknown
  IN IF Len(inner) > MaxNested THEN DeepUnknown ELSE Unless(IsError, inner, Left)

\* WiX: every embedded application package, not the bootstrapper.
Burn(a, open) ==
  LET packages == Mapped(SelectSeq(a.entries, LAMBDA e : "embedded" \in e.marks /\ e.ext \in {"msi", "msix", "exe"}), LAMBDA e : open[e])
  IN IF packages = <<>> THEN DeepUnknown
     ELSE Unless(Unproven, packages, [CommonTargets(packages) EXCEPT !.role = "installer"])

\* The ref names the CPU; metadata that disagrees with it leaves the CPU open.
Flatpak(f) ==
  IF f.form # "package" \/ f.kind # "flatpak" THEN Broken
  ELSE [DeepReport(IF f.flaw = "runtime" THEN "metadata" ELSE "application",
                   {Target("linux", IF f.flaw = "conflict" THEN "" ELSE f.cpu, "")})
          EXCEPT !.conflicts = IF f.flaw = "conflict" THEN {"flatpak ref"} ELSE {}]

-----------------------------------------------------------------------------

Sealed == [form |-> "archive", kind |-> "", entries |-> <<>>, reach |-> 0, appName |-> "", manifest |-> NoManifest]

\* openArchive: what 7zz and, for .exe files, the Inno tool list.
Listing(ext, f) ==
  IF f.form = "archive" THEN f
  ELSE IF f.form = "packed" THEN [Sealed EXCEPT !.kind = "stream", !.entries = <<f.entry>>]
  ELSE IF f.form \in {"package", "refused", "large", "appimage"} THEN f.inside
  ELSE IF f.form = "setup" /\ f.inside # Sealed /\ (f.kind = "inno" => ext = "exe") THEN f.inside
  ELSE IF HeadOf(f).is = "pe" THEN [Sealed EXCEPT !.kind = "PE"]
  ELSE Sealed

\* Mutant: the header of a sealed setup speaks for what it installs.
SetupTellsItself(f) == OnlyApplication(HeadReport(f))

\* A file no tool opens: a PE with a payload nobody can read proves nothing.
LocalBinary(f) ==
  IF f.form = "setup" /\ ~IsError(HeadReport(f)) THEN DeepUnknown ELSE OnlyApplication(HeadReport(f))

\* What a reader makes of an archive, or the readers after it.
OrElse(m, rest) == IF m.status # "not mine" THEN m ELSE rest

InArchive(a, open) ==
  OrElse(MacApps(a), OrElse(MSIX(a, open), OrElse(Packages(a, open),
    OrElse(Executables(a), OrElse(RuntimeLibraries(a), Nested(a, open))))))

\* deepSession.inspect unwraps containers until it reaches main executables.
RECURSIVE DeepInspect(_, _, _)
DeepInspect(ext, f, depth) ==
  LET a    == Listing(ext, f)
      open == [e \in {a.entries[i] : i \in DOMAIN a.entries} |->
                 IF Unreadable(e) THEN Unread ELSE DeepInspect(e.ext, e.body, depth + 1)]
  IN IF depth > MaxDepth THEN DeepUnknown
     ELSE IF f.form = "pbzx" THEN IF f.cut THEN Broken ELSE DeepInspect("cpio", f.cpio, depth + 1)
     ELSE IF f.form = "setup" /\ f.kind = "burn" THEN Burn(f.inside, open)
     ELSE IF ext = "flatpak" THEN Flatpak(f)
     ELSE IF a.kind = "too long" THEN Limit
     ELSE IF a.kind \in {"", "PE"} THEN LocalBinary(f)
     ELSE InArchive(a, open)

\* InspectFile, past the checks of size and digest.
Reported(m, launcher, ext, f) ==
  IF m.status \in {"failed", "error"} THEN m
  ELSE IF ext = "appimage" /\ IsError(launcher) THEN launcher
  ELSE [m EXCEPT !.status = IF @ = "limit" THEN "unsupported" ELSE @,
                 !.launcher = IF ext = "appimage" THEN SetLauncher(launcher, f).launcher ELSE ""]

InspectFile(ext, f) == Reported(DeepInspect(ext, f, 0), HeadReport(f), ext, f)
=============================================================================
