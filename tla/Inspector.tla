----------------------------- MODULE Inspector -----------------------------
(***************************************************************************)
(* InspectArtifact of src/backend/github: what bounded range reads of a    *)
(* release file tell about it.  A file stands for its contents:            *)
(*   [form |-> "program", head]        a header of Headers                 *)
(*   [form |-> "archive", kind, entries, reach, appName, manifest]         *)
(*   [form |-> "packed", entry]        one compressed file                 *)
(*   [form |-> "pbzx", cut, cpio]      Apple's stream of a cpio archive    *)
(*   [form |-> "setup", kind, head, inside]      a PE around an archive    *)
(*   [form |-> "appimage", head, inside]         an ELF around one         *)
(*   [form |-> "package", kind, os, cpu, flaw, inside]  deb, rpm, dmg, ... *)
(*   [form |-> "refused", inside]      a codec only the full scan decodes  *)
(*   [form |-> "large", inside]        beyond the bounded reads            *)
(*   [form |-> "script"], [form |-> "plist", executable], [form |-> "junk"]*)
(* inside is an archive, Sealed where no tool opens it.  An entry of an    *)
(* archive is [app, at, name, ext, depth, cpuDir, marks, gate, dest, body]:*)
(* app is the outermost bundle around it, at its place there.              *)
(***************************************************************************)
EXTENDS Headers, SequencesExt

\* Executables sniffed inside one archive: inspectMaxBinaries.
MaxBinaries == 2

Report(role, targets) ==
  [status |-> "inspected", role |-> role, targets |-> targets, partial |-> FALSE, launcher |-> "",
   conflicts |-> {}, sources |-> {"inspection"}]

Unsupported(role, targets) == [Report(role, targets) EXCEPT !.status = "unsupported"]

\* The limit was hit before any structure parsed: too large, not broken.
TooLarge == [Unsupported("unknown", {}) EXCEPT !.partial = TRUE]

\* What is left of a file that claims a format and does not parse (ErrMalformedArtifact).
Broken == [Report("unknown", {}) EXCEPT !.status = "failed", !.sources = {}]

HeadOf(f) == IF f.form \in {"program", "setup", "appimage"} THEN f.head ELSE [is |-> "none"]

-----------------------------------------------------------------------------
(* Archives *)

Libraries == {"dll", "dylib", "so", "a", "lib"}

\* Entries worth sniffing.
BinaryCandidate(e) ==
  /\ "tiny" \notin e.marks /\ e.ext \notin Libraries
  /\ \/ e.at \in {"MacOS", "helper MacOS"} \/ "executable" \in e.marks \/ e.ext \in {"exe", "appimage"}
     \/ e.ext = "" /\ e.depth <= 1 /\ "doc" \notin e.marks

\* The name's part behind the first .app/Contents/MacOS/ holds no slash: true
\* of the main executable and of a helper app's alike.
BundleRank(e) == IF e.at \in {"MacOS", "helper MacOS"} THEN 0 ELSE 1

\* The first bundle to show both an Info.plist and an executable.
MacAppBundle(entries) ==
  LET places(i) == {entries[j].at : j \in {k \in 1 .. i : entries[k].app = entries[i].app}}
      complete  == {i \in DOMAIN entries : entries[i].app # "" /\ {"Info.plist", "MacOS"} \subseteq places(i)}
  IN IF complete = {} THEN "" ELSE entries[CHOOSE i \in complete : \A j \in complete : i <= j].app

Symbols(e) == e.ext \in {"pdb", "debug", "dbg"} \/ "dsym" \in e.marks

\* What the listing alone shows: a bundle (CPU unknown), or symbols only.
ArchiveStructure(entries) ==
  IF MacAppBundle(entries) # "" THEN Report("application", {Target("macos", "", "")})
  ELSE IF entries # <<>> /\ \A i \in DOMAIN entries : Symbols(entries[i]) THEN Report("debug", {})
  ELSE Report("unknown", {})

\* inspectArchiveEntry: a header counts with the structure only for the same app's main entry.
ReadHeader(m, e, bundle, head, seen) ==
  LET main  == seen.found /\ bundle # "" /\ e.app = bundle /\ e.at = "MacOS"
      macho == head.is = "macho"
      prior == IF ~main THEN m
               ELSE [m EXCEPT !.role = IF Target("macos", "", "") \in m.targets /\ @ = "application" THEN "unknown" ELSE @,
                              !.targets = @ \ {Target("macos", "", "")}]
      own   == IF main /\ macho THEN {[t EXCEPT !.os = IF @ = "" THEN "macos" ELSE @] : t \in seen.targets}
               ELSE IF main THEN seen.targets
               ELSE IF bundle = "" /\ seen.role \in {"application", "installer"} THEN seen.targets
               ELSE {}
      clash == {c \in {"main executable is not mach-o", "bundle platform"} :
                  main /\ IF macho THEN c = "bundle platform" /\ \E t \in own : t.os # "macos"
                          ELSE c = "main executable is not mach-o"}
  IN [prior EXCEPT !.partial = @ \/ ~seen.found, !.role = ObserveRole(@, seen.role), !.targets = @ \cup own,
                   !.conflicts = @ \cup seen.conflicts \cup clash]

ReadEntry(m, e, bundle) == ReadHeader(m, e, bundle, HeadOf(e.body), SniffBinary(HeadOf(e.body), FALSE))

SniffCandidates(entries) == {i \in DOMAIN entries : BinaryCandidate(entries[i])}

Unreadable(e) == "unreadable" \in e.marks

\* Places in S by rank, then listing order.
ByRank(S, rank(_)) == SetToSortSeq(S, LAMBDA i, j : rank(i) < rank(j) \/ (rank(i) = rank(j) /\ i < j))

\* Directory CPU names choose diverse samples: a group's second file comes after
\* every group's first.
ZipOrder(entries) ==
  LET again(i) == \E j \in SniffCandidates(entries) :
                     /\ j < i /\ BundleRank(entries[j]) = BundleRank(entries[i])
                     /\ entries[j].cpuDir = entries[i].cpuDir
  IN ByRank(SniffCandidates(entries), LAMBDA i : 2 * BundleRank(entries[i]) + (IF again(i) THEN 1 ELSE 0))

UpTo(n, seq) == SubSeq(seq, 1, IF Len(seq) < n THEN Len(seq) ELSE n)

\* The entries of a tar that are listed: the reader stops after the second
\* candidate, or where its budget ends.
TarListed(f) ==
  LET seconds == {i \in SniffCandidates(f.entries) : Cardinality(SniffCandidates(f.entries) \cap 1 .. i) = MaxBinaries}
  IN UpTo(IF seconds = {} \/ f.reach < Pick(seconds) THEN f.reach ELSE Pick(seconds), f.entries)

\* Mutant: the end of the budget is taken for the end of the archive.
TarCompleteByCount(f) == Cardinality(SniffCandidates(f.entries) \cap 1 .. f.reach) < MaxBinaries

TarComplete(f) == f.reach >= Len(f.entries) /\ Cardinality(SniffCandidates(f.entries)) < MaxBinaries

\* The listing and the headers of the opened entries, put together.
Inspected(f, listed, opened, complete) ==
  LET bundle == MacAppBundle(listed)
      read   == FoldLeft(LAMBDA m, i : ReadEntry(m, f.entries[i], bundle), ArchiveStructure(listed), opened)
  IN IF \E i \in DOMAIN opened : Malformed(HeadOf(f.entries[opened[i]].body)) THEN Broken
     ELSE [read EXCEPT !.partial = @ \/ ~complete]

AllSniffed(f, opened) == Len(opened) = Cardinality(SniffCandidates(f.entries))

\* An entry that cannot be read is passed over in a zip and takes a place in a 7z.
InspectZIP(f) ==
  LET opened == UpTo(MaxBinaries, SelectSeq(ZipOrder(f.entries), LAMBDA i : ~Unreadable(f.entries[i])))
  IN Inspected(f, f.entries, opened, AllSniffed(f, opened))

Inspect7z(f) ==
  LET ranked == ByRank(SniffCandidates(f.entries), LAMBDA i : BundleRank(f.entries[i]))
      opened == SelectSeq(UpTo(MaxBinaries, ranked), LAMBDA i : ~Unreadable(f.entries[i]))
  IN Inspected(f, f.entries, opened, AllSniffed(f, opened))

InspectTar(f) == Inspected(f, TarListed(f), ByRank(SniffCandidates(TarListed(f)), LAMBDA i : 0), TarComplete(f))

InspectArchive(f) ==
  CASE f.kind = "zip" -> InspectZIP(f) [] f.kind = "7z" -> Inspect7z(f) [] f.kind = "tar" -> InspectTar(f)

-----------------------------------------------------------------------------
(* Single programs and setups *)

Header(seen) == [Report(seen.role, seen.targets) EXCEPT !.conflicts = seen.conflicts]

InspectBinary(f, whole) == IF Malformed(HeadOf(f)) THEN Broken ELSE Header(SniffBinary(HeadOf(f), whole))

\* The CPU of an ELF launcher is kept apart from the payload's.
SetLauncher(m, f) ==
  [m EXCEPT !.launcher = IF HeadOf(f).is = "elf" /\ Cardinality(m.targets) = 1 THEN Pick(m.targets).cpu ELSE ""]

AppCPU(name) ==
  CASE name = "app-64" -> "amd64" [] name = "app-arm64" -> "arm64" [] name = "app-32" -> "386" [] OTHER -> ""

\* The launcher of an NSIS installer tells nothing of its payload: only per-CPU
\* app archives, or the one executable it unpacks at its root, do.
NSISTargets(f) ==
  LET es    == {f.inside.entries[i] : i \in DOMAIN f.inside.entries}
      apps  == {Target("windows", AppCPU(e.name), "") : e \in {x \in es : x.ext \in {"7z", "zip"} /\ AppCPU(x.name) # ""}}
      exes  == {e \in es : e.ext = "exe" /\ e.name # "uninstall"}
      only  == Pick(exes)
      seen  == SniffBinary(HeadOf(only.body), FALSE)
  IN IF apps # {} THEN apps
     ELSE IF /\ Cardinality(exes) = 1 /\ only.depth = 0 /\ HeadOf(only.body).is = "pe"
             /\ seen.role = "application" /\ Cardinality(seen.targets) = 1
             /\ \A t \in seen.targets : t.os = "windows" THEN seen.targets
     ELSE {Target("windows", "", "")}

InspectEXE(f) ==
  IF f.form = "setup" /\ f.kind = "nsis" /\ ~Malformed(f.head)
  THEN Report("installer", NSISTargets(f)) ELSE InspectBinary(f, TRUE)

-----------------------------------------------------------------------------
(* Packages that declare what they are for *)

\* os and cpu are what the package declares, cpu "" for all.  flaw says what else
\* there is to it; "unsupported" marks a variant that is not read.
InspectDeb(f) ==
  CASE f.flaw = "no control" -> Report("installer", {})
    [] f.flaw = "unsupported" -> Unsupported("installer", {})
    [] OTHER -> Report("installer", {Target(f.os, f.cpu, "")})

InspectRPM(f) ==
  CASE f.flaw = "source" -> Report("metadata", {})
    [] f.flaw = "unsupported" -> Unsupported("unknown", {})
    [] OTHER -> Report("installer", {Target(f.os, f.cpu, "")} \ {Target("", "", "")})

\* A disk image may hold documents, so the container proves no role.
InspectDMG(f) ==
  CASE f.flaw = "unsupported" -> Unsupported("unknown", {})
    [] f.flaw = "segmented" -> Unsupported("unknown", {Target("macos", "", "")})
    [] OTHER -> Report("unknown", {Target("macos", "", "")})

InspectMSI(f) ==
  IF f.flaw = "unsupported" THEN Unsupported("unknown", {})
  ELSE Report("installer", {Target("windows", f.cpu, "")})

AlpinePackage(f) == Report("installer", {Target("linux", f.cpu, "")})

\* The extension is Android's and Alpine's.
InspectAPK(f) ==
  IF f.kind = "alpine" /\ f.flaw = "ADB" THEN Unsupported("unknown", {Target("linux", "", "")})
  ELSE IF f.kind = "android" /\ f.flaw = "no manifest" THEN Unsupported("metadata", {})
  ELSE IF f.kind = "android" THEN Report("installer", {Target("android", "", "")})
  ELSE IF f.kind = "alpine" /\ f.flaw = "" THEN AlpinePackage(f)
  ELSE Unsupported("unknown", {})

InspectPackage(f) ==
  CASE f.kind = "deb" -> InspectDeb(f) [] f.kind = "rpm" -> InspectRPM(f) [] f.kind = "dmg" -> InspectDMG(f)
    [] f.kind = "msi" -> InspectMSI(f) [] OTHER -> InspectAPK(f)

\* What a name's extension says the file is.
Fits(ext, f) ==
  CASE ext \in {"zip", "7z", "tar"} -> f.form = "archive" /\ f.kind = ext
    [] ext \in {"tar.gz", "tgz", "tar.xz", "txz", "tar.zst", "tzst", "tar.bz2"} ->
         f.form = "packed" /\ f.entry.body.form = "archive" /\ f.entry.body.kind = "tar"
    [] ext \in {"gz", "xz", "zst"} -> f.form = "packed"
    [] ext = "apk" -> f.form = "package" /\ f.kind \in {"alpine", "android"}
    [] OTHER -> f.form = "package" /\ f.kind = ext

\* A raw executable: no extension, .bin, or a suffix that looks like a version.
Sniffable(ext) == ext \in {"", "bin", "x86_64"}

\* The whole call, but for transport errors, which say nothing about the file.
InspectArtifact(ext, f) ==
  IF f.form = "large" /\ ext \in {"zip", "rpm", "msi", "apk"} THEN TooLarge
  ELSE IF f.form = "refused" /\ ext \in {"7z", "tar.xz", "txz", "tar.zst", "tzst", "xz", "zst"} THEN Report("unknown", {})
  ELSE IF ext = "exe" THEN InspectEXE(f)
  ELSE IF ext = "appimage" THEN SetLauncher(InspectBinary(f, TRUE), f)
  ELSE IF Sniffable(ext) THEN InspectBinary(f, TRUE)
  ELSE IF ext \notin {"zip", "7z", "tar", "tar.gz", "tgz", "tar.xz", "txz", "tar.zst", "tzst", "tar.bz2", "gz", "xz", "zst",
                      "dmg", "apk", "deb", "rpm", "msi"} THEN Unsupported("unknown", {})
  ELSE IF ~Fits(ext, f) THEN IF ext \in {"dmg", "apk"} THEN Unsupported("unknown", {}) ELSE Broken
  ELSE IF f.form = "archive" THEN InspectArchive(f)
  ELSE IF f.form = "packed" /\ ext \in {"gz", "xz", "zst"} THEN InspectBinary(f.entry.body, FALSE)
  ELSE IF f.form = "packed" THEN InspectArchive(f.entry.body)
  ELSE InspectPackage(f)
=============================================================================
