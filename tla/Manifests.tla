----------------------------- MODULE Manifests -----------------------------
(***************************************************************************)
(* ReleaseMetadata and MergeObservations of src/backend/github: what the   *)
(* publisher's own manifests say of the files of a release, and how facts  *)
(* from several sources are put together.  A manifest is                   *)
(*   [self, format, channel, valid, claims], self being its own name;      *)
(* a claim is [name, kind, targets, cpu] about the asset of that name,     *)
(* kind being cargo-dist's, targets its triples or Tauri's key, cpu the    *)
(* key of an Electron web package.                                         *)
(***************************************************************************)
EXTENDS Headers

\* Manifests read per release: maxManifests.
MaxManifests == 8

NoFact == [status |-> "", role |-> "unknown", targets |-> {}, partial |-> FALSE,
           launcher |-> "", conflicts |-> {}, sources |-> {}]

Fact(role, targets) == [NoFact EXCEPT !.status = "inspected", !.role = role, !.targets = targets, !.sources = {"manifest"}]

-----------------------------------------------------------------------------
(* MergeObservations: publisher facts a, contents b *)

Runnables == {"installer", "application"}

Agree(x, y) == x = "" \/ y = "" \/ x = y

\* Corroborating targets, each filled with what the other one knows.
Combined(a, b) ==
  LET Or(x, y) == IF x = "" THEN y ELSE x
      meets(p) == /\ Agree(p[1].os, p[2].os) /\ Agree(p[1].cpu, p[2].cpu)
                  /\ Agree(p[1].libc, p[2].libc) \/ "static" \in {p[1].libc, p[2].libc}
  IN {Target(Or(p[1].os, p[2].os), Or(p[1].cpu, p[2].cpu), Or(p[1].libc, p[2].libc)) : p \in {q \in a \X b : meets(q)}}

\* Mutant: publisher and contents that disagree leave the publisher's word.
MergeTargetsByPublisher(a, b) ==
  IF a.targets = {} THEN [targets |-> b.targets, partial |-> b.partial, clash |-> FALSE]
  ELSE [targets |-> a.targets, partial |-> a.partial, clash |-> FALSE]

\* A sample neither narrows a complete list nor contradicts an absent CPU.
MergeTargets(a, b) ==
  LET both == Combined(a.targets, b.targets)
  IN IF a.targets = {} /\ b.targets = {} THEN [targets |-> {}, partial |-> a.partial \/ b.partial, clash |-> FALSE]
     ELSE IF a.targets = {} \/ (a.partial /\ b.targets # {} /\ ~b.partial) THEN [targets |-> b.targets, partial |-> b.partial, clash |-> FALSE]
     ELSE IF b.targets = {} THEN [targets |-> a.targets, partial |-> a.partial, clash |-> FALSE]
     ELSE IF a.partial /\ b.partial THEN [targets |-> a.targets \cup b.targets, partial |-> TRUE, clash |-> FALSE]
     ELSE IF b.partial THEN [targets |-> a.targets, partial |-> FALSE, clash |-> FALSE]
     ELSE IF both = {} THEN [targets |-> a.targets, partial |-> FALSE, clash |-> TRUE]
     ELSE [targets |-> both, partial |-> FALSE, clash |-> FALSE]

MergeObservations(a, b) ==
  LET known(role) == role \notin {"", "unknown"}
      merged == MergeTargets(a, b)
  IN [status    |-> IF b.status \in {"failed", "inspected"} \/ a.status \in {"", "unknown"} THEN b.status ELSE a.status,
      role      |-> IF known(a.role) THEN a.role ELSE b.role,
      targets   |-> merged.targets,
      partial   |-> merged.partial,
      launcher  |-> IF b.launcher # "" THEN b.launcher ELSE a.launcher,
      conflicts |-> UNION {a.conflicts, b.conflicts,
                           IF known(a.role) /\ known(b.role) /\ a.role # b.role /\ {a.role, b.role} # Runnables
                           THEN {"publisher role"} ELSE {},
                           IF merged.clash THEN {"publisher targets"} ELSE {}},
      sources   |-> a.sources \cup b.sources]

-----------------------------------------------------------------------------
(* What the manifests claim *)

\* A Rust target triple [arch, system, env].
TripleTargets(t) ==
  LET os   == CASE t.system = "apple-darwin" -> "macos" [] t.system = "apple-ios" -> "ios"
                [] t.system = "linux-android" -> "android" [] OTHER -> t.system
      libc == IF os # "linux" THEN "" ELSE IF t.env = "musl-static" THEN "static" ELSE t.env
      cpus == CASE t.arch = "universal2" /\ os = "macos" -> {"amd64", "arm64"}
                [] t.arch = "x86_64" -> {"amd64"} [] t.arch \in {"aarch64", "arm64"} -> {"arm64"}
                [] t.arch \in {"i686", "i586", "i386"} -> {"386"} [] OTHER -> {t.arch}
  IN {Target(os, c, libc) : c \in cpus}

\* Tauri's OS-ARCH keys; a custom key is a target that no visitor has.
TauriTargets(key) ==
  LET os  == CASE key.os = "darwin" -> "macos" [] key.os \in {"windows", "linux"} -> key.os [] OTHER -> ""
      cpu == CASE key.arch = "x86_64" -> "amd64" [] key.arch = "aarch64" -> "arm64" [] key.arch = "i686" -> "386"
               [] key.arch = "armv7" -> "arm" [] OTHER -> ""
  IN IF os = "macos" /\ key.arch = "universal" THEN {Target("macos", "amd64", ""), Target("macos", "arm64", "")}
     ELSE IF os = "" \/ cpu = "" THEN {Target("tauri target", "", "")}
     ELSE {Target(os, cpu, "")}

\* An unknown kind, like an updater, is no application download.
DistKindRole(kind) ==
  CASE kind = "executable-zip" -> "application" [] kind = "installer" -> "installer"
    [] kind = "symbols" -> "debug" [] kind = "source-tarball" -> "source" [] OTHER -> "metadata"

\* The desktop system a name states by its format or a token, "" for none.
NamedDesktopOS(name) ==
  LET named == name.os \cap {"macos", "linux", "windows"}
  IN CASE name.ext \in {"dmg", "pkg"} -> "macos"
       [] name.ext \in {"deb", "rpm", "appimage", "flatpak", "snap"} -> "linux"
       [] name.ext \in {"exe", "msi", "msix", "appx"} -> "windows"
       [] OTHER -> IF named = {} THEN "" ELSE Pick(named)

\* A channel's system describes only the files that do not name another one.
ElectronTargets(channel, claim) ==
  LET cpu == CASE claim.cpu = "x64" -> "amd64" [] claim.cpu = "ia32" -> "386" [] claim.cpu = "arm64" -> "arm64" [] OTHER -> ""
  IN {Target(channel.os, IF channel.os = "windows" /\ cpu # "" THEN cpu ELSE channel.cpu, "")}

ClaimFact(m, claim) ==
  CASE m.format = "dist" -> Fact(DistKindRole(claim.kind), UNION {TripleTargets(t) : t \in claim.targets})
    [] m.format = "tauri" -> Fact("application", UNION {TauriTargets(t) : t \in claim.targets})
    [] m.format = "electron" -> Fact("unknown", ElectronTargets(m.channel, claim))

Systems(f) == {t.os : t \in f.targets} \ {""}

MergeManifestFact(have, new) ==
  IF have = NoFact THEN new
  ELSE [have EXCEPT !.conflicts = UNION {@, new.conflicts,
                                         IF Systems(have) # {} /\ Systems(new) # {} /\ Systems(have) # Systems(new)
                                         THEN {"manifest platforms"} ELSE {},
                                         IF {have.role, new.role} \cap {"unknown"} = {} /\ have.role # new.role
                                         THEN {"manifest roles"} ELSE {}},
                    !.role = IF @ = "unknown" THEN new.role ELSE @,
                    !.targets = @ \cup new.targets,
                    !.sources = @ \cup new.sources]

\* The facts of one manifest about the asset with this name, in the order of its claims.
FactsIn(m, name) ==
  LET about(c) == c.name = name /\ (m.format = "electron" => NamedDesktopOS(name) \in {"", m.channel.os})
      claims   == SelectSeq(m.claims, about)
      merged[i \in 0 .. Len(claims)] ==
        IF i = 0 THEN NoFact ELSE MergeManifestFact(merged[i - 1], ClaimFact(m, claims[i]))
  IN merged[Len(claims)]

\* What a release's manifests say of one asset; unread ones say nothing but their own failure.
ReleaseMetadata(manifests, readable, name) ==
  LET n == IF Len(manifests) < MaxManifests THEN Len(manifests) ELSE MaxManifests
      self(m) == IF m.self # name THEN NoFact
                 ELSE IF m \in readable /\ m.valid THEN Fact("metadata", {})
                 ELSE [Fact("metadata", {}) EXCEPT !.status = "failed"]
      said(m) == IF m \in readable /\ m.valid THEN FactsIn(m, name) ELSE NoFact
      add(have, new) == IF new = NoFact THEN have ELSE MergeManifestFact(have, new)
      merged[i \in 0 .. n] == IF i = 0 THEN NoFact ELSE add(add(merged[i - 1], said(manifests[i])), self(manifests[i]))
  IN merged[n]
=============================================================================
