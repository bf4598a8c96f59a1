------------------------------ MODULE Headers ------------------------------
(***************************************************************************)
(* What src/backend/github reads in an executable's header: sniffBinary    *)
(* and the ELF, PE and Mach-O readers behind it.  A program stands for its *)
(* header fields:                                                          *)
(*   [is |-> "elf", type, entry, cpu, bigEndian, osabi, interp, notes,     *)
(*    far, runsOn]                                                         *)
(*   [is |-> "pe", cpu, efi, dll, hybrid, clr: flags of its CLR header]    *)
(*   [is |-> "macho", slices: set of [cpu, type, platforms, far]]          *)
(*   [is |-> "none"]: no known magic; [is |-> "cut"]: a magic with a       *)
(*   truncated or invalid header behind it                                 *)
(* far marks what lies beyond the 64 KiB of an archive entry that the      *)
(* bounded inspection reads, runsOn the system the ELF program is for.     *)
(* CPUs that the site does not know are Foreign.                           *)
(***************************************************************************)
EXTENDS Integers, FiniteSets, Sequences

Foreign == "foreign cpu"

Target(os, cpu, libc) == [os |-> os, cpu |-> cpu, libc |-> libc]

Pick(S) == CHOOSE x \in S : TRUE

\* observeRole: a proven application stands above its bundled helper files.
RoleRank(role) ==
  CASE role \in {"application", "installer"} -> 4 [] role = "debug" -> 2 [] role = "metadata" -> 1 [] OTHER -> 0

ObserveRole(have, seen) == IF RoleRank(seen) > RoleRank(have) THEN seen ELSE have

\* What one header tells.
Nothing == [found |-> FALSE, role |-> "unknown", targets |-> {}, conflicts |-> {}]

-----------------------------------------------------------------------------

\* The dynamic loader's path names the system and its libc.
InterpOS(interp) ==
  CASE interp \in {"musl", "gnu"} -> "linux"
    [] interp \in {"android", "freebsd", "netbsd"} -> interp
    [] OTHER -> ""

\* The system comes from OS ABI, interpreter and notes, never from the magic alone.
ReadELF(h) ==
  LET systems == ({h.osabi, InterpOS(h.interp)} \cup h.notes) \ {""}
      os   == IF Cardinality(systems) = 1 THEN Pick(systems) ELSE ""
      libc == CASE os = "linux" /\ h.interp \in {"musl", "gnu"} -> h.interp
                [] os = "linux" /\ h.interp = "" /\ h.type = "exec" -> "static"
                [] OTHER -> ""
      runs == h.type = "exec" \/ (h.type = "dyn" /\ (h.interp # "" \/ h.entry))
  IN [found     |-> TRUE,
      role      |-> IF runs THEN "application" ELSE "metadata",
      targets   |-> {Target(os, IF h.bigEndian THEN Foreign ELSE h.cpu, libc)},
      conflicts |-> IF Cardinality(systems) > 1 THEN {"elf systems"} ELSE {}]

\* Only 64-bit Windows images are searched for hybrid metadata.
HybridImage(h) == IF ~h.efi /\ h.cpu \in {"amd64", "arm64"} THEN h.hybrid ELSE ""

\* peCLR proves CPU-neutral IL from the flags of a well-formed CLR header; native
\* code, a 32-bit requirement or an invalid header leave the image its machine.
CPUNeutral(h) ==
  /\ "IL only" \in h.clr /\ h.clr \cap {"native code", "32-bit required", "invalid"} = {}
  /\ h.cpu = "386" /\ ~("32-bit preferred" \in h.clr /\ h.dll)

\* An ARM64EC image has an x64 machine field, an ARM64X image an ARM64 one.
ReadPE(h) ==
  LET os     == IF h.efi THEN "uefi" ELSE "windows"
      anyCPU == os = "windows" /\ CPUNeutral(h)
      cpu    == IF HybridImage(h) \in {"arm64ec", "arm64x"} THEN "arm64" ELSE h.cpu
  IN [found     |-> TRUE,
      role      |-> IF h.dll THEN "metadata" ELSE "application",
      targets   |-> IF anyCPU THEN {Target("windows", c, "") : c \in {"386", "amd64", "arm64"}}
                    ELSE {Target(os, cpu, "")},
      conflicts |-> {}]

\* The platform commands of a slice disagree: the platform is left open.
SliceTarget(s) ==
  Target(IF ~s.far /\ Cardinality(s.platforms) = 1 THEN Pick(s.platforms) ELSE "", s.cpu, "")

SliceRole(s) == CASE s.type = "execute" -> "application" [] s.type = "dsym" -> "debug" [] OTHER -> "metadata"

\* A thin file is one slice.  Slices out of reach keep their CPU, without a system.
ReadMachO(slices) ==
  LET near  == {s \in slices : ~s.far}
      roles == {SliceRole(s) : s \in near}
  IN [found     |-> TRUE,
      role      |-> IF near = {} THEN "unknown" ELSE CHOOSE r \in roles : \A q \in roles : RoleRank(q) <= RoleRank(r),
      targets   |-> {SliceTarget(s) : s \in slices},
      conflicts |-> IF \E s \in near : Cardinality(s.platforms) > 1 THEN {"mach-o platforms"} ELSE {}]

\* sniffBinary, with the whole file at hand or only the head of an archive entry.
\* "cut" headers end the inspection; the caller asks Malformed first.
Malformed(h) == h.is = "cut"

SniffBinary(h, whole) ==
  CASE h.is = "elf" -> ReadELF(IF whole \/ ~h.far THEN h ELSE [h EXCEPT !.interp = "", !.notes = {}])
    [] h.is = "pe" -> ReadPE(h)
    [] h.is = "macho" -> ReadMachO(IF whole THEN {[s EXCEPT !.far = FALSE] : s \in h.slices} ELSE h.slices)
    [] OTHER -> Nothing

\* The systems and CPUs a program really runs on: the reference the readers are held to.
TrueTargets(h) ==
  CASE h.is = "elf" /\ h.runsOn # "" -> {[os |-> h.runsOn, cpu |-> IF h.bigEndian THEN Foreign ELSE h.cpu]}
    [] h.is = "pe" /\ ~h.dll /\ ~h.efi ->
         IF h.clr = {"IL only"} THEN {[os |-> "windows", cpu |-> c] : c \in {"386", "amd64", "arm64"}}
         ELSE {[os |-> "windows", cpu |-> IF h.hybrid \in {"arm64ec", "arm64x"} THEN "arm64" ELSE h.cpu]}
    [] h.is = "macho" ->
         {[os |-> IF s.platforms = {} THEN "macos" ELSE Pick(s.platforms), cpu |-> s.cpu] : s \in {x \in h.slices : x.type = "execute"}}
    [] OTHER -> {}
=============================================================================
