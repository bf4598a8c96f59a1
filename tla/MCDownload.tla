----------------------------- MODULE MCDownload -----------------------------
(***************************************************************************)
(* A catalogue of release files for Download: their names, their contents  *)
(* as Inspector sees them, and the headers of their main programs.         *)
(***************************************************************************)
EXTENDS Download, DeepInspector

Elf(cpu, libc) == [is |-> "elf", type |-> "exec", entry |-> TRUE, cpu |-> cpu, bigEndian |-> FALSE, osabi |-> "",
                   interp |-> libc, notes |-> {}, far |-> FALSE, runsOn |-> "linux"]
Lib(cpu) == [Elf(cpu, "") EXCEPT !.type = "dyn", !.entry = FALSE, !.osabi = "linux"]
Exe(cpu) == [is |-> "pe", cpu |-> cpu, efi |-> FALSE, dll |-> FALSE, clr |-> {}, hybrid |-> ""]
Mac(cpus) == [is |-> "macho", slices |-> {[cpu |-> c, type |-> "execute", platforms |-> {"macos"}, far |-> FALSE] : c \in cpus}]
CutHeader == [is |-> "cut"]

Prog(head) == [form |-> "program", head |-> head]
Pack(kind, entries) == [Sealed EXCEPT !.kind = kind, !.entries = entries, !.reach = Len(entries)]
Entry(name, ext, body) == [app |-> "", at |-> "", name |-> name, ext |-> ext, depth |-> 0, cpuDir |-> "", marks |-> {},
                           gate |-> "", dest |-> "", body |-> body]
Packed(body) == [form |-> "packed", entry |-> Entry("inner", "tar", body)]
Setup(kind, inside) == [form |-> "setup", kind |-> kind, head |-> Exe("386"), inside |-> inside]
Package(kind, os, cpu, inside) == [form |-> "package", kind |-> kind, os |-> os, cpu |-> cpu, flaw |-> "", inside |-> inside]

Junk  == [form |-> "junk"]
Plist == [form |-> "plist", executable |-> "main"]

\* A Mac bundle whose helper app precedes the main executable in the listing.
InApp(e, at) == [e EXCEPT !.app = "Tool.app", !.at = at, !.depth = 3]
Bundle(main, helpers) ==
  [i \in 1 .. helpers |-> InApp(Entry("helper", "", Prog(Mac({"amd64"}))), "helper MacOS")]
  \o <<InApp(Entry("Info", "plist", Plist), "Info.plist"), InApp(Entry("main", "", main), "MacOS")>>

Name(os, cpu, ext) == [os |-> os, cpu |-> cpu, libc |-> {}, marks |-> {}, ext |-> ext, variants |-> 0]
File(name, body, main) == [name |-> name, body |-> body, main |-> main]

LinuxGz == Name({"linux"}, {"amd64"}, "tar.gz")
Plain(ext) == Name({}, {}, ext)

MsixApp(cpu, head) ==
  [Pack("zip", <<Entry("app", "exe", Prog(head))>>) EXCEPT !.manifest = [NoManifest EXCEPT !.of = "package", !.cpu = cpu, !.apps = <<"app">>]]
MsixBundle(packages) ==
  [Pack("zip", [i \in DOMAIN packages |-> Entry(packages[i].file, "msix", packages[i].body)])
     EXCEPT !.manifest = [NoManifest EXCEPT !.of = "bundle",
                          !.packages = [i \in DOMAIN packages |-> [type |-> packages[i].type, cpu |-> packages[i].cpu, file |-> packages[i].file]]]]

One(body) == Pack("zip", <<Entry("inner", "zip", body)>>)
In(e, cpuDir, depth) == [e EXCEPT !.cpuDir = cpuDir, !.depth = depth]
Mark(e, mark) == [e EXCEPT !.marks = {mark}]
At(e, at) == [e EXCEPT !.at = at, !.depth = 2]
Gated(cpu, gate) == [Entry("tool", "exe", Prog(Exe(cpu))) EXCEPT !.gate = gate, !.dest = "app"]

Catalogue ==
  << \* 1, 2: a Linux build, uploaded anew under its name for another CPU
     File(LinuxGz, Packed(Pack("tar", <<Entry("tool", "", Prog(Elf("amd64", "gnu")))>>)), {Elf("amd64", "gnu")}),
     File(LinuxGz, Packed(Pack("tar", <<Entry("tool", "", Prog(Elf("arm64", "gnu"))), Entry("libtool", "so", Prog(Lib("arm64")))>>)),
          {Elf("arm64", "gnu")}),
     \* 3, 4: Windows builds beside an updater and an uninstaller, the second with a name that says nothing
     File(Name({"windows"}, {"amd64"}, "zip"), Pack("zip", <<Entry("tool", "exe", Prog(Exe("amd64"))), Mark(Entry("update", "exe", Prog(Exe("386"))), "helper")>>),
          {Exe("amd64")}),
     File(Plain("zip"), Pack("zip", <<Entry("tool", "exe", Prog(Exe("amd64"))), Mark(Entry("unins", "exe", Prog(Exe("386"))), "helper")>>),
          {Exe("amd64")}),
     \* 5: broken
     File(Plain("zip"), Prog(CutHeader), {}),
     \* 6, 7, 8: installers with a 386 stub: an Electron one, a sealed one, an Inno one with a copy per CPU
     File(Plain("exe"), Setup("nsis", Pack("Nsis", <<Entry("app-64", "7z", Pack("7z", <<Entry("tool", "exe", Prog(Exe("amd64")))>>)),
                                                     Entry("uninstall", "exe", Prog(Exe("386")))>>)), {Exe("amd64")}),
     File(Plain("exe"), Setup("other", Sealed), {Exe("amd64")}),
     File(Plain("exe"), Setup("inno", Pack("Inno", <<Gated("amd64", "not IsArm64"), Gated("arm64", "IsArm64")>>)), {Exe("amd64"), Exe("arm64")}),
     \* 9, 10, 11: Mac downloads; two helper apps fill the sample of the last
     File(Plain("dmg"), Package("dmg", "", "", Pack("dmg", Bundle(Prog(Mac({"amd64", "arm64"})), 1))), {Mac({"amd64", "arm64"})}),
     File(Plain("zip"), Pack("zip", Bundle(Prog(Mac({"arm64"})), 1)), {Mac({"arm64"})}),
     File(Plain("zip"), Pack("zip", Bundle(Prog(Mac({"arm64"})), 2)), {Mac({"arm64"})}),
     \* 12, 13: raw programs, the first one truncated, of which only probes can tell
     File(Plain("bin"), Prog(CutHeader), {}),
     File(Plain("bin"), Prog(Elf("amd64", "gnu")), {Elf("amd64", "gnu")}),
     \* 14, 15: AppImages, the second with a launcher for another CPU
     File(Plain("appimage"), [form |-> "appimage", head |-> Elf("amd64", ""), inside |-> Pack("Squash", <<At(Entry("tool", "", Prog(Elf("amd64", "gnu"))), "bin")>>)],
          {Elf("amd64", "gnu")}),
     File(Plain("appimage"), [form |-> "appimage", head |-> Elf("arm64", ""), inside |-> Pack("Squash", <<At(Entry("tool", "", Prog(Elf("amd64", "gnu"))), "bin")>>)],
          {}),
     \* 16: three CPUs in three directories, 17: IL for any CPU, 18: an ARM64X image
     File(Plain("zip"), Pack("zip", <<In(Entry("tool", "exe", Prog(Exe("amd64"))), "x64", 1), In(Entry("cli", "exe", Prog(Exe("amd64"))), "x64", 1),
                                      In(Entry("tool", "exe", Prog(Exe("arm64"))), "arm64", 1)>>), {Exe("amd64"), Exe("arm64")}),
     File(Plain("7z"), Pack("7z", <<Mark(Entry("setup", "exe", Prog(Exe("386"))), "unreadable"), Entry("tool", "exe", Prog([Exe("386") EXCEPT !.clr = {"IL only"}]))>>),
          {[Exe("386") EXCEPT !.clr = {"IL only"}]}),
     File(Plain("exe"), Prog([Exe("arm64") EXCEPT !.hybrid = "arm64x"]), {[Exe("arm64") EXCEPT !.hybrid = "arm64x"]}),
     \* 19, 20, 21: Windows packages
     File(Plain("msixbundle"), MsixBundle(<<[type |-> "application", cpu |-> "", file |-> "x64", body |-> MsixApp("amd64", Exe("amd64"))],
                                            [type |-> "application", cpu |-> "arm64", file |-> "arm", body |-> Junk],
                                            [type |-> "resource", cpu |-> "", file |-> "lang", body |-> Junk]>>), {Exe("amd64"), Exe("arm64")}),
     File(Plain("msix"), MsixApp("", Exe("amd64")), {Exe("amd64")}),
     File(Plain("exe"), Setup("burn", Pack("burn", <<Mark(Entry("app", "msi", Package("msi", "windows", "amd64", Pack("msi", <<Entry("tool", "exe", Prog(Exe("amd64")))>>))), "embedded"),
                                                     Entry("logo", "", Junk)>>)), {Exe("amd64")}),
     \* 22: a Mac package around a payload, 23: a bundle whose main executable is a script
     File(Plain("pkg"), Pack("Xar", <<Entry("payload", "", [form |-> "pbzx", cut |-> FALSE, cpio |-> Pack("Cpio", Bundle(Prog(Mac({"amd64"})), 1))])>>),
          {Mac({"amd64"})}),
     File(Plain("dmg"), Package("dmg", "", "", Pack("dmg", Append(Bundle([form |-> "script"], 0), InApp(Entry("bin", "", Prog(Mac({"arm64"}))), "MacOS")))), {Mac({"arm64"})}),
     \* 24 - 29: Linux packages, sources, an Android package
     File(Plain("deb"), Package("deb", "linux", "amd64", Pack("tar", <<At(Entry("tool", "", Prog(Elf("amd64", "gnu"))), "bin")>>)), {Elf("amd64", "gnu")}),
     File(Plain("rpm"), [Package("rpm", "linux", "", Pack("Cpio", <<Entry("tool", "spec", Junk)>>)) EXCEPT !.flaw = "source"], {}),
     File(Plain("apk"), Package("alpine", "linux", "amd64", Sealed), {Elf("amd64", "musl")}),
     File(Plain("apk"), Package("android", "android", "", Sealed), {}),
     File(Plain("flatpak"), Package("flatpak", "linux", "amd64", Sealed), {Elf("amd64", "gnu")}),
     File(Plain("xz"), [form |-> "packed", entry |-> Entry("tool", "", Prog(Elf("amd64", "musl")))], {Elf("amd64", "musl")}),
     \* 30, 31: a Java program with native libraries, libraries alone
     File(Plain("zip"), Pack("zip", <<Entry("tool", "jar", Junk), Mark(Entry("start", "sh", [form |-> "script"]), "java launcher"),
                                      At(Entry("native", "so", Prog(Lib("amd64"))), "nativelib")>>), {[Elf("amd64", "") EXCEPT !.osabi = "linux"]}),
     File(Plain("zip"), Pack("zip", <<Entry("tool", "dll", Prog([Exe("amd64") EXCEPT !.dll = TRUE]))>>), {}),
     \* 32 - 36: at the limits: a tar read in part, nesting, executables, a listing, a codec
     File(Plain("tar"), [Pack("tar", <<Entry("tool", "", Prog(Elf("amd64", "gnu"))), Entry("other", "", Prog(Elf("arm64", "gnu")))>>) EXCEPT !.reach = 1],
          {Elf("amd64", "gnu"), Elf("arm64", "gnu")}),
     File(Plain("zip"), One(One(One(One(Pack("zip", <<Entry("tool", "exe", Prog(Exe("amd64")))>>))))), {Exe("amd64")}),
     File(Plain("zip"), Pack("zip", [i \in 1 .. 4 |-> Entry("tool", "exe", Prog(Exe(IF i = 4 THEN "386" ELSE "amd64")))]), {Exe("amd64"), Exe("386")}),
     File(Plain("exe"), Setup("inno", Pack("too long", <<Gated("amd64", "IsX64OS")>>)), {Exe("amd64")}),
     File(Plain("tar.zst"), [form |-> "refused", inside |-> Pack("stream", <<Entry("inner", "tar", Pack("tar", <<Entry("tool", "", Prog(Elf("amd64", "gnu")))>>))>>)], {Elf("amd64", "gnu")}),
     \* 37: a program whose name ends in a CPU, 38: a manifest
     File(Name({"linux"}, {"amd64"}, "x86_64"), Prog(Elf("amd64", "gnu")), {Elf("amd64", "gnu")}),
     File([Plain("json") EXCEPT !.marks = {"sidecar"}], Junk, {}),
     \* 39: a build whose name says gnu and static alike
     File([LinuxGz EXCEPT !.libc = {"gnu", "static"}], Packed(Pack("tar", <<Entry("tool", "", Prog(Elf("amd64", "")))>>)), {Elf("amd64", "")}) >>

Uploaded(f) ==
  LET c == Catalogue[f]
  IN [name |-> c.name, shallow |-> InspectArtifact(c.name.ext, c.body), deep |-> InspectFile(c.name.ext, c.body),
      runsOn |-> UNION {TrueTargets(h) : h \in c.main}, successor |-> IF f = 1 THEN 2 ELSE f]

From(ua) == [os |-> "", cpu |-> "", libc |-> "", prefer |-> "", ua |-> ua, script |-> FALSE]
OnWindows64 == From({"windows", "amd64"})
OnLinux == From({"linux", "amd64"})
ForMusl == [OnLinux EXCEPT !.libc = "musl"]
OnMac == [From({"macos"}) EXCEPT !.cpu = "arm64"]

Of(files, queries) ==
  [files |-> files, manifests |-> <<>>, queries |-> queries,
   contents |-> [f \in UNION {{files[i]} \cup (IF files[i] = 1 THEN {2} ELSE {}) : i \in DOMAIN files} |-> Uploaded(f)]]
Windows(f) == Of(<<f>>, {OnWindows64})
Linux(f) == Of(<<f>>, {OnLinux})
Macs(f) == Of(<<f>>, {OnMac})

Claim(name, kind, targets, cpu) == [name |-> name, kind |-> kind, targets |-> targets, cpu |-> cpu]
Manifest(format, os, claims) ==
  [self |-> Catalogue[38].name, format |-> format, channel |-> [os |-> os, cpu |-> ""], valid |-> TRUE, claims |-> claims]
Claimed(f, said, query) == [Of(<<f, 38>>, {query}) EXCEPT !.manifests = <<said>>]

MCReleases ==
  {Windows(f) : f \in {4, 6, 7, 8, 16, 17, 18, 19, 20, 21, 33, 34, 35}}
  \cup {Linux(f) : f \in {1, 5, 12, 14, 15, 24, 25, 26, 27, 28, 29, 30, 31, 32, 36, 37}}
  \cup {Macs(f) : f \in {9, 10, 11, 22, 23}}
  \cup {Of(<<4, 3>>, {OnWindows64}), Of(<<4, 24>>, {OnWindows64}), Of(<<39>>, {ForMusl}),
        Claimed(1, Manifest("dist", "", <<Claim(LinuxGz, "executable-zip", {[arch |-> "x86_64", system |-> "linux", env |-> "gnu"]}, "")>>), OnLinux),
        Claimed(10, Manifest("tauri", "", <<Claim(Plain("zip"), "", {[os |-> "darwin", arch |-> "aarch64"]}, "")>>), OnMac),
        Claimed(6, Manifest("electron", "windows", <<Claim(Plain("exe"), "", {}, "x64")>>), OnWindows64),
        Claimed(18, Manifest("electron", "windows", <<Claim(Plain("exe"), "", {}, "x64")>>), OnWindows64)}
StarvedReleases == {Of(<<12, 13>>, {})}
MCPickTargets == {ResolveVisitor(q) : q \in {OnWindows64, OnLinux, OnMac}}

Guess(os, cpu) == [os |-> os, osP |-> 95, cpu |-> cpu, cpuP |-> 95, main |-> 90]
MCAttrOptions == {Guess("windows", "amd64"), Guess("linux", "amd64")}
MCChoices == {[p |-> 85, insufficient |-> 5, runnerUp |-> 10], [p |-> 100, insufficient |-> 100, runnerUp |-> 0]}
MCLibcs == {"gnu", "static"}
=============================================================================
