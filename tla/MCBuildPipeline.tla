---------------------------- MODULE MCBuildPipeline ----------------------------
(* Hosts and command lines for BuildPipeline: two processes, in one output *)
(* directory or in two, on hosts that have all, some or none of the tools. *)
EXTENDS BuildPipeline

CONSTANTS p1, p2

Host(os, programs) == [os |-> os, path |-> programs, temp |-> <<"/tmp/">>]
LinuxFull == Host("linux", {"nasm", "ld.lld", "llvm-objdump", "qemu-x86_64", "aarch64-as",
                            "aarch64-ld", "qemu-aarch64"})
LinuxNative == Host("linux", {"nasm", "ld.bfd", "objdump"})
Windows == Host("windows", {"nasm", "lld-link", "llvm-objdump"})
Bare == Host("macos", {"nasm"})

\* Directories: a plain one, one with "dynamic" in its name, one named after a source.
Out == <<"out">>
DynamicOut == <<"dynamic", "-out">>
SourceOut == <<"work/", "src/a.asm", ".d">>

Line(command, target, file, out_dir) ==
    [command |-> command, target |-> target, source |-> file, path |-> "src/a.asm",
     out_dir |-> out_dir, no_run |-> FALSE, expected |-> "None"]
Build(target, file, out_dir) == Line("build", target, file, out_dir)
NoRun(target, file, out_dir) == [Build(target, file, out_dir) EXCEPT !.no_run = TRUE]
Fixture(expected) == [Line("fixture", "x86_64-linux", "a", Out) EXCEPT !.expected = expected]
Doctor(target) == Line("doctor", target, "a", <<>>)
\* The other source, by its path.
Named(path, line) == [line EXCEPT !.path = path, !.source = "b"]

Scenario(host_, one, two) == [host |-> host_, request |-> (p1 :> one) @@ (p2 :> two)]

MCBuilds == {p1, p2}
MCFiles == {"a", "b"}
MCScenarios ==
    {Scenario(LinuxFull, NoRun("x86_64-linux", "a", Out), Named("b.asm", NoRun("x86_64-linux", "b", Out))),
     Scenario(LinuxFull, NoRun("x86_64-linux", "a", <<>>), Named("b.asm", NoRun("x86_64-linux", "b", DynamicOut))),
     Scenario(LinuxFull, NoRun("x86_64-linux", "a", SourceOut), Named("elf64", NoRun("x86_64-linux", "b", Out))),
     Scenario(LinuxFull, NoRun("aarch64-linux", "a", <<>>), Named("b.asm", NoRun("aarch64-linux", "b", <<>>))),
     Scenario(LinuxFull, NoRun("aarch64-linux", "a", Out), NoRun("aarch64-linux", "a", Out)),
     Scenario(Windows, NoRun("x86_64-windows", "a", <<>>), Named("b.asm", NoRun("x86_64-windows", "b", Out))),
     Scenario(Windows, Build("x86_64-windows", "a", <<>>), Doctor("x86_64-windows")),
     Scenario(LinuxNative, Build("x86_64-linux", "a", Out), Fixture("None")),
     Scenario(LinuxFull, Named("b.asm", Build("x86_64-linux", "b", Out)), Fixture("code0")),
     Scenario(LinuxFull, Named("b.asm", Build("x86_64-linux", "b", <<>>)), Doctor("riscv64-linux")),
     Scenario(Bare, Build("x86_64-linux", "a", Out), Named("b.asm", Build("unknown", "b", Out)))}

\* The tables of a file: an executable is loaded above 0, the dynamic linker is not
\* involved.  Names read as hexadecimal numbers, short ones of sections; a saved
\* source has a section whose name looks like a size.
MCImageOf(content) ==
    LET object == IF content.kind = "object" THEN content ELSE content.of
        section == IF object.of = 1 THEN HexName("deadbeef", 8, 7) ELSE HexName("fade", 4, 9)
    IN  [sections |-> <<[name |-> Word(".text", 5), size |-> 6,
                         vma |-> IF content.kind = "object" THEN 0 ELSE 4],
                        [name |-> section, size |-> 2, vma |-> 8]>>,
         symbols |-> <<[name |-> Word("main", 4), section |-> Word(".text", 5), address |-> 4, size |-> 2],
                       [name |-> HexName("deadbeef", 8, 7), section |-> section, address |-> 0, size |-> 3],
                       [name |-> Word("puts", 4), section |-> Word("*UND*", 5), address |-> 0, size |-> 0]>>,
         is_dynamic |-> FALSE]

===============================================================================
