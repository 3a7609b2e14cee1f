------------------------------ MODULE Toolchain ------------------------------
(***************************************************************************)
(* Targets, the tools they need, and how a Pipeline resolves them          *)
(* (crates/semasm-target/src/lib.rs and tools.rs, Pipeline::discover of    *)
(* crates/semasm-build/src/pipeline.rs).  A host is its operating system   *)
(* and the set of programs on its PATH that answer --version.              *)
(***************************************************************************)
EXTENDS Sequences, Naturals, ExecApi

Hosts == [os : {"linux", "windows", "macos"}, path : SUBSET STRING]

\* TargetIdentity: what the pipeline looks at.
Identity(format, dialect) == [object_format |-> format, dialect |-> dialect]
x86_64_linux_gnu == Identity("Elf", "NasmIntel")
x86_64_windows_msvc == Identity("PeCoff", "NasmIntel")
aarch64_linux_gnu == Identity("Elf", "GasUnified")
riscv64_linux_gnu == Identity("Elf", "GasUnified")

KnownTargets == {"x86_64-linux", "x86_64-windows", "aarch64-linux", "riscv64-linux"}
parse_known(name) == CASE name = "x86_64-linux" -> x86_64_linux_gnu
                       [] name = "x86_64-windows" -> x86_64_windows_msvc
                       [] name = "aarch64-linux" -> aarch64_linux_gnu
                       [] name = "riscv64-linux" -> riscv64_linux_gnu

-----------------------------------------------------------------------------

\* Candidates of a role in order of preference; native execution has no binary.
Native == {"NativeHost", "NativeLinux"}
binary(kind) == IF kind \in Native THEN "" ELSE kind

required_tools(name) ==
    CASE name = "x86_64-linux" ->
            [assembler |-> <<"nasm">>, linker |-> <<"ld.lld", "ld.bfd">>,
             disassembler |-> <<"llvm-objdump", "objdump">>,
             runner |-> <<"qemu-x86_64", "NativeLinux">>]
      [] name = "x86_64-windows" ->
            [assembler |-> <<"nasm">>, linker |-> <<"lld-link", "ld.lld">>,
             disassembler |-> <<"llvm-objdump", "objdump">>, runner |-> <<"NativeHost">>]
      [] name = "aarch64-linux" ->
            [assembler |-> <<"aarch64-as">>, linker |-> <<"aarch64-ld", "ld.lld">>,
             disassembler |-> <<"llvm-objdump", "objdump">>, runner |-> <<"qemu-aarch64">>]
      [] name = "riscv64-linux" ->
            [assembler |-> <<"riscv64-as">>, linker |-> <<"riscv64-ld", "ld.lld">>,
             disassembler |-> <<"llvm-objdump", "objdump">>, runner |-> <<"qemu-riscv64">>]

probe(host, kind) == CASE kind = "NativeHost" -> host.os = "windows"
                       [] kind = "NativeLinux" -> host.os = "linux"
                       [] OTHER -> binary(kind) \in host.path

\* Positions of the candidates found; the first is the effective one.
Found(host, slot) == {i \in DOMAIN slot : probe(host, slot[i])}
resolved(host, slot) == CHOOSE i \in Found(host, slot) : \A j \in Found(host, slot) : i <= j

all_found(host, name) ==
    \A role \in DOMAIN required_tools(name) : Found(host, required_tools(name)[role]) # {}

\* Mutant: the preferred candidate, found or not.
MutPreferred(host, slot) == slot[1]

\* The effective candidate, or the preferred one when none was found.
effective(host, slot) == IF Found(host, slot) = {} THEN slot[1] ELSE slot[resolved(host, slot)]

\* The runner is a sentinel when the artifact is to be started by itself.
discover(host, name) ==
    LET tool(role) == effective(host, required_tools(name)[role])
        native == tool("runner") \in Native /\ probe(host, tool("runner"))
    IN  [assembler |-> binary(tool("assembler")), linker |-> binary(tool("linker")),
         disassembler |-> binary(tool("disassembler")),
         runner |-> IF native THEN "__native__" ELSE binary(tool("runner"))]

\* ExecutionIsolation::from_runner; the names of emulators start with qemu.
from_runner(runner) ==
    IF runner \in {"qemu-x86_64", "qemu-aarch64", "qemu-riscv64"} THEN "QemuUser" ELSE "NativeHost"

-----------------------------------------------------------------------------

\* What exec() of a program may return on a host (external).
Exec(host, program) ==
    IF program \in host.path THEN Outcomes \ {Failure("ProgramNotFound")}
    ELSE {Failure("ProgramNotFound")}

\* Pipeline::run: "__native__" is an error on every host but Windows.
run(host, runner) ==
    IF runner # "__native__" THEN Exec(host, runner)
    ELSE IF host.os = "windows" THEN Outcomes \ {Failure("ProgramNotFound")}
    ELSE {Failure("ProgramNotFound")}

===============================================================================
