# TLA+ model of SemASM

SemASM checks assembly routines, usually written by an agent, against a contract. A
candidate is assembled, its object is examined by static gates, its memory accesses are
judged against the contract's regions, it is linked with a generated harness and, when the
caller allowed it, run; the results are composed into one verification report, printed for
a controller that decides by its status and by the exit code. This directory holds TLA+
modules for every part of that path, and for `semasm build`; TLC configurations that check
them on small instances; and TLAPS proofs of the main results for every instance.

    tlc -workers 2 -config MCAgentVerify.cfg MCAgentVerify
    tlapm ExecProofs.tla

Paths below are relative to `crates/`. `PROJECT.json` lists the components, runs, mutants,
theorems, hazards, findings, and the source lines of every definition.

## 1. Inventory

### Components

| Component | State it keeps | Operations | Hard behaviour | What makes it correct |
|---|---|---|---|---|
| `semasm-build` `exec.rs`, `exec/platform/*` | one child process and its tree, two pipes with drain threads, a stdin worker thread, a deadline | `exec()` | five concurrent actors, pipes of finite capacity, a timeout racing the exit, two platforms, failing system calls | every call returns; a result is complete; a timeout ends the tree |
| `semasm-agent` `verify.rs` | the report under construction | `SemanticGates::from_error`, `from_parts`, `with_*` | evidence attached in two different orders; errors with partial coverage | the status depends on the content only; nothing promotes a report |
| `semasm-cli` `commands.rs`: `agent verify`, `agent compare` | the scratch directory, digests, gate results, the report of each side, stdout, exit code | `run_agent_verify_core`, `do_agent_verify`, `do_agent_compare` | some twenty fallible steps, each with its own clean-up and document; input files edited meanwhile; two sides sharing one directory | nothing unexamined is run; exit 0 is earned; one document; no directory left behind |
| `semasm-agent` `failure.rs`, `evidence.rs` | none | envelope, evidence card, `compare_reports` | rank of two reports | the preferred side is the better one |
| `semasm-agent` `harness.rs` | vectors, generated program | oracle recognition, vector synthesis, shape resolution, code generation for four ABIs, evaluation of stdout | which vectors exist, argument registers, output cut short, stray stores | a conforming routine passes, and what passes conforms |
| `semasm-cli` static gates (`commands.rs` 1392-2079), `semasm-x86`, `-aarch64`, `-riscv` ABI analyses | abstract stack depth, sets of saved and restored registers | lowering, ABI, capability, CFG and read-only checks | syntactic scans that stand for what a machine does | what the gates accept behaves as they say |
| `semasm-cfg`, control gate `check_cfg_leaf` | the graph under construction | `build`, `unreachable_blocks`, two passes of the gate | branches into the middle of a block, targets outside the code, relocations at address 0 | no live code is reported as unreachable; accepted code cannot branch out of what was decoded |
| `semasm-cli` memory effects (three ISAs), `semasm-contract` `alias.rs`, `region_access.rs` | affinity of registers, constants, ranges, spill slots, recognised loops | collect accesses, judge them against regions | one textual pass over code that branches; inductions; saturating offsets | evidence that passed is true of every execution |
| `semasm-contract` `validate.rs`, `eval.rs`, `expr.rs` | diagnostics, checked lists | validate a document item by item, judge its conditions | the walk goes on past errors; three-valued logic over partly known expressions | an accepted contract resolves; a judgement is a fact about every call |
| `semasm-build` `pipeline.rs`, `report.rs`, `record.rs`; `do_build`, `target doctor`; `semasm-target` `tools.rs` | tools found, output directories, command records, the artifact report | discover, assemble, link, run, hash, dump, normalise; `build_fixture` | partial failure between stages, files of other builds, sources saved meanwhile, parsing of dumper output | a report describes the build it was printed by, and is reproducible |
| `inspect` and other commands, `analysis.rs`, `semasm-obj`, `semasm-decode`, `semasm-asir`, `semasm-core`, external vectors, `context.rs` | none | wrappers over parsers, data types, formatting | little | see `PROJECT.json` |

### Interactions

`agent verify` calls the pipeline for every tool, the pipeline calls `exec()`, and
`exec()` talks to the operating system. The gates read the object the assembler wrote into
the scratch directory; the linker reads the same object; the run executes the linker's
image. The contract is validated first; its regions are what the memory evidence is judged
against, its relations give the alias evidence, its conditions the expression evidence, its
name and signature the oracle and so the vectors. Results flow back as values: a
`CommandOutput`, a `SemanticGateError` or coverages, evidence, a `HarnessReport`;
`VerificationReport` composes them. Between processes there is only the file system (inputs
that others may edit, a scratch directory named by pid and file stem, a shared `--out-dir`)
and the controller's view: stdout and the exit code.

### Where it is hard

Threads exist only inside `exec()`; everything else is sequential, but every step can
fail, and it shares files with the outside. The 40 hazards in `PROJECT.json` are
the list the properties were written for: for `exec()`, completion decided from two
independent events, termination of a tree that changes while it is signalled, blocking
calls without a deadline, capture at its limit; for the commands, clean-up and documents on
each error path, two reads of one file, two sides in one directory, two builds in one
output directory; for the report, order of attachment and partial coverage; for the
analyses, that one pass over the text of a routine speaks for all its executions: stack
depth, saved registers, branches that land anywhere, loops whose index is bounded by a
guard, integers at their limits; for evidence, that "not known" never turns into "true".

## 2. Modules

| Module | Models | Composes / refines |
|---|---|---|
| `ExecApi` | the values `exec()` returns: `CommandOutput`, `BuildError` | - |
| `ExecContract` | abstract: one return, of an outcome callers are prepared for | extends `ExecApi` |
| `Exec` | one call of `exec()` with all its actors | refines `ExecContract` |
| `VerificationReport` | gates, coverage, status, evidence: pure operators | - |
| `ReportBuilder` | the report's builder API as a state machine | uses `VerificationReport` |
| `Documents` | what is printed: envelope, report, comparison | extends `VerificationReport` |
| `ControllerProtocol` | abstract: what a controller sees | extends `Documents` |
| `AgentVerify` | `agent verify` and `agent compare` | uses `ExecApi` for tools and the run; refines `ControllerProtocol` |
| `HarnessVectors` | contract families, oracles, vectors | - |
| `HarnessPrograms` | the generated harness of every family and ABI, as what it does | extends `HarnessVectors` |
| `Harness` | synthesis, generation, run and evaluation around a candidate | extends `HarnessPrograms` |
| `Instructions`, `X86Lower` | decoded and lowered instructions | - |
| `SysvAbi`, `Win64Abi`, `Aapcs64Abi`, `RiscvAbi` | lowering and ABI analyses as operators | instances in `StaticGates` |
| `StaticGates` | the gates on a candidate, beside a machine that executes it | composes the four |
| `Cfg` | `semasm-cfg` and `check_cfg_leaf` | - |
| `RegionEvidence` | alias and region-access judgements | - |
| `MemoryEffects`, `GasEffects` | collectors of memory accesses (x86; AArch64 and RISC-V) | extend `RegionEvidence` |
| `MemoryEvidence` | collection and judgement, then execution of the candidate | extends `GasEffects` |
| `ContractExpr` | the expression evaluator | extends `RegionEvidence` |
| `ContractCheck` | validation of a document, then alias and expression evidence | extends `ContractExpr` |
| `Toolchain`, `Objdump`, `ArtifactReport` | tool resolution and runs; dumper output and its parsers; report and canonical evidence | use `ExecApi` |
| `BuildContract` | abstract: document and exit code of the build commands | - |
| `BuildPipeline` | `semasm build`, `target doctor`, `build_fixture` as concurrent processes | extends `ArtifactReport`; refines `BuildContract` |
| `MC*` | constants for TLC | - |
| `ExecProofs`, `AgentVerifyProofs`, `HarnessProofs`, `StaticGatesProofs`, `CfgProofs`, `MemoryEvidenceProofs`, `ContractCheckProofs`, `BuildPipelineProofs` | proofs | each extends the module it is named after; `AgentVerifyProofs` also `ReportBuilder`, whose report it composes |

### Exec

The calling thread is `pc` and the local variables of `exec()`: `status` is
`direct_status`, `received` the two `Option<CaptureResult>`, `timedOut`, `termination` and
`pollError`. One action is one system call or channel operation: `Spawn`, `Attach`,
`StartWorkers`, then the polling loop `TryWait`, `ReceiveStdout`, `ReceiveStderr`,
`CheckLoop`, the termination (`Terminate`, `AwaitGrace`, `ConfirmGone`, `KillGroup`, or the
Job Object), `Reap`, `CollectStdout`, `CollectStderr`, `JoinStdin`. The drain
threads (`DrainRead`, `DrainEof`, `DrainFails`) and the stdin worker (`WorkerWrites`,
`WorkerEnds`) interleave with it, and so do the processes of the tree: they fork, pass on
any subset of their pipe ends, write, read, close, leave the process group, exit with any
status or do nothing for ever. The processes and the kernel are external to the code; they
are as free as the operating system lets them be, except that process ids are never reused.
Bytes are counted, not represented: the code never looks at them. Time is two flags, the deadline
and the 200 ms of grace, that become true at any moment.

`Faults` selects which failures can happen, so that each run can say which one it needs.

### VerificationReport and ReportBuilder

`SemanticGates::from_error`, `all_passed`, `from_parts` and the three attachments that
change a status are translated branch by branch; a `Coverage` keeps its three counters.
`ReportBuilder` starts from any report the code can compose (all gates passed,
or any error of any stage with any coverage) and attaches the three kinds of evidence in
any order. Attachments that leave the status alone are left out.

### AgentVerify

`pc` walks through `run_agent_verify_core`; every step that can fail is an action with its
failure as a disjunct: the envelope it prints, the exit code, whether it removes the scratch
directory. Input files have versions and `EditFile` may save a new one between any two
steps; `digest`, `scratch` and `checked` remember which version was read. The static gates
are atomic actions in the order of `verify_candidate_semantics` (`GateOrder`), with every
error and coverage each can report (`StageErrors`); alias, region and expression evidence is
any value. The answers of tools and of the runner are the `Outcomes` of `ExecApi`, which
`Exec` is shown to implement. `agent compare` runs the core twice; with equal file stems
both sides use one directory. `checked`, `passed` and `launched` are history variables.
`MaxInstr` and `MaxEdits` are bounds per command (`Commands`).

Abstractions: contents of files are version numbers; the harness's verdict is any value
(`Harness` says which ones a candidate can get);
`remove_dir_all` succeeds (the code discards its error); serialization of a report, which
cannot fail for these types, and terminal rendering are left out.

### Harness

A contract is what the code asks of it: words of its name, types, requirements, the
conditions with blanks removed, effects. `HarnessVectors` follows `detect_*`,
`builtin_oracle` and the `*_vectors` functions family by family; `HarnessPrograms` gives,
per shape and ABI, the data emitted for each vector, the register loads, the register the
result is taken from and the guarded regions echoed to stdout. `Harness` runs this program
around a candidate (external) that does what the oracle claims, returns another value,
skips its stores, stores astray or stops the process. Words have `WordBytes` bytes instead
of eight and fixtures at most `FixtureCap` cells instead of 256. Claims are computed independently of the
generated programs, in regions of their own.

### StaticGates

A body is executed while it is written down: each machine action appends the instruction
and applies it to registers and stack slots, so that the gates, which then judge the text,
can be compared with what happened. A register holds its own entry value, another one's, a
stack address or other data. `Alphabets` gives each ABI a few sets of instructions and a
length: prologues and epilogues, frames, calls, system calls, stores, unmodelled
instructions, and everything else that writes the stack pointer. The machine executes all
that the backends lower but for branches, indirect calls and RISC-V's `jal zero`: the
control-flow gate is `Cfg`, and bodies here are straight-line. `MoveStack` is any write of
the stack pointer that is not a push, a pop, an added immediate or a copy of a stack
address (`sub rsp, rax`, `lea rsp`, `and rsp`, `pop rsp`, `sub sp, sp, x0`, `ld sp, 0(a0)`):
it moves it by any of `Strides`. Addresses have an index register, displacements and
AArch64 write-back. What the analyses read otherwise than the machine does it is recorded
in `seen`, which the properties except by name. `WellFormed` says what a disassembler
returns (the operands that `push`, `pop` and the loads and stores of a register have);
`AlphabetsAssumption` asks it of every alphabet.

### Cfg

The instructions are constants of a behaviour: `address` and `prog` are the argument of
`build()`, an instruction is what `classify()` looks at (capstone's groups, the mnemonic's
class, the immediate `parse_target` finds). `Walk` is one turn of the first pass, with
`blocks` and `open` for `blocks` and `current`; block ranges are positions in the input, as
in the code, not in the sorted order. `Resolve` is the second pass; `Search` one turn of the
queue of `unreachable_blocks`. The control gate is `Scan` (every instruction classified),
the same `build()`, and `Policy`. `Flow` is the reference the properties use: where control
may go from one instruction, stated without blocks. `classify()`'s arm for
`BlockEnd::Unknown` is guarded by `if false` and so never taken.

The two callers give `build()` different lists. `inspect` decodes one file from one base
address (`inspect.rs:213`, `:461`), so its addresses ascend; `Init` says so. The gate gets
what `decode_candidate_code` puts together (`commands.rs:1483-1499`): the code sections of
an object one behind the other, each from its own address, which is 0 in a relocatable
object. Its addresses may repeat and come in any order.

### MemoryEvidence

`CollectX86`, `CollectAArch64` and `CollectRiscv` are the collectors: a single pass
that keeps parameter affinity, constants, ranges and stack slots, after loops have been
recognised by their shape (`Inductions`: countdown, post-test and pre-test). `Evaluate`
attaches region and alias evidence. Then the candidate runs with every value of
`Scalars` in its integer parameters; an access is `touch`, with the base register's value,
so that a row of the report can be compared with the byte touched. `MaxOffset` stands for
`i64::MAX`. What the evidence is known not to account for is named, one definition per
case, in `Excused`.

### ContractCheck

`validate_document` is one action per item of each list (`Check*`), errors kept in
`diagnostics`; `Conclude` accepts or rejects the whole. An expression is a sequence of
nodes, children first; the judgement of every node is a recursive function over it, as the
code computes it. `Meaning` evaluates a condition in one call (addresses, scalars, and any
truth value for what the language gives no meaning), and is what judgements are compared
with. `Overclaims` names the four cases in which the evaluator claims more than it knows.

### BuildPipeline

Every process has its own control (`pc`), the local variables of `do_build` (`local`) and a
directory that may be shared (`--out-dir`) and holds the files of an earlier build. An
action is one file operation or one `exec()` call; a failed tool leaves the old file, a
broken one or none. The entry is read from the object in a step of its own (`ReadEntry`),
and `generate_report` reads every file again: `HashSource`, then for the object and for the
executable `HashFile`, `StatFile` and three runs of the dumper (`DumpFile` with `-h`, `-t`,
`-p`). Another process or an editor may act between any two of them (`disturbed` records
it), so that one description may be of several files. A dump is a sequence of lines of
words that the parsers of `report.rs` read; its first line has the path of the file. Which
dumper prints what, and what is in a file (`ImageOf`, a constant), is external. `made` is a
history variable.

A path or an argument is a sequence of parts, cut where the source's path, a directory, a
file name or the words `DYNAMIC` and `dynamic` begin and end in it. Replacing a path by a
label is replacing a run of parts, so a source path inside the output path, a flag or the
entry is replaced as the code replaces it, and a directory with `dynamic` in its name shows
in the dumps. Not represented are a source path that is a piece of a word the program
itself writes (`exit`, `/ENTRY:`) or spans the join of a directory and a file name, paths
and names with blanks, which split the words of a dump, and an empty `--out-dir`.

## 3. Runs

Passing runs (`-workers 2`, each below three minutes):

| Run | Instance | States | Shows |
|---|---|---|---|
| `exec_unix` | child and one descendant, pipe of 1 byte, limit 1, output 2, all Unix faults but a missing `kill` | 0.4 M | captures are complete, completion is real, `Graceful`/`Forced` are true, the contract holds |
| `exec_windows` | the same tree, 2 bytes for stdin through a pipe of 1, attach failures | 0.1 M | the same on the Job Object |
| `exec_live` | Unix, failing spawn, poll, read, drain | 0.2 M | every call returns although programs may hang; a timeout ends all processes |
| `report_builder` | `MaxCoverage = 2` | 0.26 M | status independent of order, errors final, no promotion |
| `agent_commands` | `agent verify` with one instruction and one edit per file; `agent compare` with equal and different stems | 1.4 M | gating, earned acceptance, gates shown as passed ran, clean-up, protocol |
| `cfg` | every program of up to 3 instructions of 25 shapes, of one section from address 0 or 1, and for the gate also of several sections with repeated and descending addresses | 0.67 M | blocks tile the code, only dead code is reported, accepted code stays inside |
| `harness` | contracts of every family on four ABIs, external cases, one misdeed of the candidate | 0.32 M | vectors agree with the oracle; a conforming routine passes; what passes conforms |
| `static_gates` | bodies of up to 6 instructions from alphabets of each of the four ABIs; `Strides` -8, 0, 16 | 0.88 M | the walk's stack depth is the machine's; accepted bodies are balanced, preserve registers, and store nothing where they must not; under the exceptions the properties name |
| `build` | two processes, every target and an unknown one, shared and own directories, one with `dynamic` in its name and one that contains the source's path, a source named like a flag, one save, one lost dump | 1.1 M | a report is of its own build; canonical evidence is reproducible; dumps are read faithfully; tools resolve; the contract holds |
| `memory_evidence` | straight-line, guarded and looping routines, every scalar of a small set, offsets up to `MaxOffset = 9` | 0.34 M | evidence that passed confines every access; alias evidence is a proof or a refutation |
| `contract` | documents with every kind of broken item; every condition of one connective over 20 leaves, of two over fewer, with and without bindings | 3.0 M | accepted contracts resolve; judgements hold in every call |

The run whose violation is the result, with a finding that quotes the text it contradicts:

| Run | Violated | What happens |
|---|---|---|
| `memory_pretest` | `ProvenInsideIsInside` | a pre-test loop that steps its index before the access: the byte after the region is touched, and the access is `proven_inside` |

### Further divergences

Met while modelling, confirmed with TLC by adding the formula as an invariant or property
to the instance named; they have no run of their own.

| Text | Formula that fails | Instance |
|---|---|---|
| `exec.rs:62`, "The tree exited after a graceful termination request." | `TreeIsTerminated` | `exec_unix` with `"nokill"` in `Faults`: without a `kill` program `group_exists()` is false, so `terminate()` reports `Graceful` and the tree runs on |
| `DEPENDENCIES.md:26`, "timeouts terminate descendants even after a launcher exits" | `TimeoutEndsDescendants` | `exec_windows`: a descendant forked before `assign_process` survives the timeout |
| `lib.rs:15`, "Every invocation has a wall-clock timeout" | `ExecReturns` | `exec_live` with two bytes for stdin, `Silent` children and no faults: a descendant that holds only stdin and never reads it blocks the join of the stdin worker; or with `"leave"`: a descendant in its own group keeps a pipe open and with it the drains |
| `exec.rs:278`, exit code "`None` when killed by timeout" | `outcome.timed_out => ExitCode(outcome.status) = "None"` | `exec_unix`: a launcher that exits while a descendant keeps the pipes |
| `exec.rs:64`, "The tree required forced termination." | `[][KillGroup /\ termination' = "Forced" => \E p \in tree : Running(p)]_vars` | `exec_unix`: an obedient child stays a zombie of the caller, and `kill -0` succeeds on it |
| `docs/CONTROLLER_PROTOCOL.md:52`, "Exactly one JSON document" | `ExactlyOneDocument` | `agent_commands`: a runner that cannot be started (`commands.rs:1042`) ends the command with empty stdout |
| `docs/CONTROLLER_PROTOCOL.md:63`, `source_digest` is of the "candidate source bytes" | `DigestIsOfCandidate` | `agent_commands`: a save between the digest (`commands.rs:787`) and the assembler: the accepted report names other bytes |
| `verify.rs:19`, Passed means "Gate ran and passed." | `PassedGateRan` | `agent_commands` with `Capstone = FALSE`: the stub error `"decode"` (`commands.rs:2096`) shows `object_policy` as passed although no gate ran |
| `docs/CLI_COMPATIBILITY.md:86`, `execution_denied` means not opted in | `reports[1].status = "ExecutionDenied" => ~args.allow_execution` | `agent_commands`: the harness could not be generated |
| `docs/CLI_COMPATIBILITY.md:70`, exit 0 only when `verified` | `exit = "0" /\ args.command = "verify" => reports[1].status = "Verified"` | `agent_commands`: `verified_under_preconditions` |
| `docs/CONTROLLER_PROTOCOL.md:33`, exit 0 when accepted | `pc = "done" /\ args.command = "verify" /\ reports[1].status \in Accepted => exit = "0"` | `agent_commands`: the evidence card cannot be written |
| `main.rs:300`, "against one contract" | `\A i \in DOMAIN documents : documents[i].kind = "compare" => digest[1].contract = digest[2].contract` | `agent_commands` with one edit for `compare` |
| `semasm-cfg/src/lib.rs:125`, "Instructions are re-sorted by address internally so callers need not pre-sort." | `UnreachableIsDead` | `cfg` without the conjunct of `Init` that says `inspect` passes ascending code: a block's range of input positions is empty or wrong, so edges into it are lost |
| `semasm-x86/src/abi.rs:17`, "the net change to `RSP` across the body must return to zero at each `ret`" | `BalanceMeansBalanced` | `static_gates`: `sub rsp, rax; ret` and `ret 8` are accepted, since `step()` counts no change for them |
| `README.md:161`, "Canonical report reproducibility is checked across independent output roots" | `EvidenceIsReproducible` without `Apart`, or without the conjunct on `MentionsDynamic` | `build`: a source path that is part of the output path or equal to a flag is replaced there too (`report.rs:414-418`); a directory with `dynamic` in its name makes `is_dynamic` true, as the dumper prints the path (`report.rs:608-610`) |
| `harness.rs`, the claim of `builtin.buffer.store_byte0` | `StoreIsObserved` | `harness`: the stored cell is never echoed |
| `commands.rs:1848`, "True when the first operand is memory and the mnemonic writes that destination" | `ReadOnlyMeansReadOnly` | `static_gates`: `pop [mem]` is not in the list |

What the models keep as the code has it, and the properties name as exceptions or leave
out, because the code's comments or documents promise more:

- Harness: with needle 0 the expectations of count and find vectors are wrong (padding
  matches), and so are some `replace_byte` vectors for needles 1, 2 and 7; vectors of fixed
  length ignore a smaller required bound, and one ignores a required replacement; null
  vectors of buffer-scan and sum harnesses pass a buffer that is not null; shapes are
  detected whatever the order and number of parameters, while arguments are positional; the
  comments at `harness.rs:2225` and `:3520` say a source is not echoed, and it is. The
  output of a run that was killed or failed is evaluated like any other.
  `Pipeline::run` refuses `__native__` outside Windows although `discover()` picks it on Linux.
- Control-flow gate: of several sections, a branch is accepted because its target is the
  address of another section's instruction; where addresses do not ascend, a block's range
  of positions is not its instructions, so the gate rejects some code with no branch out of
  it (`AcceptedStaysInside` has no converse), and the address ranges of blocks overlap.
- Static gates: every write of the stack pointer other than push, pop and an added
  immediate counts as no change (`sub rsp, rax`, `lea rsp`, `and rsp`, `sub sp, sp, x0`),
  `pop rsp` counts as eight bytes, and `ret 8` and `retf` as `ret`; `ldr x0, [x19], #8` is not
  taken for a write of `x19`; a store off the stack or frame pointer is local to the
  read-only policy of AArch64 even with an index register. The x86 restore scan skips any
  addition, so `pop rbx; add rbx, 1; ret` is
  clean; saves and restores are compared as sets, so swapped pops are accepted;
  `mov rsp, rbp` is taken to restore depth 8; on AArch64 `bl f; ret` without saving the link
  register is clean, displacements and write-back are lost, `stp`/`ldp` are rejected; on
  RISC-V `sd`/`ld` off `sp` count as moves of `sp`, so a standard prologue is rejected,
  and `jalr` is always a call. An early return in the text gives a false `STACK_BALANCE_RET`.
- Build: the temporary directory is left behind on every error path of `do_build`
  (`commands.rs:2834`: "Clean up temp dir if we created one"); hashes are taken after the
  build; builds with one `--out-dir` share file names, so that one report may
  give the hash of one file and the tables of another; a section whose name is 8 or more
  hexadecimal digits is taken for the size, and the word before it for the section
  (`report.rs:561-569`: `DumpIsFaithful` without `Readable` is violated); the success and
  truncation of
  `objdump` are not looked at; on PE an object removed before the report leaves its path in
  the evidence; a program that timed out or failed still exits 0.
- Memory evidence: arithmetic on a pointer keeps its affinity without the offset; signed
  guards let a negative index pass; constants and ranges are used across joins and back
  edges; `cmov`, `call` and `xchg` leave affinity alone; stack slots are not moved by
  `push`; a range whose ends lie in two regions is inside; saturating ends and empty
  regions; `[x0, #8]` is recorded at offset 0.
- Contract expressions (`docs/CONTRACT_EXPR_V1_SUBSET.md`): "x and e", "x or e" are judged by
  `e` where `x` has no value; an implication whose antecedent has no value and whose
  consequent is false is `proven_false`; the denial of an implication from a promise is
  `proven_true`; `regions.contains` of equal regions is `proven_false`, and a row declared
  the other way round is read as if it were symmetric; an atom may name a parameter.

### Why the bounds are enough

- Exec: one descendant gives every relation the code can tell apart: the launcher dies
  first or last, the descendant is in or out of the group, holds some or no pipes, forks
  before or after the attachment. One byte beyond the limit and one beyond the pipe
  exercise truncation and blocking; the second stream behaves as the first, and is silent
  to keep the state space small. The proofs drop all of these bounds.
- Report: coverage is only compared for `unknown = 0` and `modeled = total`; two
  instructions give every combination of these tests.
- AgentVerify: one edit per file separates any two reads; a second adds nothing, since no
  read is compared with more than one other. `agent compare` uses no edits and no
  instructions, because with two sides in one directory the question is which side's files
  are used, and keeps every error and evidence. The proofs drop the bounds.
- Cfg: three instructions give forward, backward and self branches, a branch into the
  middle of a block (after a fallthrough or a call), unreachable blocks between reachable
  ones, code that runs off its end, and targets that are absent, 0, or outside. Two or
  three sections of one or two instructions give equal addresses with equal and with
  different lengths, and a section below the one before it. The proofs drop the bound.
- Harness: every family with its requirements present and absent; words of three bytes
  keep the sign and a carry between bytes; a capacity of five exceeds the longest
  synthesised buffer. One misdeed is enough, since a report fails on the first.
- StaticGates: six instructions hold a save, a frame, a body, a restore and the return;
  each alphabet holds one or two registers per role. An uncounted move of the stack pointer
  need only be up, down or none (`Strides`): the walk does not look at it. The proofs drop the
  length, the alphabets and the strides.
- Build: two processes are all that one process can tell apart; one save separates any two
  reads of a source; one lost dump of one process hits each parser, and sets it apart from
  the other. The file of a saved source has a section named like a size, the others one with
  a short hexadecimal name. The proofs drop all three bounds and are about any files.
- MemoryEvidence: loops over regions of one to three bytes reach the last byte and the one
  behind it; `MaxOffset = 9` lets an end saturate. The proof about alias
  evidence drops the bounds on regions, lengths and offsets.
- Contract: one connective meets every pair of leaf judgements; nesting repeats the same
  function on its results, and is checked over fewer leaves. The proofs hold for documents
  of any size, and for expressions of any depth under any bindings.

### Fairness

Only `exec_live` uses it. `Fairness` is weak fairness of the calling thread,
the drains, the stdin worker (the scheduler runs every thread), the clock, and the reaping
of orphaned descendants (the task of init). Nothing is assumed of the programs in the tree.
The drains' faults are never forced to happen.

Every property of a passing run has a mutant in `PROJECT.json`: a plausible bug (completion
taken from one event, a kill of the child only, an unsaturated subtraction, an exit code
chosen before the evidence, a gate that only logs, a directory kept, an assembler whose exit
status is not looked at, a region dropped without a diagnostic, a promise taken for a proof)
under which TLC finds the property violated. The mutated operators stand before the ones
they replace.

## 4. Proofs

All proofs are for arbitrary values of the constants under the named assumptions of the
modules (`ExecAssumption`: the types of the parameters, the child is not a descendant;
`MaxCoverageAssumption`; `CfgAssumption`: the types of instructions and addresses, which
may repeat and be in any order; `VerifyAssumption`: command lines
have their type, and `compare` has neither vectors nor a card; `BuildAssumption`: every
process has a request that names a source file and an output directory or none, hosts have
their types, and the name of a process's temporary directory is no part of an output
directory or of `temp`; `AlphabetsAssumption`: instructions are what a disassembler returns;
`StridesAssumption`: strides are integers; `MaxOffsetAssumption`,
`EvidenceAssumption` and `ContractAssumption`: the types of the parameters;
`ProgramsAssumption`: memory evidence is asked of contracts that `validate_document` has
accepted; `DocumentAssumption`: the lists of a document are sequences, and a condition that
has nodes is a tree of them, as the expression parser leaves it; `BindingAssumption`: a name
is bound to an integer or to a truth value; `VectorAssumption` and `HarnessAssumption`: words and fixtures are not empty, the parameters and `requires`
of a contract are what its parser returns, the inputs of external cases are JSON values, and
the length of a fixture, at most 256 in the code, fits a word). TLC evaluates each assumption on every run of
its module.

| Theorem | States | Argument |
|---|---|---|
| `ExecProofs!TypeCorrect` | `[]TypeOK` | inductive by itself; the saturating subtraction keeps captures natural |
| `OutputIsComplete` | `[]NoLostOutput` | `CaptureInv`: what was written is what is in the pipe plus what was counted; at most `Limit` retained; at end of file the pipe is empty and nobody holds it, which `Fork` cannot undo |
| `CompletionIsReal` | `[]CompletedIsFinished` | `CallerInv`: which of `status`, `received`, `timedOut`, `termination` are known at each `pc` |
| `ContractHolds` | `Spec => ExecContract` | `CallerInv` gives that each step maps to `Return` or a stutter |
| `TerminationIsComplete` | `"nokill" \notin Faults => (Spec => []TreeIsTerminated)` | `TreeInv`: once termination is decided no member runs, and only members fork members |
| `TimeoutIsThorough` | on Unix, `"leave"` and `"nokill"` not in `Faults`: `Spec => []TimeoutEndsDescendants` | `GroupInv`: all that runs is in the group, since the child is born in it and a fork stays in it; `OutcomeInv`: a timeout is returned with a termination outcome; then `TerminationIsComplete` |
| `AgentVerifyProofs!OrderIndependence`, `ErrorsAreFinal`, `EvidenceDemotes` | the three properties of the report | `BuilderInv`: the status is the function of the contents; the lemmas before them say what `FromError`, `FromParts` and `Demote` return |
| `AgentVerifyProofs!TypeCorrect` | `[]TypeOK` | with `ResultInv`: a report exists where one is printed |
| `ExecutionGated` | `[]ExecutionIsGated` | `FlowInv`: which gates have passed and which candidate the directory holds at each `pc`; `LaunchInv`: later steps disturb neither the object nor the history of a side that ran |
| `AcceptanceEarned` | `[]AcceptedIsEarned` | `ReportInv`: what a report says agrees with the history of its side |
| `PassedGatesRan` | `[]PassedGateRan`, if `Capstone` | `ReportInv` and `FailedGateShown`: `from_error` shows as passed only earlier stages |
| `ProtocolHolds` | `Spec => ControllerProtocol` | `OutputInv`: nothing is printed before the last steps, and code 0 was chosen with an accepted report |
| `ScratchIsReleased` | `[]ScratchReleased` | `ScratchInv`: a directory belongs to the side at work or to a report without a harness |
| `CfgProofs!GateIsTight` | `[]AcceptedStaysInside` | `order` is a permutation (ranks are injective, hence onto), so every instruction is walked, also where addresses repeat; `BranchInv`: every walked branch closes a block; `EdgeInv`: the branch edges of a closed block lead to its last instruction's target, so a resolved edge means a decoded target |
| `BuildPipelineProofs!BuildContractHolds` | `Spec => BuildContract` | `BuildInv`: what is printed, the exit code and the status of the run known at each `pc`; each action is a `GoodStep`: it touches one process and is a step or a stutter of the contract for it |
| `BuildPipelineProofs!ReportsAreOwn` | `[]ReportIsOfThisBuild` | `TraceInv`: what the directory and the local variables of an undisturbed process hold at each `pc`; each action keeps it for its own process, and is `Quiet` to the others: it leaves their directory alone or marks them disturbed |
| `ToolsAreFound` | `[]ToolsResolve` | `ToolsInv`: a process past the discovery of tools holds for each role a program that is on its PATH; nothing later changes the local variable or the host |
| `CfgProofs!TilingHolds` | `[]BlocksTile` | `TileInv`: `RangeInv`, the blocks lie behind one another in `order`, in which instructions of one address keep the order of the list, and hold every instruction walked; `TransferInv`, a terminator is the last instruction of its block, and any other is followed by the next one in its block |
| `UnreachableHolds` | `[]UnreachableIsDead` | `DeadInv`: `WalkLinks`, a block has the edges of its instructions; `GraphLinks`, after `resolve` they lead to the blocks of their targets; `SearchInv`, the reached blocks hold the entry, and those that have left the queue have their successors reached. So the instructions of reached blocks contain what control reaches from the entry. It uses that the code of `inspect` ascends (`Init`); for other input the property fails (section 3) |
| `MemoryEvidenceProofs!AliasEvidenceIsProof` | `[]RelationEvidenceIsSound` | `EvidenceInv`: the report is `evaluate_alias` of the contract; the lemmas give what each interval judgement means for the bytes of two regions, by the kind of their lengths |
| `ContractCheckProofs!AcceptedResolves` | `[]AcceptedContractResolves` | `WalkInv`: as long as there is no diagnostic, what has been accepted is the part of the document walked so far, names are those seen and are distinct, and references lead to them |
| `EvidenceIsSound` | `[]ExprEvidenceIsSound` | the recursive functions `Judgements` and `Meaning` exist and satisfy their equations: any two partial solutions agree, by the least node at which they would differ. `Claim` says of one node what its judgement promises in one call; no node is the least at which it fails, one lemma per operator of the language. `EvidenceInv`: the report holds the judgements of the accepted document |
| `BuildPipelineProofs!DumpsAreFaithful` | `[]DumpIsFaithful` | `SymbolsReadBack`, `SectionsReadBack`: for each dumper, the parser applied to the lines printed for a file returns that file's table, whatever its length, if no section is named like a size; `LookInv`: what a process has noted so far of a file is, as long as it is undisturbed, the hash, the size and the parse of the dumps of the file that is there |
| `EvidenceReproduces` | `[]EvidenceIsReproducible` | `NotesInv`: which command and which description each process holds at each `pc`, from which `EvidenceNoted` writes the evidence as a function of the request and the files. `SameCommands`: where the source's path is in its own argument only (`ApartUnnamed`), each argument is followed through the replacements, with paths of any length: what stands in it where, and what is left for the next label (`TwinArguments`). `SameFile`: dumps at two paths differ in their first line only, which the table parsers do not read, and in which `is_dynamic` sees no more than whether the path has the word (`FirstLineUnread`) |
| `HarnessProofs!ControlInvariant` | `[]Control` | inductive: the vectors have the form of the contract's family (`Form`), the program is the one of their family, each vector's memory keeps the lengths the program emitted, and the results are filled in the order of the calls; one lemma per synthesis rule shows the form of what it returns |
| `PassedConforms` | `Spec /\ []VectorsMatchOracle => []PassedMeansConforming` | `Printed`: as far as stdout reaches, it holds the results word by word and then each region at its offset. A word is determined by its bytes (`SameBytes`); when every vector passes no echo is skipped, so the offsets at which `evaluate` reads are those at which the program wrote (`EchoOffsets`); the expected echo is the claim of the oracle between intact guards (`MemsetPayload`, `ReplacePayload`, `MemcpyPayload`). `Agrees` carries the hypothesis from the synthesis to the states in which the vectors no longer change |
| `StaticGatesProofs!DepthHolds` | `[]DepthIsExact` | `Inductive`, of which `Tracked` is needed: any function that satisfies the recursion of the depth walk ends at the machine's `sp`; `WalksAgree` shows that the walk is the only such function, from the least position at which two would differ |
| `BalanceHolds` | `[]AcceptedIsBalanced` | `Judged`: a body that has passed a gate satisfies what the gate asks; with `DepthHolds`, depth 0 at the return is `sp = 0`, and each call was on an aligned stack |
| `RegistersHold` | `[]AcceptedPreservesRegisters` | `Preserved`: a register without its entry value was written and not restored since, and the write scan reports such a register |
| `ReadOnlyHolds` | `[]AcceptedReadOnlyStoresNothing` | `Blamed`: a store outside the stack, or a system call, has an instruction in the body that the read-only policy rejects |

The four theorems of `StaticGatesProofs` are about straight-line bodies of the instructions
the machine executes, and hold under the exceptions their properties name: `DepthHolds` and
`BalanceHolds` say nothing of a body that moves the stack pointer in a way `step()` does not
count. `DumpsAreFaithful` and `EvidenceReproduces` say nothing of a process whose files others
changed, since the code cannot notice it; the second also asks that the objects and
executables have tables of the types a dumper can print (`IsImage`).

The properties themselves are not inductive: each speaks of the returned outcome or of the
printed document, and needs to know what held at every earlier `pc`. Where a proof has to
look inside a `CHOOSE` (the sorted order of addresses, the region of a name), that leaf is
given to Zenon and not to the SMT solver, whose encoding of `CHOOSE` is not to be relied on.

Only model-checked:

- liveness (`ExecReturns`): the prover has no rule for fairness here;
- `VectorsMatchOracle` of `Harness`: it is about the vectors of the run, and is no theorem for
  all constants. The derivation of `sum_range` halves a product that has wrapped, after a
  check for negative arguments only (`harness.rs:180` and `:418`), so an external case
  with a large argument, or a word too narrow for the built-in arguments, has an expected
  value that is not the "wrapping sum 0+1+…+n" the oracle claims (`harness.rs:397`). For the values that fit, sums, counts and searches are
  folds, for whose values over sequences of any length there are no facts to cite. It is
  the hypothesis of `PassedConforms`, and the same run checks it on the same contracts;
- `ConformingRoutinePasses`: it needs `VectorsMatchOracle` too, and the agreement of what
  each emitted program passes in registers with what the candidate's parameters ask;
- `PassedIsConfined`: it is the soundness of three abstract interpreters, whose one pass over
  a text is compared with an execution that loops, under exceptions that name the shape of
  the text: an invariant would have to say, for each recognised loop shape and at each
  instruction, which approximations are true of the machine and which are only true when
  no exception applies;
- `ProvenInsideIsInside`, which is violated.

## 5. Not modelled, and the plan

Left for later, in order:

1. Proofs of `ConformingRoutinePasses` under the hypothesis of `PassedConforms`, and of
   `PassedIsConfined` for one collector, straight-line code first.
2. `analysis.rs`: the forward data-flow analysis behind `inspect`, a worklist with a join,
   against a path-based reference. It takes no part in verification.
3. External vectors (`external_vectors.rs`): their failures are steps of `AgentVerify` and
   their derivation is in `Harness`; the fields of the document are not.
4. The object policy as a verdict over sections and symbols, the capability tables of
   `semasm-target`, schema compatibility of reports.

Left out for good: rendering and wording, the text of generated assembly, the parsers of
expressions, types and TOML (their results are inputs), data-type-only crates, wrappers over
the disassembler and the object parser, reuse of process ids, and failures of
`remove_dir_all`.
