---------------------------- MODULE BuildPipeline ----------------------------
(***************************************************************************)
(* `semasm build` and `semasm target doctor` (do_build, do_target_doctor   *)
(* of crates/semasm-cli/src/commands.rs) and Pipeline::build_fixture, as   *)
(* processes of one host that may be given the same output directory.  An  *)
(* action is one file operation or one exec() call; between two of them    *)
(* another process may write the same files and a source may be saved.     *)
(* Output directories hold what earlier builds left there.                 *)
(***************************************************************************)
EXTENDS ArtifactReport, FiniteSets

CONSTANTS
    Builds,       \* processes
    Scenarios,    \* a host and the command line of every process
    Files,        \* source files
    ImageOf(_),   \* what objdump finds in a file with a content (external)
    MaxSaves,     \* bound: saves of source files
    MaxLost       \* bound: objdump outputs lost

\* A request names a source file by a path, and an output directory or, with <<>>,
\* none; the name of a temporary directory is in no other one.
ASSUME BuildAssumption ==
    /\ \A s \in Scenarios :
          /\ s.host.os \in {"linux", "windows", "macos"} /\ s.host.temp \in Seq(STRING)
          /\ DOMAIN s.request = Builds
          /\ \A p \in Builds : /\ s.request[p].source \in Files
                               /\ s.request[p].out_dir \in Seq(STRING)
    /\ \A p \in Builds : p \notin STRING
    /\ MaxSaves \in Nat /\ MaxLost \in Nat

VARIABLES
    host, request,  \* the scenario
    source,         \* contents of the source files
    disk,           \* contents of the output directories
    pc, local,      \* control and local variables of every process
    made,           \* history: what every process assembled, linked and ran
    disturbed,      \* history: processes whose files were changed under them
    document, exit  \* what was printed, and the exit code

vars == <<host, request, source, disk, pc, local, made, disturbed, document, exit>>
results == <<document, exit>>

Nothing == [kind |-> "nothing"]
Garbage == [kind |-> "garbage"]
Object(src, target) == [kind |-> "object", of |-> src, target |-> target]
Executable(object, entry) == [kind |-> "executable", of |-> object, entry |-> entry]
Stale == Object(-1, "x86_64-linux")

TempDir(p) == host.temp \o <<p>>
DirOf(p) == IF request[p].out_dir = <<>> THEN TempDir(p) ELSE request[p].out_dir
Here(p) == disk[DirOf(p)]
Target(p) == parse_known(request[p].target)
Pe(p) == Target(p).object_format = "PeCoff"

SourcePath(p) == <<request[p].path>>
ObjectPath(p) == DirOf(p) \o <<"/exit", IF Pe(p) THEN ".obj" ELSE ".o">>
ExePath(p) == DirOf(p) \o (IF Pe(p) THEN <<"/exit", ".exe">> ELSE <<"/exit">>)

Init ==
    /\ \E s \in Scenarios : host = s.host /\ request = s.request
    /\ source = [f \in Files |-> 0]
    /\ disk = [d \in {DirOf(p) : p \in Builds} |-> [object |-> Stale, exe |-> Executable(Stale, "_start")]]
    /\ pc = [p \in Builds |-> "target"]
    /\ local = [p \in Builds |-> Nothing]
    /\ made = [p \in Builds |-> [source |-> Nothing, ran |-> Nothing]]
    /\ disturbed = {}
    /\ document = [p \in Builds |-> Nothing] /\ exit = [p \in Builds |-> "none"]

-----------------------------------------------------------------------------
(* Steps and their ends. *)

At(p, label) == pc[p] = label /\ UNCHANGED <<host, request>>
Goto(p, label) == pc' = [pc EXCEPT ![p] = label]
Ends(p, code) == Goto(p, "done") /\ exit' = [exit EXCEPT ![p] = code]
Abort(p, code) == Ends(p, code) /\ UNCHANGED <<local, made, document>>
Set(p, field, value) ==
    local' = [local EXCEPT ![p] = [f \in DOMAIN local[p] \cup {field} |->
                                      IF f = field THEN value ELSE local[p][f]]]
Working(q) == pc[q] \notin {"target", "dir", "assemble", "done"}

\* A tool has written files into p's directory.
Writes(p, files) ==
    /\ disk' = [disk EXCEPT ![DirOf(p)] = files]
    /\ disturbed' = disturbed \cup {q \in Builds \ {p} : /\ Working(q) /\ DirOf(q) = DirOf(p)
                                                         /\ files # Here(p)}
Keeps == UNCHANGED <<disk, disturbed>>

\* TargetIdentity::parse_known, then Pipeline::discover or the doctor.
ParseTarget(p) ==
    /\ At(p, "target") /\ Keeps /\ UNCHANGED <<source, made>>
    /\ \/ /\ request[p].target \notin KnownTargets
          /\ Ends(p, "2") /\ UNCHANGED <<local, document>>
       \/ /\ request[p].target \in KnownTargets /\ request[p].command # "doctor"
          /\ local' = [local EXCEPT ![p] = discover(host, request[p].target)]
          /\ Goto(p, IF request[p].command = "build" THEN "dir" ELSE "assemble")
          /\ UNCHANGED results
       \/ /\ request[p].target \in KnownTargets /\ request[p].command = "doctor"
          /\ document' = [document EXCEPT ![p] = [kind |-> "doctor",
                             all_found |-> all_found(host, request[p].target)]]
          /\ Goto(p, "finish") /\ UNCHANGED <<local, exit>>

\* create_dir_all; what is already in the directory stays.
CreateDir(p) ==
    /\ At(p, "dir") /\ Keeps /\ UNCHANGED source
    /\ \/ Goto(p, "assemble") /\ UNCHANGED <<local, made, results>>
       \/ Abort(p, "1")

assemble_for_target_spec(p) ==
    [program |-> local[p].assembler,
     args |-> IF Target(p).dialect = "NasmIntel" \/ request[p].command = "fixture"
              THEN <<<<"-O0">>, <<"-w+error">>, <<"-f">>, <<IF Pe(p) THEN "win64" ELSE "elf64">>,
                     SourcePath(p), <<"-o">>, ObjectPath(p)>>
              ELSE <<SourcePath(p), <<"-o">>, ObjectPath(p)>>]

\* Mutant: an assembler that had exited with 0 is taken for a success although the
\* command timed out, with the object not written yet.
MutZeroExit(p) ==
    /\ At(p, "assemble") /\ UNCHANGED source
    /\ \E o \in Exec(host, local[p].assembler) :
         \/ /\ o.kind = "ok" /\ ExitCode(o.status) = "code0"
            /\ Writes(p, IF Success(o) THEN [Here(p) EXCEPT !.object =
                                Object(source[request[p].source], request[p].target)] ELSE Here(p))
            /\ made' = [made EXCEPT ![p].source = source[request[p].source]]
            /\ Set(p, "ao", CommandRecordJson("assemble", assemble_for_target_spec(p), o))
            /\ Goto(p, "entry") /\ UNCHANGED results
         \/ ~(o.kind = "ok" /\ ExitCode(o.status) = "code0") /\ Keeps /\ Abort(p, "1")

\* A failed assembler leaves the old object, a broken one or none.
Assemble(p) ==
    /\ At(p, "assemble") /\ UNCHANGED source
    /\ \E o \in Exec(host, local[p].assembler) :
         \/ /\ Success(o)
            /\ Writes(p, [Here(p) EXCEPT !.object = Object(source[request[p].source], request[p].target)])
            /\ made' = [made EXCEPT ![p].source = source[request[p].source]]
            /\ Set(p, "ao", CommandRecordJson("assemble", assemble_for_target_spec(p), o))
            /\ Goto(p, "entry") /\ UNCHANGED results
         \/ /\ ~Success(o)
            /\ \E left \in IF o.kind = "ok" THEN {Here(p).object, Garbage, Nothing} ELSE {Here(p).object} :
                 Writes(p, [Here(p) EXCEPT !.object = left])
            /\ Abort(p, "1")

\* What an object exports, in the order of its symbol table (external).
Exports(object) ==
    IF object.kind # "object" THEN <<>>
    ELSE IF object.of = 0 THEN <<"helper", "main">> ELSE <<"helper">>

\* The first of main, _start and mainCRTStartup, else the first export.
link_entry_of(object, default) ==
    LET exports == Exports(object)
        entries == {i \in DOMAIN exports : exports[i] \in {"main", "_start", "mainCRTStartup"}}
    IN  IF exports = <<>> THEN default
        ELSE IF entries = {} THEN exports[1] ELSE exports[Min(entries)]

Entry(p) == CASE Pe(p) -> link_entry_of(Here(p).object, "main")
              [] Target(p).dialect = "GasUnified" -> link_entry_of(Here(p).object, "_start")
              [] OTHER -> "_start"

ReadEntry(p) ==
    /\ At(p, "entry") /\ Keeps /\ UNCHANGED source
    /\ Set(p, "entry", Entry(p))
    /\ Goto(p, "link") /\ UNCHANGED <<made, results>>

\* Only a Windows host has an import library to name by its path.
kernel32(p) == IF host.os = "windows" THEN <<"C:/Kits/10.0.1/um/x64", "/kernel32.lib">>
               ELSE <<"/DEFAULTLIB:kernel32.lib">>

link_for_target_spec(p) ==
    [program |-> local[p].linker,
     args |-> CASE request[p].command = "fixture" \/ (~Pe(p) /\ Target(p).dialect = "NasmIntel") ->
                     <<<<"--build-id=none">>, <<"--hash-style=sysv">>, <<"-o">>, ExePath(p), ObjectPath(p)>>
                [] Pe(p) ->
                     <<<<"/ENTRY:", local[p].entry>>, <<"/SUBSYSTEM:console">>, kernel32(p),
                       <<"/OUT:">> \o ExePath(p), ObjectPath(p)>>
                [] OTHER ->
                     <<<<"-static">>, <<"-e">>, <<local[p].entry>>, <<"-o">>, ExePath(p), ObjectPath(p)>>]

\* A linker does not succeed without an object.
Link(p) ==
    /\ At(p, "link") /\ UNCHANGED <<source, made>>
    /\ \E o \in Exec(host, local[p].linker) :
         \/ /\ Success(o) /\ Here(p).object.kind = "object"
            /\ Writes(p, [Here(p) EXCEPT !.exe = Executable(Here(p).object, local[p].entry)])
            /\ Set(p, "lo", CommandRecordJson("link", link_for_target_spec(p), o))
            /\ Goto(p, "verify") /\ UNCHANGED results
         \/ /\ ~Success(o)
            /\ \E left \in IF o.kind = "ok" THEN {Here(p).exe, Garbage, Nothing} ELSE {Here(p).exe} :
                 Writes(p, [Here(p) EXCEPT !.exe = left])
            /\ Abort(p, "1")

\* The file must parse; do_build also asks for an executable, of any machine.
VerifyArchitecture(p) ==
    /\ At(p, "verify") /\ Keeps /\ UNCHANGED source
    /\ \/ Here(p).exe.kind = "executable" /\ Goto(p, "run") /\ UNCHANGED <<local, made, results>>
       \/ Abort(p, "1")

Run(p) ==
    /\ At(p, "run") /\ request[p].command = "build" /\ Keeps /\ UNCHANGED source
    /\ \/ /\ request[p].no_run
          /\ Set(p, "execution", NotRequested) /\ UNCHANGED made
       \/ /\ ~request[p].no_run
          /\ \E o \in run(host, local[p].runner) : Set(p, "execution", ExecutionInfo(o))
          /\ made' = [made EXCEPT ![p].ran = Here(p).exe]
    /\ Goto(p, "source") /\ UNCHANGED results

\* The end of build_fixture: Ok(BuildReport) or the error of the run.
RunFixture(p) ==
    /\ At(p, "run") /\ request[p].command = "fixture" /\ Keeps /\ UNCHANGED source
    /\ \E o \in run(host, local[p].runner) :
         LET state == classify_execution(request[p].expected, o) IN
         \/ state = BuildFails /\ Abort(p, "1")
         \/ /\ state # BuildFails
            /\ document' = [document EXCEPT ![p] = [kind |-> "fixture", execution |-> state,
                                                    expected |-> request[p].expected]]
            /\ Ends(p, "0") /\ UNCHANGED <<local, made>>

-----------------------------------------------------------------------------
(* generate_report, which looks at all files again. *)

HashSource(p) ==
    /\ At(p, "source") /\ Keeps /\ UNCHANGED source
    /\ \/ Set(p, "source", source[request[p].source]) /\ Goto(p, "object") /\ UNCHANGED <<made, results>>
       \/ Abort(p, "1")

\* The dumps lost so far.
Lost == {d \in Builds \X {"object", "exe"} \X {"h", "t", "p"} :
            d[2] \in DOMAIN local[d[1]] /\ d[3] \in local[d[1]][d[2]].lost}

\* The steps of the description of a file, and what follows it.
Stages(hash, size, h, t, p, next) ==
    [hash |-> hash, size |-> size, h |-> h, t |-> t, p |-> p, next |-> next]
Stage == [object |-> Stages("object", "object size", "object -h", "object -t", "object -p", "exe"),
          exe |-> Stages("exe", "exe size", "exe -h", "exe -t", "exe -p", "print")]

ContentOf(p, field) == IF field = "object" THEN Here(p).object ELSE Here(p).exe
PathOf(p, field) == IF field = "object" THEN ObjectPath(p) ELSE ExePath(p)

\* Only for the object it is looked first whether there is one.
HashFile(p, field) ==
    /\ At(p, Stage[field].hash) /\ Keeps /\ UNCHANGED source
    /\ \/ /\ ContentOf(p, field) # Nothing
          /\ Set(p, field, [info |-> ArtifactFileInfo(PathOf(p, field), ContentOf(p, field)), lost |-> {}])
          /\ Goto(p, Stage[field].size) /\ UNCHANGED <<made, results>>
       \/ /\ field = "object" /\ ContentOf(p, field) = Nothing
          /\ Set(p, field, [info |-> NoArtifact, lost |-> {}])
          /\ Goto(p, Stage[field].next) /\ UNCHANGED <<made, results>>
       \/ Abort(p, "1")

StatFile(p, field) ==
    /\ At(p, Stage[field].size) /\ Keeps /\ UNCHANGED source
    /\ \/ /\ ContentOf(p, field) # Nothing
          /\ Set(p, field, [local[p][field] EXCEPT !.info = [@ EXCEPT !.size = ContentOf(p, field)]])
          /\ Goto(p, Stage[field].h) /\ UNCHANGED <<made, results>>
       \/ Abort(p, "1")

\* A run of objdump on the file that is there now.  The dump is lost when the
\* command failed or its capture did not keep the output: neither is looked at.
DumpFile(p, field, option, next) ==
    /\ At(p, Stage[field][option]) /\ Keeps /\ UNCHANGED source
    /\ \/ /\ local[p].disassembler \in host.path
          /\ \E lost \in SUBSET {option} :
               LET content == ContentOf(p, field)
                   note == local[p][field]
                   text == IF lost # {} \/ content \in {Nothing, Garbage} THEN <<>>
                           ELSE Printed(local[p].disassembler, option, PathOf(p, field), ImageOf(content))
               IN  /\ lost # {} => Cardinality(Lost) < MaxLost
                   /\ Set(p, field, [info |-> Parsed(note.info, option, text), lost |-> note.lost \cup lost])
          /\ Goto(p, Stage[field][next]) /\ UNCHANGED <<made, results>>
       \/ Abort(p, "1")

Describe(p, field) ==
    \/ HashFile(p, field) \/ StatFile(p, field)
    \/ DumpFile(p, field, "h", "t") \/ DumpFile(p, field, "t", "p") \/ DumpFile(p, field, "p", "next")

generate_report(p) ==
    LET l == local[p]
        probed == {l.assembler, l.linker, l.disassembler, l.runner}
    IN  [target |-> request[p].target, source |-> [path |-> SourcePath(p), hash |-> l.source],
         tool_versions |-> probed \cap host.path, commands |-> <<l.ao, l.lo>>,
         object |-> l.object.info, executable |-> l.exe.info, execution |-> l.execution,
         isolation |-> isolation(l.execution, l.runner)]

PrintReport(p) ==
    /\ At(p, "print") /\ Keeps /\ UNCHANGED <<source, local, made, exit>>
    /\ LET report == generate_report(p) IN
       document' = [document EXCEPT ![p] = [kind |-> "artifact", execution |-> report.execution,
                       isolation |-> report.isolation, evidence |-> canonical_evidence(report)]]
    /\ Goto(p, "finish")

\* The temporary directory is removed on this path only.
Finish(p) ==
    /\ At(p, "finish") /\ UNCHANGED <<source, local, made, document, disturbed>>
    /\ IF request[p].command = "build" /\ request[p].out_dir = <<>>
       THEN disk' = [disk EXCEPT ![DirOf(p)] = [object |-> Nothing, exe |-> Nothing]]
       ELSE UNCHANGED disk
    /\ LET d == document[p]
           execution_failed == d.kind = "artifact" /\ d.execution.status \in {"Unavailable", "Failed"}
           incomplete == d.kind = "doctor" /\ ~d.all_found
       IN  Ends(p, IF execution_failed \/ incomplete THEN "1" ELSE "0")

\* Somebody saves a source file (external).
Save(f) ==
    /\ MapThenSumSet(LAMBDA g : source[g], Files) < MaxSaves /\ \E p \in Builds : pc[p] # "done"
    /\ source' = [source EXCEPT ![f] = @ + 1]
    /\ disturbed' = disturbed \cup {p \in Builds : Working(p) /\ request[p].source = f}
    /\ UNCHANGED <<host, request, disk, pc, local, made, results>>

Done == (\A p \in Builds : pc[p] = "done") /\ UNCHANGED vars

Next ==
    \/ \E p \in Builds :
         \/ ParseTarget(p) \/ CreateDir(p) \/ Assemble(p) \/ ReadEntry(p) \/ Link(p)
         \/ VerifyArchitecture(p) \/ Run(p) \/ RunFixture(p) \/ HashSource(p) \/ Describe(p, "object") \/ Describe(p, "exe")
         \/ PrintReport(p) \/ Finish(p)
    \/ \E f \in Files : Save(f)
    \/ Done

Spec == Init /\ [][Next]_vars

-----------------------------------------------------------------------------

Reported(p) == document[p].kind = "artifact"
Described(p, field) == local[p][field].info

\* A report describes the build it was printed by, although do_build takes all
\* hashes at the end: its object was assembled from the source it names, by a
\* command that succeeded, its executable was linked from that object, and that
\* executable was run.  Files of earlier builds in the directory are never
\* taken for its own.  The exception is a source or a directory that others
\* changed after the assembler started.
ReportIsOfThisBuild ==
    \A p \in Builds : Reported(p) /\ p \notin disturbed =>
        LET e == document[p].evidence IN
        /\ e.source_sha256 = made[p].source
        /\ e.object.sha256 = Object(e.source_sha256, e.target)
        /\ e.executable.sha256.of = e.object.sha256
        /\ e.execution.status = "Succeeded" => made[p].ran = e.executable.sha256

\* What objdump may find in a file.
Words == [s : STRING, len : Nat, digits : BOOLEAN, hex : BOOLEAN, n : Nat, dynamic : BOOLEAN]
IsImage(image) ==
    /\ image.sections \in Seq([name : Words, size : Nat, vma : Nat])
    /\ image.symbols \in Seq([name : Words, section : Words, address : Nat, size : Nat])
    /\ image.is_dynamic \in BOOLEAN

\* The source's path occurs in one argument of the two commands, its own.
Apart(p) ==
    LET named(r) == {i \in DOMAIN r.arguments : request[p].path \in Range(r.arguments[i])}
    IN  Cardinality(named(local[p].ao)) = 1 /\ named(local[p].lo) = {}

\* "Canonical report reproducibility is checked across independent output
\* roots": builds of equal bytes, with equal results, have equal canonical
\* evidence, whatever directories and source names they were given, unless
\*   - the source's path also occurs in another argument, as the directory's name,
\*     a flag or the entry, where it is replaced as well (normalize_command_component);
\*   - only one of the directories has "dynamic" in its path (is_dynamic);
\*   - a build was disturbed: an object somebody removed leaves its path in the link
\*     command, and with two builds in one directory and a save between them, one
\*     may describe the other's executable beside its own link command.
EvidenceIsReproducible ==
    \A p, q \in Builds :
        LET e == document[p].evidence
            f == document[q].evidence
        IN  /\ Reported(p) /\ Reported(q) /\ {p, q} \cap disturbed = {}
            /\ Apart(p) /\ Apart(q)
            /\ MentionsDynamic(DirOf(p)) = MentionsDynamic(DirOf(q))
            /\ e.target = f.target /\ e.source_sha256 = f.source_sha256
            /\ e.object.sha256 = f.object.sha256 /\ e.executable.sha256 = f.executable.sha256
            /\ \A a \in {e.object, e.executable} : IsImage(ImageOf(a.sha256))
            /\ e.execution = f.execution
            /\ \A field \in {"object", "exe"} : local[p][field].lost = local[q][field].lost
            => e = f

\* A file whose symbols parse_symbols can read: no section they are in has a name of
\* 8 or more hexadecimal digits, which it would take for the size.
Readable(image) ==
    /\ IsImage(image)
    /\ \A i \in DOMAIN image.symbols :
          LET section == image.symbols[i].section IN section.hex => section.len < 8

\* The size, the sections and the symbols of a report are those of the file whose hash
\* it gives, although each is read by itself from a file that others may replace, and
\* the tables by the position of words in the output of either dumper: names
\* that look like numbers do not shift them.  The exceptions are a process whose
\* files were changed under it, a dump that was lost, a section named like a
\* size and, for is_dynamic, a directory with "dynamic" in its path.
DumpIsFaithful ==
    \A p \in Builds \ disturbed : Reported(p) /\ ~Pe(p) =>
        \A field \in {"object", "exe"} :
            LET a == Described(p, field)
                lost == local[p][field].lost
                image == ImageOf(a.hash)
            IN  a # NoArtifact =>
                /\ a.size = a.hash
                /\ a.hash # Garbage /\ Readable(image) =>
                    /\ "h" \notin lost => {<<s.name, s.size, s.vma>> : s \in a.sections} =
                          {<<s.name.s, s.size, s.vma>> : s \in Range(image.sections)}
                    /\ "t" \notin lost => {<<s.name, s.address, s.size, s.section>> : s \in a.symbols} =
                          {<<s.name.s, s.address, s.size, s.section.s>> : s \in Range(image.symbols)}
                    /\ "p" \notin lost /\ ~MentionsDynamic(DirOf(p)) =>
                          a.is_dynamic = image.is_dynamic

\* When the doctor finds every role, each tool the pipeline resolved is one the
\* host has, or the artifact is its own runner (ToolSlot::effective, discover).
ToolsResolve ==
    \A p \in Builds : local[p] # Nothing /\ all_found(host, request[p].target) =>
        /\ {local[p].assembler, local[p].linker, local[p].disassembler} \subseteq host.path
        /\ local[p].runner \in host.path \cup {"__native__"}

\* Every process prints at most one document, before it ends, and its exit code
\* says what the document says; build_fixture with an expected exit code returns
\* a report only of a run with that code.
Contract == INSTANCE BuildContract WITH Processes <- Builds, printed <- document, code <- exit
RefinesBuildContract == Contract!Spec

===============================================================================
