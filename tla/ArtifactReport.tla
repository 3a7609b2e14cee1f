---------------------------- MODULE ArtifactReport ----------------------------
(***************************************************************************)
(* The artifact report of `semasm build` (crates/semasm-build/src/         *)
(* report.rs): execution evidence, and the canonical evidence whose hash   *)
(* is to be the same wherever the build took place.  A path or an argument *)
(* is a sequence of parts: it is cut where the source's path, the directory *)
(* and the program's own words begin and end, so that every occurrence of  *)
(* the source's path in it is one part.  Separators are all "/" already.   *)
(***************************************************************************)
EXTENDS Toolchain, Objdump

NotRequested == [status |-> "NotRequested", exit_code |-> "None", timed_out |-> FALSE]

\* What became of Pipeline::run.
ExecutionInfo(o) ==
    [status |-> CASE o.kind = "ok" -> "Succeeded"
                  [] o.kind = "ProgramNotFound" -> "Unavailable"
                  [] OTHER -> "Failed",
     exit_code |-> IF o.kind = "ok" THEN ExitCode(o.status) ELSE "None",
     timed_out |-> o.timed_out]

isolation(execution, runner) ==
    IF execution.status \in {"NotRequested", "Unavailable"} THEN "StaticOnly" ELSE from_runner(runner)

\* The error of a build_fixture whose run did not exit as expected.
BuildFails == [status |-> "Err", exit_code |-> "None", timed_out |-> FALSE]

\* Mutant: a run without an exit code is not compared.
MutOptionalCode(expected, o) ==
    IF expected # "None" /\ ExecutionInfo(o).exit_code \notin {expected, "None"} THEN BuildFails
    ELSE ExecutionInfo(o)

\* classify_execution of build_fixture: a state, or an error of the build.
classify_execution(expected, o) ==
    IF expected # "None" /\ ExecutionInfo(o).exit_code # expected THEN BuildFails
    ELSE ExecutionInfo(o)

-----------------------------------------------------------------------------

\* A file as the report describes it, before its size and its dumps are known.  A
\* size is represented by the content it is the size of.
ArtifactFileInfo(path, content) ==
    [path |-> path, hash |-> content, size |-> [kind |-> "unread"],
     sections |-> {}, symbols |-> {}, is_dynamic |-> FALSE]

\* What generate_report takes from a run of objdump.
Parsed(info, option, text) ==
    CASE option = "h" -> [info EXCEPT !.sections = parse_sections(text)]
      [] option = "t" -> [info EXCEPT !.symbols = parse_symbols(text)]
      [] option = "p" -> [info EXCEPT !.is_dynamic = is_dynamic(text)]

NoArtifact == [path |-> <<>>]

canonical_artifact(a) ==
  IF a = NoArtifact THEN NoArtifact ELSE
    [sha256 |-> a.hash, size |-> a.size, sections |-> a.sections, symbols |-> a.symbols,
     is_dynamic |-> a.is_dynamic]

EndsWith(argument, suffix) == argument # <<>> /\ Last(argument) = suffix

\* Mutant: the object's path keeps its directory.
MutKeepObject(argument, paths) ==
    IF EndsWith(argument, "/kernel32.lib") THEN <<"$KERNEL32_IMPORT_LIBRARY">>
    ELSE ReplaceAll(argument, paths.source[1], "$SOURCE")

\* Replaces paths by labels: all occurrences of the source's path, then those of the
\* executable's and of the object's, if there is one.  Of these an argument has at
\* most one: it is at most one part longer than the path.
normalize_command_component(argument, paths) ==
    LET src == ReplaceAll(argument, paths.source[1], "$SOURCE")
        exe == ReplaceFirstSubSeq(<<"$EXECUTABLE">>, paths.executable, src)
        obj == IF paths.object = <<>> THEN exe
               ELSE ReplaceFirstSubSeq(<<"$OBJECT">>, paths.object, exe)
    IN  IF EndsWith(obj, "/kernel32.lib") THEN <<"$KERNEL32_IMPORT_LIBRARY">> ELSE obj

CommandRecordJson(label, spec, o) ==
    [label |-> label, program |-> spec.program, arguments |-> spec.args,
     exit_code |-> ExitCode(o.status), timed_out |-> o.timed_out, success |-> Success(o)]

\* Tools, sections and symbols are sorted, so they are sets here.
canonical_evidence(report) ==
    LET paths == [source |-> report.source.path, executable |-> report.executable.path,
                  object |-> report.object.path]
        command(r) == [r EXCEPT !.arguments =
                          [i \in DOMAIN @ |-> normalize_command_component(@[i], paths)]]
    IN  [target |-> report.target, source_sha256 |-> report.source.hash,
         tools |-> report.tool_versions,
         commands |-> [i \in DOMAIN report.commands |-> command(report.commands[i])],
         object |-> canonical_artifact(report.object),
         executable |-> canonical_artifact(report.executable),
         execution |-> report.execution]

===============================================================================
