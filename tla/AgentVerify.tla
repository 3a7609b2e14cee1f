----------------------------- MODULE AgentVerify -----------------------------
(***************************************************************************)
(* `semasm agent verify` and `semasm agent compare`                        *)
(* (crates/semasm-cli/src/commands.rs): run_agent_verify_core, one action  *)
(* per step that can fail, and the two commands around it, which print the *)
(* one document on stdout and exit.  compare runs the core once per side   *)
(* in the same process.  Every tool is started through exec(), whose       *)
(* answers are the Outcomes of ExecApi.  Input files may be edited by      *)
(* others while the command runs.                                          *)
(***************************************************************************)
EXTENDS Documents, ExecApi, Integers

CONSTANTS
    Invocations,   \* the command lines
    Capstone,      \* built with the `capstone` feature
    MaxInstr,      \* bound, per command: instructions of a candidate
    MaxEdits       \* bound, per command: edits of each input file

Sides == 1 .. 2
Commands == {"verify", "compare"}
Files == {"contract", "source1", "source2"}

\* supported: the target has complete semantic gates; same_stem: both sources
\* of a comparison have the same file stem.
AllInvocations ==
    [command : Commands, allow_execution : BOOLEAN, vectors_file : BOOLEAN,
     card : BOOLEAN, prebuilt : BOOLEAN, same_stem : BOOLEAN, supported : BOOLEAN]

ASSUME VerifyAssumption ==
    /\ Invocations \subseteq AllInvocations
    /\ \A a \in Invocations : a.command = "compare" => ~a.vectors_file /\ ~a.card
    /\ Capstone \in BOOLEAN
    /\ MaxInstr \in [Commands -> Nat] /\ MaxEdits \in [Commands -> Nat]

VARIABLES
    args,        \* the command line
    pc,          \* the next step of the core, or of the command after it
    side,        \* which candidate the core is verifying
    file,        \* version of every input file
    digest,      \* per side: versions of the files the digests were taken of
    scratch,     \* the scratch directories and what they hold
    stage,       \* the next static gate
    insns,       \* instructions decoded
    evidence,    \* alias and region evidence
    checked,     \* history: the candidate whose object the gates examined
    passed,      \* history: the gates that ran and passed, per side
    launched,    \* history: images given to the runner
    reports,     \* the report of each side
    code,        \* VerifyCore::Done.exit
    documents,   \* what was printed on stdout
    exit         \* exit code of the process

vars == <<args, pc, side, file, digest, scratch, stage, insns, evidence, checked, passed,
          launched, reports, code, documents, exit>>
historyVars == <<checked, passed, launched>>
gateVars == <<stage, insns, evidence>>
resultVars == <<reports, code>>
outputVars == <<documents, exit>>

PCs == {"target", "toolchain", "contract", "source", "check", "vectors", "shape",
        "scratch", "stage", "gates", "harness", "write_harness", "assemble_harness", "link",
        "executable", "consent", "run", "finished", "card", "done"}

\* What an object or an image was made of: a version of one side's source.
NoCandidate == [side |-> 0, version |-> 0]
Candidates == [side : Sides, version : Nat] \cup {NoCandidate}

EmptyDir == [exists |-> FALSE, routine |-> NoCandidate, image |-> NoCandidate]
NoEvidence == [alias |-> "none", region |-> "none"]
NoReport == [status |-> "none"]

Init ==
    /\ args \in Invocations
    /\ pc = "target"
    /\ side = 1
    /\ file = [f \in Files |-> 0]
    /\ digest = [s \in Sides |-> [contract |-> 0, source |-> 0]]
    /\ scratch = [d \in Sides |-> EmptyDir]
    /\ stage = 1
    /\ insns = 0
    /\ evidence = NoEvidence
    /\ checked = [s \in Sides |-> NoCandidate]
    /\ passed = [s \in Sides |-> {}]
    /\ launched = {}
    /\ reports = [s \in Sides |-> NoReport]
    /\ code = "none"
    /\ documents = <<>>
    /\ exit = "running"

Goto(here, there) == pc = here /\ pc' = there
Source(s) == IF s = 1 THEN "source1" ELSE "source2"
Candidate == [side |-> side, version |-> file[Source(side)]]

\* temp_dir()/semasm-verify-{pid}-{stem}: one process, so the stem decides.
Dir == IF args.same_stem THEN 1 ELSE side

RemoveScratch == scratch' = [scratch EXCEPT ![Dir] = EmptyDir]

\* early_failure: prints the envelope; the command returns the code at once.
EarlyFailure(c) ==
    /\ documents' = Append(documents, Envelope(c))
    /\ exit' = IF c = "INVALID_TARGET" THEN "2" ELSE "1"
    /\ pc' = "done"

\* A step before the scratch directory exists: it passes or fails early.
Precheck(here, there, codes) ==
    /\ pc = here
    /\ \/ pc' = there /\ UNCHANGED outputVars
       \/ \E c \in codes : EarlyFailure(c)
    /\ UNCHANGED <<args, side, file, scratch, gateVars, historyVars, resultVars>>

------------------------------------------------------------------------------
(* The steps up to the scratch directory.                                  *)

\* The second side of a comparison has the target of the first one.
ParseTarget == /\ Precheck("target", "toolchain",
                           IF side = 1 THEN {"INVALID_TARGET"} ELSE {})
               /\ UNCHANGED digest

FindToolchain == /\ Precheck("toolchain", "contract", {"TOOLCHAIN_INCOMPLETE"})
                 /\ UNCHANGED digest

ReadContract ==
    /\ Precheck("contract", "source", {"CONTRACT_IO"})
    /\ digest' = IF pc' = "source"
                 THEN [digest EXCEPT ![side].contract = file["contract"]] ELSE digest

ReadSource ==
    /\ Precheck("source", "check", {"SOURCE_IO"})
    /\ digest' = IF pc' = "check"
                 THEN [digest EXCEPT ![side].source = file[Source(side)]] ELSE digest

\* from_utf8, check_str and synthesize_vectors on the bytes already read.
CheckContract ==
    /\ Precheck("check", "vectors",
                {"CONTRACT_ENCODING", "CONTRACT_INVALID", "UNSUPPORTED_SHAPE"})
    /\ UNCHANGED digest

LoadVectors ==
    /\ Precheck("vectors", "shape",
                IF args.vectors_file
                THEN {"VECTORS_IO", "VECTORS_INVALID", "VECTORS_BINDING_MISMATCH"} ELSE {})
    /\ UNCHANGED digest

ResolveShape == Precheck("shape", "scratch", {"HARNESS_MISMATCH"}) /\ UNCHANGED digest

\* create_dir_all keeps what an existing directory holds.
CreateScratch ==
    /\ pc = "scratch"
    /\ \/ /\ pc' = "stage"
          /\ scratch' = [scratch EXCEPT ![Dir].exists = TRUE]
          /\ UNCHANGED outputVars
       \/ EarlyFailure("SCRATCH_IO") /\ UNCHANGED scratch
    /\ UNCHANGED <<args, side, file, digest, gateVars, historyVars, resultVars>>

------------------------------------------------------------------------------
(* The candidate object and the static gates.                              *)

\* A tool run: success, a failed command or an error of exec().
ToolStep(here, there, failedCode, errorCode) ==
    /\ pc = here
    /\ \E o \in Outcomes :
         \/ Success(o) /\ pc' = there /\ UNCHANGED outputVars
         \/ o.kind = "ok" /\ ~Success(o) /\ EarlyFailure(failedCode)
         \/ o.kind # "ok" /\ EarlyFailure(errorCode)

\* Mutant of StageCandidate: an object already in the directory is reused.
StageCandidateCached ==
    /\ \/ ~args.prebuilt /\ ToolStep("stage", "gates", "ASSEMBLE_FAILED", "ASSEMBLE_ERROR")
       \/ /\ args.prebuilt /\ pc = "stage"
          /\ \/ pc' = "gates" /\ UNCHANGED outputVars
             \/ EarlyFailure("SOURCE_IO")
    /\ IF pc' = "gates"
       THEN scratch' = [scratch EXCEPT ![Dir].routine =
                           IF @ = NoCandidate THEN Candidate ELSE @]
       ELSE RemoveScratch
    /\ stage' = 1
    /\ UNCHANGED <<args, side, file, digest, insns, evidence, historyVars, resultVars>>

\* A prebuilt object is copied, a source is assembled; both read the file now.
StageCandidate ==
    /\ \/ ~args.prebuilt /\ ToolStep("stage", "gates", "ASSEMBLE_FAILED", "ASSEMBLE_ERROR")
       \/ /\ args.prebuilt /\ pc = "stage"
          /\ \/ pc' = "gates" /\ UNCHANGED outputVars
             \/ EarlyFailure("SOURCE_IO")
    /\ IF pc' = "gates"
       THEN scratch' = [scratch EXCEPT ![Dir].routine = Candidate]
       ELSE RemoveScratch
    /\ stage' = 1
    /\ UNCHANGED <<args, side, file, digest, insns, evidence, historyVars, resultVars>>

\* verify_candidate_semantics, in the order of its calls: require_semantic_target,
\* check_candidate_object_policy, decode_candidate_code, lower_*, the two halves of
\* check_*_abi_capability, check_cfg_leaf, check_*_read_only_buffer_leaf.
GateOrder == <<"target", "object", "decode", "lowering", "abi", "capability", "cfg",
               "memory">>
GateNames == {GateOrder[i] : i \in 1 .. 8}

\* Mutant of StageErrors: an ABI failure is reported as one of the next stage.
StageErrorsShifted(g, n) ==
    CASE g \in {"target", "object"} -> {GateError(g, None, None)}
      [] g = "decode" -> {GateError("object", None, None), GateError(g, None, None)}
      [] g = "lowering" -> {GateError(g, Some(Complete(n)), Some(Coverage(n, m, n - m))) :
                               m \in 0 .. n - 1}
      [] g = "abi" -> {GateError("capability", Some(Complete(n)), Some(Complete(n)))}
      [] OTHER -> {GateError(g, Some(Complete(n)), Some(Complete(n)))}

\* Mutant of StageErrors: the operands of total - modeled are swapped.
StageErrorsSwapped(g, n) ==
    CASE g \in {"target", "object"} -> {GateError(g, None, None)}
      [] g = "decode" -> {GateError("object", None, None), GateError(g, None, None)}
      [] g = "lowering" -> {GateError(g, Some(Complete(n)), Some(Coverage(n, m, m - n))) :
                               m \in 0 .. n - 1}
      [] OTHER -> {GateError(g, Some(Complete(n)), Some(Complete(n)))}

\* The errors of gate g over n instructions.  Reading the code sections is part
\* of decode_candidate_code and fails as "object"; lowering stops at the first
\* unsupported instruction.
StageErrors(g, n) ==
    CASE g \in {"target", "object"} -> {GateError(g, None, None)}
      [] g = "decode" -> {GateError("object", None, None), GateError(g, None, None)}
      [] g = "lowering" -> {GateError(g, Some(Complete(n)), Some(Coverage(n, m, n - m))) :
                               m \in 0 .. n - 1}
      [] OTHER -> {GateError(g, Some(Complete(n)), Some(Complete(n)))}

\* The gates of a candidate that passed them all.
PassedGates == GatesUpTo(5, "Passed", Complete(insns), Complete(insns))

\* evaluate_*_memory_evidence: both reports, or none without [function.memory].
MemoryEvidence == {NoEvidence} \cup [alias : EvidenceStatuses, region : EvidenceStatuses]

PassGate ==
    /\ pc = "gates" /\ Capstone
    /\ GateOrder[stage] = "target" => args.supported
    /\ passed' = [passed EXCEPT ![side] = @ \cup {GateOrder[stage]}]
    /\ checked' = [checked EXCEPT ![side] = scratch[Dir].routine]
    /\ insns' \in IF GateOrder[stage] = "decode" THEN 0 .. MaxInstr[args.command] ELSE {insns}
    /\ IF stage = 8
       THEN pc' = "harness" /\ stage' = 1 /\ evidence' \in MemoryEvidence
       ELSE stage' = stage + 1 /\ UNCHANGED <<pc, evidence>>
    /\ UNCHANGED <<args, side, file, digest, scratch, launched, resultVars, outputVars>>

\* finalize_report: alias, region, then the contract expressions, whose verdict
\* evaluate_contract_expressions derives from the contract and the alias report.
Finalize(r, ev, exprs) == WithExprs(WithRegion(WithAlias(r, ev.alias), ev.region), exprs)

\* VerifyCore::Done.
Conclude(r, c) ==
    /\ reports' = [reports EXCEPT ![side] = r]
    /\ code' = c
    /\ pc' = "finished"
    /\ UNCHANGED outputVars

\* A gate fails.  Without the capstone feature the only gate is a stub that
\* fails as "decode".
FailGate ==
    /\ pc = "gates"
    /\ (Capstone /\ GateOrder[stage] = "target") => ~args.supported
    /\ \E e \in IF Capstone THEN StageErrors(GateOrder[stage], insns)
                            ELSE {GateError("decode", None, None)},
          exprs \in OptEvidence :
         Conclude(Finalize(FromParts(FromError(e), "Skipped", "none"), NoEvidence, exprs), "1")
    /\ RemoveScratch
    /\ UNCHANGED <<args, side, file, digest, gateVars, historyVars>>

------------------------------------------------------------------------------
(* The harness, the link and the run.                                      *)

\* A report without a run: the harness is unavailable, the image is not an
\* executable, or execution was not allowed.
ConcludeStatic(exe) ==
    \E exprs \in OptEvidence :
        Conclude(Finalize(FromParts(PassedGates, exe, "none"), evidence, exprs), "1")

\* generate_harness.  This path returns without removing the directory.
GenerateHarness ==
    /\ pc = "harness"
    /\ \/ pc' = "write_harness" /\ UNCHANGED <<resultVars, outputVars>>
       \/ ConcludeStatic("Skipped")
    /\ UNCHANGED <<args, side, file, digest, scratch, gateVars, historyVars>>

WriteHarness ==
    /\ pc = "write_harness"
    /\ \/ pc' = "assemble_harness" /\ UNCHANGED <<scratch, outputVars>>
       \/ EarlyFailure("HARNESS_IO") /\ RemoveScratch
    /\ UNCHANGED <<args, side, file, digest, gateVars, historyVars, resultVars>>

AssembleHarness ==
    /\ ToolStep("assemble_harness", "link", "ASSEMBLE_HARNESS_FAILED",
                "ASSEMBLE_HARNESS_ERROR")
    /\ IF pc' = "link" THEN UNCHANGED scratch ELSE RemoveScratch
    /\ UNCHANGED <<args, side, file, digest, gateVars, historyVars, resultVars>>

LinkImage ==
    /\ ToolStep("link", "executable", "LINK_FAILED", "LINK_ERROR")
    /\ IF pc' = "executable"
       THEN scratch' = [scratch EXCEPT ![Dir].image = scratch[Dir].routine]
       ELSE RemoveScratch
    /\ UNCHANGED <<args, side, file, digest, gateVars, historyVars, resultVars>>

\* Mutant of CheckExecutable: a failed gate is only logged.
CheckExecutableLogs ==
    /\ Goto("executable", "consent")
    /\ passed' \in {passed, [passed EXCEPT ![side] = @ \cup {"executable"}]}
    /\ UNCHANGED <<args, side, file, digest, scratch, gateVars, checked, launched, resultVars,
                   outputVars>>

\* check_executable_object.
CheckExecutable ==
    /\ pc = "executable"
    /\ \/ /\ pc' = "consent"
          /\ passed' = [passed EXCEPT ![side] = @ \cup {"executable"}]
          /\ UNCHANGED <<scratch, resultVars, outputVars>>
       \/ /\ ConcludeStatic("Failed")
          /\ RemoveScratch
          /\ UNCHANGED passed
    /\ UNCHANGED <<args, side, file, digest, gateVars, checked, launched>>

\* Mutant of Consent: the directory of a denied candidate is kept.
ConsentKeeps ==
    /\ pc = "consent"
    /\ \/ args.allow_execution /\ pc' = "run" /\ UNCHANGED <<resultVars, outputVars>>
       \/ ~args.allow_execution /\ ConcludeStatic("Passed")
    /\ UNCHANGED <<args, side, file, digest, scratch, gateVars, historyVars>>

\* Without --allow-execution the report is made of the static gates.
Consent ==
    /\ pc = "consent"
    /\ \/ args.allow_execution /\ pc' = "run" /\ UNCHANGED <<scratch, resultVars, outputVars>>
       \/ ~args.allow_execution /\ ConcludeStatic("Passed") /\ RemoveScratch
    /\ UNCHANGED <<args, side, file, digest, gateVars, historyVars>>

\* The order of the attachments differs from Finalize.
FinalizeRun(r, ev, exprs) == WithRegion(WithExprs(WithAlias(r, ev.alias), exprs), ev.region)

\* Mutant of ConcludeRun: the exit code is chosen before the evidence is attached.
ConcludeRunEarly(beh, exprs) ==
    LET parts == FromParts(PassedGates, "Passed", beh)
    IN Conclude(FinalizeRun(parts, evidence, exprs),
                IF parts.status \in Accepted THEN "0" ELSE "1")

ConcludeRun(beh, exprs) ==
    LET r == FinalizeRun(FromParts(PassedGates, "Passed", beh), evidence, exprs)
    IN Conclude(r, IF r.status \in Accepted THEN "0" ELSE "1")

\* pipeline.run and evaluate.  Only an error of exec() ends the command, without
\* a document; the captured stdout decides for every other outcome, a timeout
\* or a failing exit code included.
RunCandidate ==
    /\ pc = "run"
    /\ launched' = launched \cup {[side |-> side, image |-> scratch[Dir].image]}
    /\ RemoveScratch
    /\ \E o \in Outcomes :
         \/ o.kind = "ok" /\ \E beh \in {"passed", "failed"}, exprs \in OptEvidence :
                                ConcludeRun(beh, exprs)
         \/ /\ o.kind # "ok"
            /\ exit' = "1" /\ pc' = "done"
            /\ UNCHANGED <<resultVars, documents>>
    /\ UNCHANGED <<args, side, file, digest, gateVars, checked, passed>>

------------------------------------------------------------------------------
(* The two commands around the core.                                       *)

\* do_agent_verify: the report, then the evidence card when one is requested.
EmitReport ==
    /\ pc = "finished" /\ args.command = "verify"
    /\ documents' = Append(documents, ReportDocument(reports[1].status))
    /\ IF args.card THEN pc' = "card" /\ UNCHANGED exit
                    ELSE pc' = "done" /\ exit' = code
    /\ UNCHANGED <<args, side, file, digest, scratch, gateVars, historyVars, resultVars>>

\* write_evidence_card_if_requested: a failure to write is exit code 1.
WriteCard ==
    /\ Goto("card", "done")
    /\ exit' \in {code, "1"}
    /\ UNCHANGED <<args, side, file, digest, scratch, gateVars, historyVars, resultVars,
                   documents>>

\* do_agent_compare: the core runs again for the second source.
SecondSide ==
    /\ pc = "finished" /\ args.command = "compare" /\ side = 1
    /\ side' = 2 /\ pc' = "target"
    /\ stage' = 1 /\ insns' = 0 /\ evidence' = NoEvidence
    /\ UNCHANGED <<args, file, digest, scratch, historyVars, resultVars, outputVars>>

\* Mutant of EmitCompare: producing the comparison is taken for success.
EmitCompareSucceeds ==
    /\ pc = "finished" /\ args.command = "compare" /\ side = 2
    /\ documents' = Append(documents, CompareDocument(reports[1].status, reports[2].status))
    /\ exit' = "0"
    /\ pc' = "done"
    /\ UNCHANGED <<args, side, file, digest, scratch, gateVars, historyVars, resultVars>>

EmitCompare ==
    /\ pc = "finished" /\ args.command = "compare" /\ side = 2
    /\ documents' = Append(documents, CompareDocument(reports[1].status, reports[2].status))
    /\ exit' = IF {reports[1].status, reports[2].status} \cap Accepted # {} THEN "0" ELSE "1"
    /\ pc' = "done"
    /\ UNCHANGED <<args, side, file, digest, scratch, gateVars, historyVars, resultVars>>

\* Somebody saves an input file while the command runs.
EditFile(f) ==
    /\ pc # "done" /\ file[f] < MaxEdits[args.command]
    /\ file' = [file EXCEPT ![f] = @ + 1]
    /\ UNCHANGED <<args, pc, side, digest, scratch, gateVars, historyVars, resultVars,
                   outputVars>>

Exited == pc = "done" /\ UNCHANGED vars

Next ==
    \/ ParseTarget \/ FindToolchain \/ ReadContract \/ ReadSource \/ CheckContract
    \/ LoadVectors \/ ResolveShape \/ CreateScratch
    \/ StageCandidate \/ PassGate \/ FailGate
    \/ GenerateHarness \/ WriteHarness \/ AssembleHarness \/ LinkImage
    \/ CheckExecutable \/ Consent \/ RunCandidate
    \/ EmitReport \/ WriteCard \/ SecondSide \/ EmitCompare
    \/ \E f \in Files : EditFile(f)
    \/ Exited

Spec == Init /\ [][Next]_vars

------------------------------------------------------------------------------
(* Properties.                                                             *)

TypeOK ==
    /\ args \in Invocations
    /\ pc \in PCs
    /\ side \in Sides
    /\ file \in [Files -> Nat]
    /\ digest \in [Sides -> [contract : Nat, source : Nat]]
    /\ scratch \in [Sides -> [exists : BOOLEAN, routine : Candidates, image : Candidates]]
    /\ stage \in 1 .. 8
    /\ insns \in Nat
    /\ evidence \in MemoryEvidence
    /\ checked \in [Sides -> Candidates]
    /\ passed \in [Sides -> SUBSET (GateNames \cup {"executable"})]
    /\ launched \subseteq [side : Sides, image : Candidates]
    /\ reports \in [Sides -> Reports \cup {NoReport}]
    /\ code \in {"none", "0", "1"}
    /\ documents \in Seq(AllDocuments)
    /\ exit \in {"running", "0", "1", "2"}

\* Nothing is given to the runner unless --allow-execution was set, every static
\* gate and the executable gate passed for that side, and the image was linked
\* from the very object the gates examined, also when both sides of a comparison
\* share a scratch directory that the first one left behind.
ExecutionIsGated ==
    \A l \in launched :
        /\ args.allow_execution
        /\ passed[l.side] = GateNames \cup {"executable"}
        /\ l.image = checked[l.side] /\ l.image.side = l.side

\* A status that exits 0 is earned: that side's own image ran and its vectors
\* passed, after every gate.
AcceptedIsEarned ==
    \A s \in Sides :
        reports[s].status \in Accepted =>
            /\ passed[s] = GateNames \cup {"executable"}
            /\ \E l \in launched : l.side = s /\ l.image.side = s
            /\ reports[s].behavior = "passed"

\* GateStatus::Passed: "Gate ran and passed": a report never shows a gate as
\* passed that did not run to its end on this candidate.
PassedGateRan ==
    \A s \in Sides :
        reports[s] # NoReport =>
            LET g == reports[s].semantic IN
            /\ g.object_policy = "Passed" => "object" \in passed[s]
            /\ g.abi = "Passed" => "abi" \in passed[s]
            /\ g.capability = "Passed" => "capability" \in passed[s]
            /\ g.control = "Passed" => "cfg" \in passed[s]
            /\ g.memory = "Passed" => "memory" \in passed[s]

\* When the process exits, a scratch directory is left only behind a candidate
\* that passed every static gate but whose harness could not be generated.
ScratchReleased ==
    pc = "done" =>
        \A d \in Sides : scratch[d].exists =>
            \E s \in Sides : /\ reports[s] # NoReport
                             /\ AllPassed(reports[s].semantic)
                             /\ reports[s].executable = "Skipped"

\* What a controller sees follows the protocol: one document at most, printed
\* before the exit and never revised, and an exit code that agrees with it.
Protocol == INSTANCE ControllerProtocol WITH documents <- documents, exit <- exit
RefinesProtocol == Protocol!Spec

\* docs/CONTROLLER_PROTOCOL.md, Streams: "Exactly one JSON document".
ExactlyOneDocument == pc = "done" => Len(documents) = 1

\* source_digest is of the bytes the accepted object was made from.
DigestIsOfCandidate ==
    \A s \in Sides :
        reports[s].status \in Accepted => digest[s].source = checked[s].version

==============================================================================
