-------------------------- MODULE VerificationReport --------------------------
(***************************************************************************)
(* The report of one agent verification (crates/semasm-agent/src/          *)
(* verify.rs): how the results of the static gates, of the executable      *)
(* gate and of the harness compose into one status, and how evidence       *)
(* attached afterwards demotes it.  Pure operators; ReportBuilder and      *)
(* AgentVerify are the state machines that use them.                       *)
(***************************************************************************)
EXTENDS Naturals

GateStatuses == {"Passed", "Failed", "Skipped"}

Statuses == {"Verified", "VerifiedUnderPreconditions", "SemanticFailed",
             "ExecutableFailed", "BehaviorFailed", "ExecutionDenied"}

\* The statuses for which agent verify exits with code 0.
Accepted == {"Verified", "VerifiedUnderPreconditions"}

\* AliasStatus, RegionAccessStatus and ContractExprStatus; "none" when the
\* evidence is absent.
EvidenceStatuses == {"Passed", "PassedUnderPreconditions", "Incomplete", "Failed"}
OptEvidence == EvidenceStatuses \cup {"none"}

\* Option<HarnessReport>, by its all_passed.
Behaviors == {"none", "passed", "failed"}

------------------------------------------------------------------------------
(* Coverage, in instructions.                                              *)

Coverages == [total : Nat, modeled : Nat, unknown : Nat]
Coverage(t, m, u) == [total |-> t, modeled |-> m, unknown |-> u]
Complete(n) == Coverage(n, n, 0)
UnknownIncomplete == Coverage(0, 0, 1)
NotStarted == Coverage(0, 0, 0)

\* Option<Coverage>, and Option::unwrap_or_else.
None == [some |-> FALSE, value |-> NotStarted]
Some(c) == [some |-> TRUE, value |-> c]
OptCoverages == {None} \cup [some : {TRUE}, value : Coverages]
Or(o, default) == IF o.some THEN o.value ELSE default

------------------------------------------------------------------------------
(* SemanticGates.                                                          *)

Gates == [object_policy : GateStatuses, decode : Coverages, lowering : Coverages,
          abi : GateStatuses, capability : GateStatuses,
          control : GateStatuses, memory : GateStatuses]

\* Mutant of AllPassed: a skipped required gate counts as passed.
AllPassedOrSkipped(g) ==
    /\ \A s \in {g.object_policy, g.abi, g.capability, g.control, g.memory} : s # "Failed"
    /\ \A c \in {g.decode, g.lowering} : c.unknown = 0 /\ c.modeled = c.total

\* SemanticGates::all_passed.
AllPassed(g) ==
    /\ \A s \in {g.object_policy, g.abi, g.capability} : s = "Passed"
    /\ \A s \in {g.control, g.memory} : s \in {"Passed", "Skipped"}
    /\ \A c \in {g.decode, g.lowering} : c.unknown = 0 /\ c.modeled = c.total

\* The gates after the stages up to the k-th have passed and the next one, if
\* any, has the status st: later stages are Skipped.  The stages are 1 object,
\* 2 abi, 3 capability, 4 control, 5 memory; decode and lowering are coverages.
GatesUpTo(k, st, dec, low) ==
    LET at(i) == IF i <= k THEN "Passed" ELSE IF i = k + 1 THEN st ELSE "Skipped"
    IN [object_policy |-> at(1), decode |-> dec, lowering |-> low,
        abi |-> at(2), capability |-> at(3), control |-> at(4), memory |-> at(5)]

\* SemanticGateError: the stage that failed and the coverage known by then.
ErrorStages == {"target", "object", "decode", "lowering", "abi", "capability",
                "cfg", "control", "memory"}

GateErrors == [stage : ErrorStages, decode : OptCoverages, lowering : OptCoverages]

GateError(s, dec, low) == [stage |-> s, decode |-> dec, lowering |-> low]

\* SemanticGates::from_error.  The stage is a string in the code; any other
\* name than those of ErrorStages takes the last branch.
FromError(e) ==
    LET dec == Or(e.decode, NotStarted)
        low == Or(e.lowering, NotStarted)
    IN CASE e.stage \in {"target", "object"} ->
                GatesUpTo(0, "Failed", NotStarted, NotStarted)
         [] e.stage = "decode" ->
                GatesUpTo(1, "Skipped", Or(e.decode, UnknownIncomplete), NotStarted)
         [] e.stage = "lowering" ->
                GatesUpTo(1, "Skipped", dec, Or(e.lowering, UnknownIncomplete))
         [] e.stage = "abi" -> GatesUpTo(1, "Failed", dec, low)
         [] e.stage = "capability" -> GatesUpTo(2, "Failed", dec, low)
         [] e.stage \in {"cfg", "control"} -> GatesUpTo(3, "Failed", dec, low)
         [] e.stage = "memory" -> GatesUpTo(4, "Failed", dec, low)
         [] OTHER -> GatesUpTo(0, "Failed", Or(e.decode, UnknownIncomplete), low)

------------------------------------------------------------------------------
(* VerificationReport.                                                     *)

Reports == [status : Statuses, semantic : Gates, executable : GateStatuses,
            behavior : Behaviors, alias : OptEvidence, region : OptEvidence,
            exprs : OptEvidence]

\* VerificationReport::from_parts.
StatusOf(g, exe, beh) ==
    CASE ~AllPassed(g) -> "SemanticFailed"
      [] AllPassed(g) /\ exe = "Failed" -> "ExecutableFailed"
      [] AllPassed(g) /\ exe # "Failed" /\ beh = "none" -> "ExecutionDenied"
      [] AllPassed(g) /\ exe # "Failed" /\ beh = "passed" -> "Verified"
      [] OTHER -> "BehaviorFailed"

FromParts(g, exe, beh) ==
    [status |-> StatusOf(g, exe, beh), semantic |-> g, executable |-> exe,
     behavior |-> beh, alias |-> "none", region |-> "none", exprs |-> "none"]

\* The effect of evidence on the status; ok is the set of evidence statuses
\* that leave it alone.
Demote(st, ev, ok) ==
    CASE ev \in ok -> st
      [] ev = "PassedUnderPreconditions" ->
            IF st = "Verified" THEN "VerifiedUnderPreconditions" ELSE st
      [] OTHER -> "SemanticFailed"

\* Mutants: incomplete alias evidence is ignored; passing evidence under
\* preconditions overwrites the status whatever it was.
WithAliasLenient(r, ev) ==
    [r EXCEPT !.status = Demote(@, ev, {"none", "Passed", "Incomplete"}), !.alias = ev]

WithRegionOverwrites(r, ev) ==
    [r EXCEPT !.status = IF ev = "PassedUnderPreconditions"
                         THEN "VerifiedUnderPreconditions"
                         ELSE Demote(@, ev, {"none", "Passed", "Incomplete"}),
              !.region = ev]

\* with_alias_analysis, with_region_access and with_contract_expressions.  The
\* callers attach evidence only when there is some: "none" changes nothing.
WithAlias(r, ev) ==
    [r EXCEPT !.status = Demote(@, ev, {"none", "Passed"}), !.alias = ev]

WithRegion(r, ev) ==
    [r EXCEPT !.status = Demote(@, ev, {"none", "Passed", "Incomplete"}), !.region = ev]

WithExprs(r, ev) ==
    [r EXCEPT !.status = Demote(@, ev, {"none", "Passed"}), !.exprs = ev]

==============================================================================
