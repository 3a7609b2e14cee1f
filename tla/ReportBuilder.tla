---------------------------- MODULE ReportBuilder ----------------------------
(***************************************************************************)
(* The fluent builder of VerificationReport as its public API lets callers *)
(* use it: from_parts on any completed stage results, those of a gate      *)
(* error included, then the three kinds of evidence, each at most once and *)
(* in any order.  agent verify uses two different orders.                  *)
(***************************************************************************)
EXTENDS VerificationReport

CONSTANT MaxCoverage   \* bound: instructions a coverage counts

ASSUME MaxCoverageAssumption == MaxCoverage \in Nat

VARIABLES report, attached, failedGate

builderVars == <<report, attached, failedGate>>

Kinds == {"alias", "region", "exprs"}

SmallCoverages == {Coverage(t, m, t - m) : t \in 0 .. MaxCoverage, m \in 0 .. MaxCoverage}
                  \cap Coverages
OptSmall == {None} \cup {Some(c) : c \in SmallCoverages}

\* The gate results a caller can hand to from_parts: those of the stages all
\* run, or those from_error derives from an error.
BuilderInit ==
    /\ attached = {}
    /\ \/ /\ failedGate = "none"
          /\ \E n \in 0 .. MaxCoverage, exe \in GateStatuses, beh \in Behaviors :
                report = FromParts(GatesUpTo(5, "Passed", Complete(n), Complete(n)), exe, beh)
       \/ /\ failedGate \in ErrorStages
          /\ \E dec \in OptSmall, low \in OptSmall, exe \in GateStatuses, beh \in Behaviors :
                report = FromParts(FromError(GateError(failedGate, dec, low)), exe, beh)

Attach(kind, ev) ==
    /\ kind \notin attached
    /\ attached' = attached \cup {kind}
    /\ report' = CASE kind = "alias" -> WithAlias(report, ev)
                   [] kind = "region" -> WithRegion(report, ev)
                   [] kind = "exprs" -> WithExprs(report, ev)
    /\ UNCHANGED failedGate

AllAttached == attached = Kinds /\ UNCHANGED builderVars

BuilderNext == (\E kind \in Kinds, ev \in EvidenceStatuses : Attach(kind, ev)) \/ AllAttached

BuilderSpec == BuilderInit /\ [][BuilderNext]_builderVars

------------------------------------------------------------------------------
ReportTypeOK ==
    /\ report \in Reports
    /\ attached \subseteq Kinds
    /\ failedGate \in ErrorStages \cup {"none"}

\* Every evidence that must pass.  Incomplete region evidence is observational.
Blocking(r) ==
    \/ {r.alias, r.exprs} \cap {"Incomplete", "Failed"} # {}
    \/ r.region = "Failed"

Conditional(r) == "PassedUnderPreconditions" \in {r.alias, r.region, r.exprs}

\* The status is a function of what the report holds, whatever the order in
\* which the evidence was attached: agent verify attaches region access before
\* the contract expressions on one path and after them on the other.
StatusIsOrderIndependent ==
    report.status =
        IF Blocking(report) THEN "SemanticFailed"
        ELSE LET base == StatusOf(report.semantic, report.executable, report.behavior)
             IN IF base = "Verified" /\ Conditional(report)
                THEN "VerifiedUnderPreconditions" ELSE base

\* A gate error is final: whatever coverage the error carries and whatever is
\* attached, the report of a failed gate says SemanticFailed.
GateErrorIsFinal == failedGate # "none" => report.status = "SemanticFailed"

\* Evidence only ever demotes: Verified is never reached, acceptance never
\* regained and SemanticFailed never left.
NeverPromotes ==
    [][/\ report'.status = "Verified" => report.status = "Verified"
       /\ report'.status \in Accepted => report.status \in Accepted
       /\ report.status = "SemanticFailed" => report'.status = "SemanticFailed"]_builderVars

==============================================================================
