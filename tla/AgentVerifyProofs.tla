-------------------------- MODULE AgentVerifyProofs --------------------------
(***************************************************************************)
(* ReportBuilder: the status of a report does not depend on the order in   *)
(* which evidence is attached, a gate error is final and evidence only     *)
(* demotes.  For every coverage and every order.                           *)
(*                                                                         *)
(* AgentVerify: type correctness, the gating of execution, what an         *)
(* accepted status stands for, the release of the scratch directories and  *)
(* the refinement of ControllerProtocol.                                   *)
(***************************************************************************)
EXTENDS AgentVerify, ReportBuilder, TLAPS

-----------------------------------------------------------------------------
(* What the operators of VerificationReport return, for every coverage,    *)
(* gate error and evidence.                                                *)


\* The constructors of Coverage are well formed.
LEMMA CoverageTypes ==
    /\ NotStarted \in Coverages /\ UnknownIncomplete \in Coverages
    /\ \A n \in Nat : Complete(n) \in Coverages
    /\ None \in OptCoverages
    /\ \A c \in Coverages : Some(c) \in OptCoverages
BY DEF NotStarted, UnknownIncomplete, Complete, Coverage, Coverages, None, Some, OptCoverages

\* unwrap_or_else returns a coverage.
LEMMA OrType ==
    ASSUME NEW o \in OptCoverages, NEW d \in Coverages
    PROVE  Or(o, d) \in Coverages
<1>1. CASE o = None
  BY <1>1 DEF Or, None
<1>2. CASE o \in [some : {TRUE}, value : Coverages]
  <2>1. o.some = TRUE /\ o.value \in Coverages
    BY <1>2
  <2> QED BY <2>1, Zenon DEF Or
<1> QED BY <1>1, <1>2 DEF OptCoverages

\* A snapshot of the gates is well formed.
LEMMA GatesUpToType ==
    ASSUME NEW k \in Nat, NEW st \in GateStatuses, NEW dec \in Coverages,
           NEW low \in Coverages
    PROVE  GatesUpTo(k, st, dec, low) \in Gates
BY DEF GatesUpTo, Gates, GateStatuses

\* from_error returns a well-formed snapshot for every stage and every coverage
\* an error may carry.
LEMMA FromErrorType ==
    ASSUME NEW e \in GateErrors
    PROVE  FromError(e) \in Gates
<1> DEFINE dec == Or(e.decode, NotStarted)
           low == Or(e.lowering, NotStarted)
<1>1. e.stage \in ErrorStages /\ e.decode \in OptCoverages /\ e.lowering \in OptCoverages
  BY DEF GateErrors
<1>2. dec \in Coverages /\ low \in Coverages
  BY <1>1, OrType, CoverageTypes
<1>3. Or(e.decode, UnknownIncomplete) \in Coverages
      /\ Or(e.lowering, UnknownIncomplete) \in Coverages
  BY <1>1, OrType, CoverageTypes
<1>4. \A k \in 0 .. 4, st \in GateStatuses, d \in Coverages, l \in Coverages :
          GatesUpTo(k, st, d, l) \in Gates
  BY GatesUpToType
<1>5. "Failed" \in GateStatuses /\ "Skipped" \in GateStatuses
  BY DEF GateStatuses
<1> HIDE DEF dec, low
<1>6. CASE e.stage \in {"target", "object"}
  <2>1. FromError(e) = GatesUpTo(0, "Failed", NotStarted, NotStarted)
    BY <1>6 DEF FromError
  <2> QED BY <2>1, <1>4, <1>5, CoverageTypes
<1>7. CASE e.stage = "decode"
  <2>1. FromError(e) = GatesUpTo(1, "Skipped", Or(e.decode, UnknownIncomplete), NotStarted)
    BY <1>7 DEF FromError
  <2> QED BY <2>1, <1>3, <1>4, <1>5, CoverageTypes
<1>8. CASE e.stage = "lowering"
  <2>1. FromError(e) = GatesUpTo(1, "Skipped", dec, Or(e.lowering, UnknownIncomplete))
    BY <1>8 DEF FromError, dec
  <2> QED BY <2>1, <1>2, <1>3, <1>4, <1>5
<1>9. CASE e.stage \in {"abi", "capability", "cfg", "control", "memory"}
  <2>1. \E k \in 1 .. 4 : FromError(e) = GatesUpTo(k, "Failed", dec, low)
    BY <1>9 DEF FromError, dec, low
  <2> QED BY <2>1, <1>2, <1>4, <1>5
<1> QED BY <1>1, <1>6, <1>7, <1>8, <1>9 DEF ErrorStages

\* A gate error never composes into passed gates, whatever coverage it carries:
\* the ABI gate is at most Skipped, or a gate is Failed.
LEMMA FromErrorFails ==
    ASSUME NEW e \in GateErrors
    PROVE  ~AllPassed(FromError(e))
<1>1. e.stage \in ErrorStages
  BY DEF GateErrors
<1>2. CASE e.stage \in {"target", "object"}
  BY <1>2 DEF FromError, GatesUpTo, AllPassed
<1>3. CASE e.stage \in {"decode", "lowering", "abi"}
  BY <1>3 DEF FromError, GatesUpTo, AllPassed
<1>4. CASE e.stage \in {"capability", "cfg", "control", "memory"}
  BY <1>4 DEF FromError, GatesUpTo, AllPassed
<1> QED BY <1>1, <1>2, <1>3, <1>4 DEF ErrorStages

\* Candidates whose stages all ran pass, even with no instruction at all.
LEMMA CompleteGatesPass ==
    ASSUME NEW n \in Nat
    PROVE  /\ GatesUpTo(5, "Passed", Complete(n), Complete(n)) \in Gates
           /\ AllPassed(GatesUpTo(5, "Passed", Complete(n), Complete(n)))
<1>1. GatesUpTo(5, "Passed", Complete(n), Complete(n)) \in Gates
  BY CoverageTypes, GatesUpToType DEF GateStatuses
<1>2. AllPassed(GatesUpTo(5, "Passed", Complete(n), Complete(n)))
  BY DEF GatesUpTo, AllPassed, Complete, Coverage
<1> QED BY <1>1, <1>2

\* from_parts always chooses one of the statuses.
LEMMA StatusOfType ==
    ASSUME NEW g, NEW exe, NEW beh
    PROVE  StatusOf(g, exe, beh) \in Statuses
BY DEF StatusOf, Statuses

\* from_parts returns a well-formed report.
LEMMA FromPartsType ==
    ASSUME NEW g \in Gates, NEW exe \in GateStatuses, NEW beh \in Behaviors
    PROVE  FromParts(g, exe, beh) \in Reports
BY StatusOfType DEF FromParts, Reports, OptEvidence

\* from_parts says Verified only of passed gates and passed vectors.
LEMMA StatusOfVerified ==
    ASSUME NEW g, NEW exe, NEW beh,
           StatusOf(g, exe, beh) \in Accepted
    PROVE  /\ StatusOf(g, exe, beh) = "Verified"
           /\ AllPassed(g) /\ exe # "Failed" /\ beh = "passed"
BY DEF StatusOf, Accepted

\* Demotion stays among the statuses.
LEMMA DemoteType ==
    ASSUME NEW st \in Statuses, NEW ev, NEW ok
    PROVE  Demote(st, ev, ok) \in Statuses
BY DEF Demote, Statuses

\* w is r with evidence attached: well formed, with the same gates, executable
\* gate and behaviour, and a status that is not better.
Demoted(w, r) ==
    /\ w \in Reports
    /\ w.semantic = r.semantic /\ w.executable = r.executable
    /\ w.behavior = r.behavior
    /\ w.status \in Accepted => r.status \in Accepted
    /\ w.status = "Verified" => r.status = "Verified"
    /\ r.status = "SemanticFailed" => w.status = "SemanticFailed"

\* Attaching evidence never turns a refused status into an accepted one.
LEMMA WithEvidence ==
    ASSUME NEW r \in Reports, NEW ev \in OptEvidence,
           NEW w \in {WithAlias(r, ev), WithRegion(r, ev), WithExprs(r, ev)}
    PROVE  Demoted(w, r)
<1>1. r.status \in Statuses
  BY SMTT(30) DEF Reports
<1>2. \E ok : w \in {[r EXCEPT !.status = Demote(@, ev, ok), !.alias = ev],
                     [r EXCEPT !.status = Demote(@, ev, ok), !.region = ev],
                     [r EXCEPT !.status = Demote(@, ev, ok), !.exprs = ev]}
  BY ZenonT(30) DEF WithAlias, WithRegion, WithExprs
<1>3. PICK ok : w \in {[r EXCEPT !.status = Demote(@, ev, ok), !.alias = ev],
                       [r EXCEPT !.status = Demote(@, ev, ok), !.region = ev],
                       [r EXCEPT !.status = Demote(@, ev, ok), !.exprs = ev]}
  BY <1>2
<1>4. Demote(r.status, ev, ok) \in Statuses
  BY <1>1, DemoteType
<1>5. /\ Demote(r.status, ev, ok) \in Accepted => r.status \in Accepted
      /\ Demote(r.status, ev, ok) = "Verified" => r.status = "Verified"
      /\ r.status = "SemanticFailed" => Demote(r.status, ev, ok) = "SemanticFailed"
  BY DEF Demote, Accepted
<1>6. w.status = Demote(r.status, ev, ok)
  BY <1>3 DEF Reports
<1>7. w \in Reports /\ w.semantic = r.semantic /\ w.executable = r.executable
      /\ w.behavior = r.behavior
  BY <1>3, <1>4 DEF Reports
<1> QED BY <1>5, <1>6, <1>7 DEF Demoted

\* Each of the three attachments demotes.
LEMMA WithEvidenceEach ==
    ASSUME NEW r \in Reports, NEW ev \in OptEvidence
    PROVE  /\ Demoted(WithAlias(r, ev), r)
           /\ Demoted(WithRegion(r, ev), r)
           /\ Demoted(WithExprs(r, ev), r)
BY WithEvidence

\* Demotion is transitive.
LEMMA DemotedTransitive ==
    ASSUME NEW a, NEW b, NEW c, Demoted(a, b), Demoted(b, c)
    PROVE  Demoted(a, c)
BY DEF Demoted

-----------------------------------------------------------------------------
(* The builder. *)

\* Evidence that has not been attached is absent, and a failed gate shows.
Attached ==
    /\ \A k \in Kinds \ attached : report[k] = "none"
    /\ failedGate # "none" => ~AllPassed(report.semantic)

BuilderInv == ReportTypeOK /\ Attached /\ StatusIsOrderIndependent

\* BuilderInv holds initially.
LEMMA InitBuilder == BuilderInit => BuilderInv
<1> SUFFICES ASSUME BuilderInit PROVE BuilderInv
  OBVIOUS
<1>1. PICK g \in Gates, exe \in GateStatuses, beh \in Behaviors :
          /\ report = FromParts(g, exe, beh)
          /\ failedGate # "none" => ~AllPassed(g)
  <2>1. CASE failedGate = "none"
    <3>1. PICK n \in 0 .. MaxCoverage, exe \in GateStatuses, beh \in Behaviors :
              report = FromParts(GatesUpTo(5, "Passed", Complete(n), Complete(n)), exe, beh)
      BY <2>1 DEF BuilderInit, ErrorStages
    <3>2. GatesUpTo(5, "Passed", Complete(n), Complete(n)) \in Gates
      BY CompleteGatesPass, MaxCoverageAssumption
    <3> QED BY <2>1, <3>1, <3>2
  <2>2. CASE failedGate # "none"
    <3>1. PICK dec \in OptSmall, low \in OptSmall, exe \in GateStatuses, beh \in Behaviors :
              /\ report = FromParts(FromError(GateError(failedGate, dec, low)), exe, beh)
              /\ failedGate \in ErrorStages
      BY <2>2 DEF BuilderInit
    <3>2. dec \in OptCoverages /\ low \in OptCoverages
      BY CoverageTypes DEF OptSmall, SmallCoverages
    <3>3. GateError(failedGate, dec, low) \in GateErrors
      BY <3>1, <3>2 DEF GateError, GateErrors
    <3>4. /\ FromError(GateError(failedGate, dec, low)) \in Gates
          /\ ~AllPassed(FromError(GateError(failedGate, dec, low)))
      BY <3>3, FromErrorType, FromErrorFails
    <3> QED BY <3>1, <3>4
  <2> QED BY <2>1, <2>2
<1>2. report \in Reports
  BY <1>1, FromPartsType
<1>3. ReportTypeOK
  BY <1>2 DEF ReportTypeOK, BuilderInit
<1>4. /\ report.alias = "none" /\ report.region = "none" /\ report.exprs = "none"
      /\ report.semantic = g /\ report.executable = exe /\ report.behavior = beh
      /\ report.status = StatusOf(g, exe, beh)
  BY <1>1 DEF FromParts
<1>5. Attached
  BY <1>1, <1>4 DEF Attached, Kinds
<1>6. StatusIsOrderIndependent
  BY <1>4 DEF StatusIsOrderIndependent, Blocking, Conditional
<1> QED BY <1>3, <1>5, <1>6 DEF BuilderInv

\* Every attachment is one of the three operators WithEvidence is about.
LEMMA AttachIsWith ==
    ASSUME ReportTypeOK, NEW kind \in Kinds, NEW ev \in EvidenceStatuses, Attach(kind, ev)
    PROVE  /\ report' \in {WithAlias(report, ev), WithRegion(report, ev),
                           WithExprs(report, ev)}
           /\ report \in Reports /\ ev \in OptEvidence
BY DEF Attach, Kinds, ReportTypeOK, OptEvidence

\* Attaching evidence preserves BuilderInv.
LEMMA NextBuilder == BuilderInv /\ [BuilderNext]_builderVars => BuilderInv'
<1> SUFFICES ASSUME BuilderInv, [BuilderNext]_builderVars PROVE BuilderInv'
  OBVIOUS
<1> USE DEF BuilderInv
<1>1. ASSUME NEW kind \in Kinds, NEW ev \in EvidenceStatuses, Attach(kind, ev)
      PROVE  BuilderInv'
  <2>1. /\ report' \in Reports
        /\ report'.semantic = report.semantic /\ report'.executable = report.executable
        /\ report'.behavior = report.behavior
    BY <1>1, AttachIsWith, WithEvidence DEF Demoted
  <2>2. ReportTypeOK'
    BY <1>1, <2>1 DEF ReportTypeOK, Attach
  <2>3. /\ report \in Reports
        /\ report[kind] = "none"
        /\ report' = [report EXCEPT !.status =
                         Demote(@, ev, IF kind = "region" THEN {"none", "Passed", "Incomplete"}
                                                          ELSE {"none", "Passed"}),
                                    ![kind] = ev]
    <3>1. report[kind] = "none"
      BY <1>1 DEF Attach, Attached
    <3>2. CASE kind = "alias"
      BY <1>1, <3>1, <3>2 DEF Attach, WithAlias, ReportTypeOK, Reports
    <3>3. CASE kind = "region"
      BY <1>1, <3>1, <3>3 DEF Attach, WithRegion, ReportTypeOK, Reports
    <3>4. CASE kind = "exprs"
      BY <1>1, <3>1, <3>4 DEF Attach, WithExprs, ReportTypeOK, Reports
    <3> QED BY <3>2, <3>3, <3>4 DEF Kinds
  <2>4. /\ report'[kind] = ev
        /\ \A k \in Kinds \ {kind} : report'[k] = report[k]
        /\ report'.status =
             Demote(report.status, ev, IF kind = "region" THEN {"none", "Passed", "Incomplete"}
                                                          ELSE {"none", "Passed"})
    BY <2>3 DEF Reports, Kinds
  <2>5. Attached'
    BY <1>1, <2>1, <2>4 DEF Attached, Attach, Kinds
  <2>6. StatusIsOrderIndependent'
    <3> DEFINE base == StatusOf(report.semantic, report.executable, report.behavior)
    <3>1. base' = base
      BY <2>1
    <3>2. base # "VerifiedUnderPreconditions"
      BY DEF StatusOf
    <3>3. report.status = IF Blocking(report) THEN "SemanticFailed"
                          ELSE IF base = "Verified" /\ Conditional(report)
                               THEN "VerifiedUnderPreconditions" ELSE base
      BY DEF StatusIsOrderIndependent
    <3> DEFINE Blocks(a, g, x) == \/ a \in {"Incomplete", "Failed"}
                                  \/ x \in {"Incomplete", "Failed"}
                                  \/ g = "Failed"
               Depends(a, g, x) == \/ a = "PassedUnderPreconditions"
                                   \/ g = "PassedUnderPreconditions"
                                   \/ x = "PassedUnderPreconditions"
    <3>7. /\ Blocking(report) <=> Blocks(report.alias, report.region, report.exprs)
          /\ Conditional(report) <=> Depends(report.alias, report.region, report.exprs)
      BY DEF Blocking, Conditional
    <3>8. \/ /\ Blocks(report'.alias, report'.region, report'.exprs)
             /\ report'.status = "SemanticFailed"
          \/ /\ ~Blocks(report'.alias, report'.region, report'.exprs)
             /\ base = "Verified" /\ Depends(report'.alias, report'.region, report'.exprs)
             /\ report'.status = "VerifiedUnderPreconditions"
          \/ /\ ~Blocks(report'.alias, report'.region, report'.exprs)
             /\ ~(base = "Verified" /\ Depends(report'.alias, report'.region, report'.exprs))
             /\ report'.status = base
          => StatusIsOrderIndependent'
      BY <3>1 DEF StatusIsOrderIndependent, Blocking, Conditional
    <3> HIDE DEF base
    <3>4. CASE kind = "alias"
      BY <2>3, <2>4, <3>2, <3>3, <3>4, <3>7, <3>8 DEF Demote, Kinds, EvidenceStatuses
    <3>5. CASE kind = "region"
      BY <2>3, <2>4, <3>2, <3>3, <3>5, <3>7, <3>8 DEF Demote, Kinds, EvidenceStatuses
    <3>6. CASE kind = "exprs"
      BY <2>3, <2>4, <3>2, <3>3, <3>6, <3>7, <3>8 DEF Demote, Kinds, EvidenceStatuses
    <3> QED BY <3>4, <3>5, <3>6 DEF Kinds
  <2> QED BY <2>2, <2>5, <2>6
<1>2. CASE UNCHANGED builderVars
  BY <1>2 DEF builderVars, ReportTypeOK, Attached, StatusIsOrderIndependent
<1> QED BY <1>1, <1>2 DEF BuilderNext, AllAttached

\* BuilderInv is an invariant.
LEMMA BuilderInvariant == BuilderSpec => []BuilderInv
<1> QED BY InitBuilder, NextBuilder, PTL DEF BuilderSpec

\* The status depends on the contents of a report, not on the order of the
\* with_* calls that filled it.
THEOREM OrderIndependence == BuilderSpec => []StatusIsOrderIndependent
<1>1. BuilderInv => StatusIsOrderIndependent
  BY DEF BuilderInv
<1> QED BY <1>1, BuilderInvariant, PTL

\* No evidence and no coverage turns the report of a gate error into another
\* status than SemanticFailed.
THEOREM ErrorsAreFinal == BuilderSpec => []GateErrorIsFinal
<1>1. BuilderInv => GateErrorIsFinal
  BY DEF BuilderInv, Attached, GateErrorIsFinal, StatusIsOrderIndependent, StatusOf
<1> QED BY <1>1, BuilderInvariant, PTL

\* A with_* call never promotes a report.
THEOREM EvidenceDemotes == BuilderSpec => NeverPromotes
<1> DEFINE Demotes ==
        /\ report'.status = "Verified" => report.status = "Verified"
        /\ report'.status \in Accepted => report.status \in Accepted
        /\ report.status = "SemanticFailed" => report'.status = "SemanticFailed"
<1>1. ASSUME BuilderInv, [BuilderNext]_builderVars PROVE [Demotes]_builderVars
  <2>1. ASSUME NEW kind \in Kinds, NEW ev \in EvidenceStatuses, Attach(kind, ev)
        PROVE  Demotes
    BY <1>1, <2>1, AttachIsWith, WithEvidence DEF BuilderInv, Demoted
  <2> QED BY <1>1, <2>1 DEF BuilderNext, AllAttached
<1> QED BY <1>1, BuilderInvariant, PTL DEF BuilderSpec, NeverPromotes

-----------------------------------------------------------------------------
(* agent verify and agent compare.                                         *)

USE DEF Sides

\* The command line has its type; a comparison writes no card.
LEMMA InvocationType ==
    ASSUME TypeOK
    PROVE  /\ args \in AllInvocations
           /\ args.command = "compare" => ~args.card
BY VerifyAssumption DEF TypeOK

\* Memory evidence has one status, or none, per kind.
LEMMA EvidenceType ==
    ASSUME NEW ev \in MemoryEvidence
    PROVE  ev.alias \in OptEvidence /\ ev.region \in OptEvidence
BY DEF MemoryEvidence, NoEvidence, OptEvidence

\* Both orders of attachment keep what from_parts was given and never promote.
LEMMA FinalizeFacts ==
    ASSUME NEW r \in Reports, NEW ev \in MemoryEvidence, NEW x \in OptEvidence
    PROVE  Demoted(Finalize(r, ev, x), r) /\ Demoted(FinalizeRun(r, ev, x), r)
<1>1. ev.alias \in OptEvidence /\ ev.region \in OptEvidence
  BY EvidenceType
<1>2. PICK a : a = WithAlias(r, ev.alias)
  OBVIOUS
<1>3. PICK b : b = WithRegion(a, ev.region)
  OBVIOUS
<1>4. PICK c : c = WithExprs(a, x)
  OBVIOUS
<1>5. Demoted(a, r) /\ a \in Reports
  <2>1. Demoted(a, r)
    BY <1>1, <1>2, WithEvidenceEach
  <2> QED BY <2>1 DEF Demoted
<1>6. Demoted(b, a) /\ Demoted(c, a)
  <2>1. a \in Reports
    BY <1>5
  <2>2. Demoted(WithRegion(a, ev.region), a) /\ Demoted(WithExprs(a, x), a)
    BY <1>1, <2>1, WithEvidenceEach
  <2> QED BY <1>3, <1>4, <2>2
<1>7. b \in Reports /\ c \in Reports
  BY <1>6 DEF Demoted
<1>8. Demoted(WithExprs(b, x), b) /\ Demoted(WithRegion(c, ev.region), c)
  BY <1>1, <1>6, <1>7, WithEvidenceEach
<1>9. Demoted(WithExprs(b, x), r) /\ Demoted(WithRegion(c, ev.region), r)
  BY <1>5, <1>6, <1>8, DemotedTransitive
<1> QED BY <1>2, <1>3, <1>4, <1>9, Zenon DEF Finalize, FinalizeRun

\* Every error of a gate is a well-formed SemanticGateError.
LEMMA StageErrorsType ==
    ASSUME NEW g \in GateNames, NEW n \in Nat, NEW e \in StageErrors(g, n)
    PROVE  e \in GateErrors
<1>1. g \in ErrorStages
  BY DEF GateNames, GateOrder, ErrorStages
<1>2. CASE g \in {"target", "object", "decode"}
  BY <1>1, <1>2, CoverageTypes DEF StageErrors, GateError, GateErrors, ErrorStages
<1>3. CASE g = "lowering"
  <2>1. PICK m \in 0 .. n - 1 :
            e = GateError(g, Some(Complete(n)), Some(Coverage(n, m, n - m)))
    BY <1>3 DEF StageErrors
  <2>2. Coverage(n, m, n - m) \in Coverages
    BY DEF Coverage, Coverages
  <2>3. Some(Complete(n)) \in OptCoverages /\ Some(Coverage(n, m, n - m)) \in OptCoverages
    BY <2>2, CoverageTypes
  <2> QED BY <1>1, <2>1, <2>3 DEF GateError, GateErrors
<1>4. CASE g \notin {"target", "object", "decode", "lowering"}
  <2>1. e = GateError(g, Some(Complete(n)), Some(Complete(n)))
    BY <1>4 DEF StageErrors
  <2>2. Some(Complete(n)) \in OptCoverages
    BY CoverageTypes
  <2> QED BY <1>1, <2>1, <2>2 DEF GateError, GateErrors
<1> QED BY <1>2, <1>3, <1>4

\* The reports the core can conclude with, action by action.
Concludes(r, c) ==
    /\ r \in Reports
    /\ reports' = [reports EXCEPT ![side] = r]
    /\ code' = c /\ pc' = "finished"
    /\ UNCHANGED outputVars

\* A failed gate concludes with a SemanticFailed report of that error.
LEMMA FailGateReport ==
    ASSUME TypeOK, FailGate
    PROVE  \E r \in Reports, e \in GateErrors :
              /\ Concludes(r, "1")
              /\ r.status = "SemanticFailed" /\ r.semantic = FromError(e)
              /\ e \in IF Capstone THEN StageErrors(GateOrder[stage], insns)
                                   ELSE {GateError("decode", None, None)}
<1>1. PICK e \in IF Capstone THEN StageErrors(GateOrder[stage], insns)
                             ELSE {GateError("decode", None, None)},
           x \in OptEvidence :
         Conclude(Finalize(FromParts(FromError(e), "Skipped", "none"), NoEvidence, x), "1")
  BY DEF FailGate
<1>2. e \in GateErrors
  <2>1. CASE Capstone
    <3>1. GateOrder[stage] \in GateNames /\ insns \in Nat
      BY DEF TypeOK, GateNames
    <3> QED BY <1>1, <2>1, <3>1, StageErrorsType
  <2>2. CASE ~Capstone
    BY <1>1, <2>2, CoverageTypes DEF GateError, GateErrors, ErrorStages
  <2> QED BY <2>1, <2>2
<1> DEFINE p == FromParts(FromError(e), "Skipped", "none")
<1>3. p \in Reports
  BY <1>2, FromErrorType, FromPartsType DEF GateStatuses, Behaviors
<1>4. p.status = "SemanticFailed" /\ p.semantic = FromError(e)
  BY <1>2, FromErrorFails DEF FromParts, StatusOf
<1>5. NoEvidence \in MemoryEvidence
  BY DEF MemoryEvidence
<1> HIDE DEF p
<1>6. /\ Finalize(p, NoEvidence, x) \in Reports
      /\ Finalize(p, NoEvidence, x).semantic = p.semantic
      /\ Finalize(p, NoEvidence, x).status = "SemanticFailed"
  BY <1>3, <1>4, <1>5, FinalizeFacts DEF Demoted
<1>7. Concludes(Finalize(p, NoEvidence, x), "1")
  BY <1>1, <1>6 DEF Concludes, Conclude, p
<1> QED BY <1>1, <1>2, <1>4, <1>6, <1>7

\* A report without a run is never an accepted one.
LEMMA StaticReport ==
    ASSUME TypeOK, NEW exe \in GateStatuses, ConcludeStatic(exe)
    PROVE  \E r \in Reports :
              /\ Concludes(r, "1")
              /\ r.status \notin Accepted
              /\ r.semantic = PassedGates /\ r.executable = exe
<1>1. PICK x \in OptEvidence :
         Conclude(Finalize(FromParts(PassedGates, exe, "none"), evidence, x), "1")
  BY DEF ConcludeStatic
<1>2. PassedGates \in Gates
  BY CompleteGatesPass DEF PassedGates, TypeOK
<1> DEFINE p == FromParts(PassedGates, exe, "none")
<1>3. p \in Reports
  BY <1>2, FromPartsType DEF Behaviors
<1>4. p.status \notin Accepted /\ p.semantic = PassedGates /\ p.executable = exe
  BY StatusOfVerified DEF FromParts
<1> HIDE DEF p
<1>5. /\ Finalize(p, evidence, x) \in Reports
      /\ Finalize(p, evidence, x).semantic = p.semantic
      /\ Finalize(p, evidence, x).executable = p.executable
      /\ Finalize(p, evidence, x).status \notin Accepted
  BY <1>3, <1>4, FinalizeFacts DEF TypeOK, Demoted
<1>6. Concludes(Finalize(p, evidence, x), "1")
  BY <1>1, <1>5 DEF Concludes, Conclude, p
<1> QED BY <1>4, <1>5, <1>6

\* A report after a run is accepted only if the vectors passed, and exit code 0
\* is only ever chosen for an accepted one.
LEMMA RunReport ==
    ASSUME TypeOK, NEW beh \in {"passed", "failed"}, NEW x \in OptEvidence,
           ConcludeRun(beh, x)
    PROVE  \E r \in Reports, c \in {"0", "1"} :
              /\ Concludes(r, c)
              /\ c = "0" => r.status \in Accepted
              /\ r.status \in Accepted => r.behavior = "passed"
              /\ r.semantic = PassedGates
<1> DEFINE p == FromParts(PassedGates, "Passed", beh)
           r == FinalizeRun(p, evidence, x)
           c == IF r.status \in Accepted THEN "0" ELSE "1"
<1>1. Conclude(r, c)
  BY DEF ConcludeRun
<1>2. PassedGates \in Gates
  BY CompleteGatesPass DEF PassedGates, TypeOK
<1>3. p \in Reports
  BY <1>2, FromPartsType DEF Behaviors, GateStatuses
<1>4. (p.status \in Accepted => p.behavior = "passed") /\ p.semantic = PassedGates
  BY StatusOfVerified DEF FromParts
<1>5. /\ r \in Reports
      /\ r.behavior = p.behavior /\ r.semantic = p.semantic
      /\ r.status \in Accepted => p.status \in Accepted
  <2> HIDE DEF p
  <2> QED BY <1>3, FinalizeFacts DEF TypeOK, Demoted
<1>6. c \in {"0", "1"} /\ (c = "0" => r.status \in Accepted)
  OBVIOUS
<1> HIDE DEF p, r, c
<1>7. Concludes(r, c)
  BY <1>1, <1>5 DEF Concludes, Conclude
<1> QED BY <1>4, <1>5, <1>6, <1>7

------------------------------------------------------------------------------
(* Type correctness.                                                       *)

BeforeGates == {"target", "toolchain", "contract", "source", "check", "vectors", "shape",
                "scratch", "stage"}

\* A step that goes on to `there`, and one that fails early.
Continues(there) == pc' = there /\ UNCHANGED outputVars
FailsEarly == \E c \in FailureCodes : EarlyFailure(c)

\* early_failure ends the process with a document and an exit code.
LEMMA FailsEarlyType ==
    ASSUME TypeOK, FailsEarly
    PROVE  /\ pc' = "done"
           /\ documents' \in Seq(AllDocuments)
           /\ exit' \in {"1", "2"}
<1>1. PICK c \in FailureCodes : EarlyFailure(c)
  BY DEF FailsEarly
<1>2. Envelope(c) \in AllDocuments
  BY DEF AllDocuments
<1>3. documents \in Seq(AllDocuments)
  BY DEF TypeOK
<1> QED BY <1>1, <1>2, <1>3 DEF EarlyFailure

\* A tool step goes on or fails early.
LEMMA ToolStepCases ==
    ASSUME NEW here, NEW there, NEW f \in FailureCodes, NEW e \in FailureCodes,
           ToolStep(here, there, f, e)
    PROVE  pc = here /\ (Continues(there) \/ FailsEarly)
BY DEF ToolStep, Continues, FailsEarly

\* The seven steps before the scratch directory.
PreStep == \/ ParseTarget \/ FindToolchain \/ ReadContract \/ ReadSource \/ CheckContract
           \/ LoadVectors \/ ResolveShape

PreFrame == <<args, side, file, scratch, gateVars, historyVars, resultVars>>

\* What the seven steps before the scratch directory may change.
LEMMA PreStepCases ==
    ASSUME TypeOK, PreStep
    PROVE  /\ pc \in BeforeGates
           /\ (\E there \in BeforeGates : Continues(there)) \/ FailsEarly
           /\ UNCHANGED PreFrame
           /\ digest' \in [Sides -> [contract : Nat, source : Nat]]
<1>1. ASSUME NEW here \in BeforeGates, NEW there \in BeforeGates,
             NEW codes \in SUBSET FailureCodes, Precheck(here, there, codes)
      PROVE  /\ pc \in BeforeGates
             /\ (\E t \in BeforeGates : Continues(t)) \/ FailsEarly
             /\ UNCHANGED PreFrame
  BY <1>1 DEF Precheck, Continues, FailsEarly, PreFrame
<1>2. /\ digest \in [Sides -> [contract : Nat, source : Nat]]
      /\ side \in Sides /\ file["contract"] \in Nat /\ file[Source(side)] \in Nat
  BY DEF TypeOK, Files, Source
<1>3. CASE ParseTarget
  <2>1. (IF side = 1 THEN {"INVALID_TARGET"} ELSE {}) \in SUBSET FailureCodes
    BY DEF FailureCodes
  <2> QED BY <1>1, <1>2, <1>3, <2>1 DEF ParseTarget, BeforeGates
<1>4. CASE FindToolchain
  BY <1>1, <1>2, <1>4 DEF FindToolchain, BeforeGates, FailureCodes
<1>5. CASE ReadContract
  <2>1. digest' \in [Sides -> [contract : Nat, source : Nat]]
    BY <1>2, <1>5 DEF ReadContract
  <2> QED BY <1>1, <1>5, <2>1 DEF ReadContract, BeforeGates, FailureCodes
<1>6. CASE ReadSource
  <2>1. digest' \in [Sides -> [contract : Nat, source : Nat]]
    BY <1>2, <1>6 DEF ReadSource
  <2> QED BY <1>1, <1>6, <2>1 DEF ReadSource, BeforeGates, FailureCodes
<1>7. CASE CheckContract
  BY <1>1, <1>2, <1>7 DEF CheckContract, BeforeGates, FailureCodes
<1>8. CASE LoadVectors
  <2>1. (IF args.vectors_file
         THEN {"VECTORS_IO", "VECTORS_INVALID", "VECTORS_BINDING_MISMATCH"} ELSE {})
        \in SUBSET FailureCodes
    BY DEF FailureCodes
  <2> QED BY <1>1, <1>2, <1>8, <2>1 DEF LoadVectors, BeforeGates
<1>9. CASE ResolveShape
  BY <1>1, <1>2, <1>9 DEF ResolveShape, BeforeGates, FailureCodes
<1> QED BY <1>3, <1>4, <1>5, <1>6, <1>7, <1>8, <1>9 DEF PreStep

ScratchType == [Sides -> [exists : BOOLEAN, routine : Candidates, image : Candidates]]

\* The scratch directory in use and what it may hold.
LEMMA DirFacts ==
    ASSUME TypeOK
    PROVE  /\ Dir \in Sides
           /\ EmptyDir \in [exists : BOOLEAN, routine : Candidates, image : Candidates]
           /\ Candidate \in Candidates /\ Candidate.side = side
           /\ RemoveScratch => scratch' \in ScratchType
<1>1. Dir \in Sides
  BY DEF Dir, TypeOK
<1>2. EmptyDir \in [exists : BOOLEAN, routine : Candidates, image : Candidates]
  BY DEF EmptyDir, Candidates
<1>3. file[Source(side)] \in Nat
  BY DEF TypeOK, Source, Files
<1>4. Candidate \in Candidates /\ Candidate.side = side
  BY <1>3 DEF Candidate, Candidates, TypeOK
<1>5. RemoveScratch => scratch' \in ScratchType
  BY <1>1, <1>2 DEF RemoveScratch, ScratchType, TypeOK
<1> QED BY <1>1, <1>2, <1>4, <1>5

\* StageCandidate leaves this side's object in the directory or removes it.
LEMMA StageShape ==
    ASSUME TypeOK, StageCandidate
    PROVE  /\ pc = "stage" /\ stage' = 1
           /\ UNCHANGED <<args, side, file, digest, insns, evidence, historyVars, resultVars>>
           /\ \/ /\ Continues("gates")
                 /\ scratch' = [scratch EXCEPT ![Dir].routine = Candidate]
              \/ FailsEarly /\ RemoveScratch
<1>1. "SOURCE_IO" \in FailureCodes /\ "ASSEMBLE_FAILED" \in FailureCodes
      /\ "ASSEMBLE_ERROR" \in FailureCodes
  BY DEF FailureCodes
<1>2. pc = "stage" /\ (Continues("gates") \/ FailsEarly)
  <2>1. CASE ToolStep("stage", "gates", "ASSEMBLE_FAILED", "ASSEMBLE_ERROR")
    BY <1>1, <2>1, ToolStepCases
  <2>2. CASE pc = "stage" /\ ((pc' = "gates" /\ UNCHANGED outputVars)
                              \/ EarlyFailure("SOURCE_IO"))
    BY <1>1, <2>2 DEF Continues, FailsEarly
  <2> QED BY <2>1, <2>2 DEF StageCandidate
<1>3. FailsEarly => pc' = "done"
  BY FailsEarlyType
<1> QED BY <1>2, <1>3 DEF StageCandidate, Continues

\* The three steps of the harness go on or fail early and remove the directory.
LEMMA HarnessShapes ==
    ASSUME TypeOK
    PROVE  /\ WriteHarness =>
                /\ pc = "write_harness"
                /\ \/ Continues("assemble_harness") /\ UNCHANGED scratch
                   \/ FailsEarly /\ RemoveScratch
           /\ AssembleHarness =>
                /\ pc = "assemble_harness"
                /\ \/ Continues("link") /\ UNCHANGED scratch
                   \/ FailsEarly /\ RemoveScratch
           /\ LinkImage =>
                /\ pc = "link"
                /\ \/ /\ Continues("executable")
                      /\ scratch' = [scratch EXCEPT ![Dir].image = scratch[Dir].routine]
                   \/ FailsEarly /\ RemoveScratch
<1>1. {"HARNESS_IO", "ASSEMBLE_HARNESS_FAILED", "ASSEMBLE_HARNESS_ERROR", "LINK_FAILED",
       "LINK_ERROR"} \subseteq FailureCodes
  BY DEF FailureCodes
<1>2. FailsEarly => pc' = "done"
  BY FailsEarlyType
<1>3. ASSUME WriteHarness
      PROVE  /\ pc = "write_harness"
             /\ \/ Continues("assemble_harness") /\ UNCHANGED scratch
                \/ FailsEarly /\ RemoveScratch
  BY <1>1, <1>3 DEF WriteHarness, Continues, FailsEarly
<1>4. ASSUME AssembleHarness
      PROVE  /\ pc = "assemble_harness"
             /\ \/ Continues("link") /\ UNCHANGED scratch
                \/ FailsEarly /\ RemoveScratch
  <2>1. pc = "assemble_harness" /\ (Continues("link") \/ FailsEarly)
    BY <1>1, <1>4, ToolStepCases DEF AssembleHarness
  <2> QED BY <1>2, <1>4, <2>1 DEF AssembleHarness, Continues
<1>5. ASSUME LinkImage
      PROVE  /\ pc = "link"
             /\ \/ /\ Continues("executable")
                   /\ scratch' = [scratch EXCEPT ![Dir].image = scratch[Dir].routine]
                \/ FailsEarly /\ RemoveScratch
  <2>1. pc = "link" /\ (Continues("executable") \/ FailsEarly)
    BY <1>1, <1>5, ToolStepCases DEF LinkImage
  <2> QED BY <1>2, <1>5, <2>1 DEF LinkImage, Continues
<1> QED BY <1>3, <1>4, <1>5

\* The initial state has its types.
LEMMA InitType == Init => TypeOK
<1> SUFFICES ASSUME Init PROVE TypeOK
  OBVIOUS
<1>1. EmptyDir \in [exists : BOOLEAN, routine : Candidates, image : Candidates]
  BY DEF EmptyDir, Candidates
<1>2. NoEvidence \in MemoryEvidence
  BY DEF MemoryEvidence
<1>3. documents \in Seq(AllDocuments)
  BY DEF Init
<1> QED BY <1>1, <1>2, <1>3 DEF Init, TypeOK, PCs, Files, Candidates, NoCandidate

\* What a conclusion does to the typed results.
LEMMA ConcludesType ==
    ASSUME TypeOK, NEW r, NEW c \in {"0", "1"}, Concludes(r, c)
    PROVE  /\ reports' \in [Sides -> Reports \cup {NoReport}]
           /\ code' \in {"none", "0", "1"} /\ pc' \in PCs
           /\ documents' = documents /\ exit' = exit
BY DEF Concludes, TypeOK, PCs, outputVars

\* A finished core has left a report and a code; the second side only runs
\* after the first one has left its report.
ResultInv ==
    /\ pc \in {"finished", "card"} => reports[side] \in Reports /\ code \in {"0", "1"}
    /\ side = 2 => args.command = "compare" /\ reports[1] \in Reports

\* The documents of the two commands.
LEMMA DocumentTypes ==
    ASSUME NEW a \in Reports, NEW b \in Reports
    PROVE  /\ ReportDocument(a.status) \in AllDocuments
           /\ CompareDocument(a.status, b.status) \in AllDocuments
<1>1. a.status \in Statuses /\ b.status \in Statuses
  BY DEF Reports
<1>2. ReportDocument(a.status) \in AllDocuments
  BY <1>1 DEF AllDocuments
<1>3. CompareDocument(a.status, b.status) \in AllDocuments
  <2> DEFINE p == <<a.status, b.status>>
  <2>1. p \in Statuses \X Statuses /\ p[1] = a.status /\ p[2] = b.status
    BY <1>1
  <2> HIDE DEF p
  <2>2. CompareDocument(p[1], p[2]) \in {CompareDocument(q[1], q[2]) : q \in Statuses \X Statuses}
    BY <2>1
  <2> QED BY <2>1, <2>2 DEF AllDocuments
<1> QED BY <1>2, <1>3

\* Every step preserves the types.
LEMMA NextType == TypeOK /\ ResultInv /\ [Next]_vars => TypeOK'
<1> SUFFICES ASSUME TypeOK, ResultInv, [Next]_vars PROVE TypeOK'
  OBVIOUS
<1> USE DEF historyVars, gateVars, resultVars, outputVars
<1>1. CASE PreStep
  <2>1. CASE FailsEarly
    BY <1>1, <2>1, PreStepCases, FailsEarlyType DEF TypeOK, PreFrame, PCs
  <2>2. CASE \E there \in BeforeGates : Continues(there)
    BY <1>1, <2>2, PreStepCases DEF TypeOK, PreFrame, PCs, Continues, BeforeGates
  <2> QED BY <1>1, <2>1, <2>2, PreStepCases
<1>2. CASE CreateScratch
  <2>1. scratch' \in ScratchType
    <3>1. UNCHANGED scratch \/ scratch' = [scratch EXCEPT ![Dir].exists = TRUE]
      BY <1>2 DEF CreateScratch
    <3>2. Dir \in Sides /\ scratch \in ScratchType
      BY DirFacts DEF TypeOK, ScratchType
    <3> QED BY <3>1, <3>2 DEF ScratchType
  <2>2. CASE EarlyFailure("SCRATCH_IO")
    <3>1. FailsEarly
      BY <2>2 DEF FailsEarly, FailureCodes
    <3> QED BY <1>2, <2>1, <3>1, FailsEarlyType DEF CreateScratch, TypeOK, PCs, ScratchType
  <2>3. CASE pc' = "stage" /\ UNCHANGED outputVars
    BY <1>2, <2>1, <2>3 DEF CreateScratch, TypeOK, PCs, ScratchType
  <2> QED BY <1>2, <2>2, <2>3 DEF CreateScratch
<1>3. CASE StageCandidate
  <2>1. CASE FailsEarly /\ RemoveScratch
    BY <1>3, <2>1, StageShape, FailsEarlyType, DirFacts DEF TypeOK, PCs, ScratchType
  <2>2. CASE /\ Continues("gates")
             /\ scratch' = [scratch EXCEPT ![Dir].routine = Candidate]
    <3>1. scratch' \in ScratchType
      BY <2>2, DirFacts DEF TypeOK, ScratchType
    <3> QED BY <1>3, <2>2, <3>1, StageShape DEF TypeOK, PCs, ScratchType, Continues
  <2> QED BY <1>3, <2>1, <2>2, StageShape
<1>4. CASE PassGate
  <2>1. GateOrder[stage] \in GateNames
    BY DEF TypeOK, GateNames
  <2>2. passed' \in [Sides -> SUBSET (GateNames \cup {"executable"})]
    BY <1>4, <2>1 DEF PassGate, TypeOK
  <2>3. checked' \in [Sides -> Candidates]
    BY <1>4, DirFacts DEF PassGate, TypeOK
  <2>4. insns' \in Nat
    BY <1>4, VerifyAssumption DEF PassGate, TypeOK
  <2>5. pc' \in PCs /\ stage' \in 1 .. 8 /\ evidence' \in MemoryEvidence
    BY <1>4, SMTT(30) DEF PassGate, TypeOK, PCs
  <2> QED BY <1>4, <2>2, <2>3, <2>4, <2>5 DEF PassGate, TypeOK
<1>5. CASE FailGate
  <2>1. PICK r \in Reports : Concludes(r, "1")
    BY <1>5, FailGateReport
  <2>2. scratch' \in ScratchType
    BY <1>5, DirFacts DEF FailGate
  <2> QED BY <1>5, <2>1, <2>2, ConcludesType DEF FailGate, TypeOK, ScratchType
<1>6. CASE GenerateHarness
  <2>1. CASE pc' = "write_harness" /\ UNCHANGED <<resultVars, outputVars>>
    BY <1>6, <2>1 DEF GenerateHarness, TypeOK, PCs
  <2>2. CASE ConcludeStatic("Skipped")
    <3>1. PICK r \in Reports : Concludes(r, "1")
      BY <2>2, StaticReport DEF GateStatuses
    <3> QED BY <1>6, <3>1, ConcludesType DEF GenerateHarness, TypeOK
  <2> QED BY <1>6, <2>1, <2>2 DEF GenerateHarness
<1>7. CASE WriteHarness
  BY <1>7, HarnessShapes, FailsEarlyType, DirFacts
     DEF WriteHarness, TypeOK, PCs, ScratchType, Continues
<1>8. CASE AssembleHarness
  BY <1>8, HarnessShapes, FailsEarlyType, DirFacts
     DEF AssembleHarness, TypeOK, PCs, ScratchType, Continues
<1>9. CASE LinkImage
  <2>1. CASE FailsEarly /\ RemoveScratch
    BY <1>9, <2>1, FailsEarlyType, DirFacts DEF LinkImage, TypeOK, PCs, ScratchType
  <2>2. CASE /\ Continues("executable")
             /\ scratch' = [scratch EXCEPT ![Dir].image = scratch[Dir].routine]
    <3>1. scratch' \in ScratchType
      BY <2>2, DirFacts DEF TypeOK, ScratchType
    <3> QED BY <1>9, <2>2, <3>1 DEF LinkImage, TypeOK, PCs, ScratchType, Continues
  <2> QED BY <1>9, <2>1, <2>2, HarnessShapes
<1>10. CASE CheckExecutable
  <2>1. CASE /\ pc' = "consent"
             /\ passed' = [passed EXCEPT ![side] = @ \cup {"executable"}]
             /\ UNCHANGED <<scratch, resultVars, outputVars>>
    <3>1. passed' \in [Sides -> SUBSET (GateNames \cup {"executable"})]
      BY <2>1 DEF TypeOK
    <3> QED BY <1>10, <2>1, <3>1 DEF CheckExecutable, TypeOK, PCs
  <2>2. CASE ConcludeStatic("Failed") /\ RemoveScratch /\ UNCHANGED passed
    <3>1. PICK r \in Reports : Concludes(r, "1")
      BY <2>2, StaticReport DEF GateStatuses
    <3> QED BY <1>10, <2>2, <3>1, ConcludesType, DirFacts
            DEF CheckExecutable, TypeOK, ScratchType
  <2> QED BY <1>10, <2>1, <2>2 DEF CheckExecutable
<1>11. CASE Consent
  <2>1. CASE pc' = "run" /\ UNCHANGED <<scratch, resultVars, outputVars>>
    BY <1>11, <2>1 DEF Consent, TypeOK, PCs
  <2>2. CASE ConcludeStatic("Passed") /\ RemoveScratch
    <3>1. PICK r \in Reports : Concludes(r, "1")
      BY <2>2, StaticReport DEF GateStatuses
    <3> QED BY <1>11, <2>2, <3>1, ConcludesType, DirFacts DEF Consent, TypeOK, ScratchType
  <2> QED BY <1>11, <2>1, <2>2 DEF Consent
<1>12. CASE RunCandidate
  <2>1. launched' \subseteq [side : Sides, image : Candidates]
    BY <1>12, DirFacts DEF RunCandidate, TypeOK
  <2>2. scratch' \in ScratchType
    BY <1>12, DirFacts DEF RunCandidate
  <2>3. CASE exit' = "1" /\ pc' = "done" /\ UNCHANGED <<resultVars, documents>>
    BY <1>12, <2>1, <2>2, <2>3 DEF RunCandidate, TypeOK, PCs, ScratchType
  <2>4. CASE \E beh \in {"passed", "failed"}, x \in OptEvidence : ConcludeRun(beh, x)
    <3>1. PICK r \in Reports, c \in {"0", "1"} : Concludes(r, c)
      BY <2>4, RunReport
    <3> QED BY <1>12, <2>1, <2>2, <3>1, ConcludesType DEF RunCandidate, TypeOK, ScratchType
  <2> QED BY <1>12, <2>3, <2>4 DEF RunCandidate
<1>13. CASE EmitReport
  <2>1. side = 1
    BY <1>13 DEF EmitReport, ResultInv, TypeOK
  <2>2. reports[1] \in Reports /\ code \in {"0", "1"}
    BY <1>13, <2>1 DEF EmitReport, ResultInv
  <2>3. ReportDocument(reports[1].status) \in AllDocuments
    BY <2>2, DocumentTypes
  <2>4. documents' \in Seq(AllDocuments)
    BY <1>13, <2>3 DEF EmitReport, TypeOK
  <2> QED BY <1>13, <2>2, <2>4 DEF EmitReport, TypeOK, PCs
<1>14. CASE WriteCard
  BY <1>14 DEF WriteCard, Goto, ResultInv, TypeOK, PCs
<1>15. CASE SecondSide
  <2>1. NoEvidence \in MemoryEvidence
    BY DEF MemoryEvidence
  <2> QED BY <1>15, <2>1 DEF SecondSide, TypeOK, PCs
<1>16. CASE EmitCompare
  <2>1. reports[1] \in Reports /\ reports[2] \in Reports
    BY <1>16 DEF EmitCompare, ResultInv
  <2>2. CompareDocument(reports[1].status, reports[2].status) \in AllDocuments
    BY <2>1, DocumentTypes
  <2>3. documents' \in Seq(AllDocuments)
    BY <1>16, <2>2 DEF EmitCompare, TypeOK
  <2> QED BY <1>16, <2>3 DEF EmitCompare, TypeOK, PCs
<1>17. CASE \E f \in Files : EditFile(f)
  BY <1>17 DEF EditFile, TypeOK
<1>18. CASE UNCHANGED vars
  BY <1>18 DEF vars, TypeOK
<1> QED BY <1>1, <1>2, <1>3, <1>4, <1>5, <1>6, <1>7, <1>8, <1>9, <1>10, <1>11, <1>12,
           <1>13, <1>14, <1>15, <1>16, <1>17, <1>18 DEF Next, PreStep, Exited

\* Every step preserves the results.
LEMMA NextResult == TypeOK /\ ResultInv /\ [Next]_vars => ResultInv'
<1> SUFFICES ASSUME TypeOK, ResultInv, [Next]_vars PROVE ResultInv'
  OBVIOUS
<1> USE DEF historyVars, gateVars, resultVars, outputVars
<1>1. ASSUME NEW r \in Reports, NEW c \in {"0", "1"}, Concludes(r, c), UNCHANGED <<args, side>>
      PROVE  ResultInv'
  BY <1>1 DEF Concludes, ResultInv, TypeOK
<1>2. ASSUME pc' \notin {"finished", "card"}, UNCHANGED <<args, side, reports>>
      PROVE  ResultInv'
  BY <1>2 DEF ResultInv
<1>3. CASE PreStep
  BY <1>2, <1>3, PreStepCases, FailsEarlyType DEF PreFrame, Continues, BeforeGates
<1>4. CASE CreateScratch
  BY <1>2, <1>4 DEF CreateScratch, EarlyFailure
<1>5. CASE StageCandidate
  BY <1>2, <1>5, StageShape, FailsEarlyType DEF Continues
<1>6. CASE PassGate
  BY <1>2, <1>6 DEF PassGate
<1>7. CASE FailGate
  BY <1>1, <1>7, FailGateReport DEF FailGate
<1>8. CASE GenerateHarness
  <2>1. CASE pc' = "write_harness" /\ UNCHANGED <<resultVars, outputVars>>
    BY <1>2, <1>8, <2>1 DEF GenerateHarness
  <2>2. CASE ConcludeStatic("Skipped")
    BY <1>1, <1>8, <2>2, StaticReport DEF GenerateHarness, GateStatuses
  <2> QED BY <1>8, <2>1, <2>2 DEF GenerateHarness
<1>9. CASE WriteHarness \/ AssembleHarness \/ LinkImage
  BY <1>2, <1>9, HarnessShapes, FailsEarlyType
     DEF WriteHarness, AssembleHarness, LinkImage, Continues
<1>10. CASE CheckExecutable
  <2>1. CASE pc' = "consent" /\ UNCHANGED resultVars
    BY <1>2, <1>10, <2>1 DEF CheckExecutable
  <2>2. CASE ConcludeStatic("Failed")
    BY <1>1, <1>10, <2>2, StaticReport DEF CheckExecutable, GateStatuses
  <2> QED BY <1>10, <2>1, <2>2 DEF CheckExecutable
<1>11. CASE Consent
  <2>1. CASE pc' = "run" /\ UNCHANGED resultVars
    BY <1>2, <1>11, <2>1 DEF Consent
  <2>2. CASE ConcludeStatic("Passed")
    BY <1>1, <1>11, <2>2, StaticReport DEF Consent, GateStatuses
  <2> QED BY <1>11, <2>1, <2>2 DEF Consent
<1>12. CASE RunCandidate
  <2>1. CASE pc' = "done" /\ UNCHANGED resultVars
    BY <1>2, <1>12, <2>1 DEF RunCandidate
  <2>2. CASE \E beh \in {"passed", "failed"}, x \in OptEvidence : ConcludeRun(beh, x)
    BY <1>1, <1>12, <2>2, RunReport DEF RunCandidate
  <2> QED BY <1>12, <2>1, <2>2 DEF RunCandidate
<1>13. CASE EmitReport \/ WriteCard \/ SecondSide \/ EmitCompare
  BY <1>13 DEF EmitReport, WriteCard, SecondSide, EmitCompare, Goto, ResultInv
<1>14. CASE (\E f \in Files : EditFile(f)) \/ UNCHANGED vars
  BY <1>14 DEF EditFile, vars, ResultInv
<1> QED BY <1>3, <1>4, <1>5, <1>6, <1>7, <1>8, <1>9, <1>10, <1>11, <1>12, <1>13, <1>14
        DEF Next, PreStep, Exited

\* Every reachable state has the types TypeOK gives it, for any set of command
\* lines and any bounds: in particular what is printed is always a document of a
\* report that exists, and the exit code is always one that was assigned.
THEOREM TypeCorrect == Spec => []TypeOK
<1>1. Init => TypeOK /\ ResultInv
  BY InitType DEF Init, ResultInv
<1>2. TypeOK /\ ResultInv /\ [Next]_vars => (TypeOK /\ ResultInv)'
  BY NextType, NextResult
<1> QED BY <1>1, <1>2, PTL DEF Spec

------------------------------------------------------------------------------
(* The inductive invariant behind the safety properties.                   *)

StaticPhase == {"harness", "write_harness", "assemble_harness", "link", "executable"}
ReadyPhase == {"consent", "run"}
Over == {"finished", "card", "done"}
AllGates == GateNames \cup {"executable"}
Routine == scratch[Dir].routine

\* Where the core is, what the candidate has passed, and that the object in the
\* scratch directory is this side's and the one the gates examine.
FlowInv ==
    /\ pc \in BeforeGates => passed[side] = {}
    /\ side = 1 => passed[2] = {}
    /\ pc = "gates" => /\ passed[side] = {GateOrder[i] : i \in 1 .. stage - 1}
                       /\ Routine.side = side
    /\ pc \in StaticPhase => passed[side] = GateNames
    /\ pc \in ReadyPhase => passed[side] = AllGates
    /\ pc \in StaticPhase \cup ReadyPhase => checked[side] = Routine /\ Routine.side = side
    /\ pc \in {"executable", "consent", "run"} => scratch[Dir].image = Routine
    /\ pc = "run" => args.allow_execution

\* The gates passed after one more, and after the last.
LEMMA GatePrefix ==
    ASSUME NEW n \in 1 .. 8
    PROVE  /\ {GateOrder[i] : i \in 1 .. n - 1} \cup {GateOrder[n]} =
                  {GateOrder[i] : i \in 1 .. (n + 1) - 1}
           /\ n = 8 => {GateOrder[i] : i \in 1 .. (n + 1) - 1} = GateNames
           /\ {GateOrder[i] : i \in 1 .. 1 - 1} = {}
<1>1. \A i : i \in 1 .. (n + 1) - 1 <=> i \in 1 .. n - 1 \/ i = n
  OBVIOUS
<1>2. {GateOrder[i] : i \in 1 .. n - 1} \cup {GateOrder[n]} =
         {GateOrder[i] : i \in 1 .. (n + 1) - 1}
  BY <1>1
<1>3. n = 8 => (n + 1) - 1 = 8
  OBVIOUS
<1>4. \A i : i \notin 1 .. 1 - 1
  OBVIOUS
<1>5. {GateOrder[i] : i \in 1 .. 1 - 1} = {}
  BY <1>4
<1> QED BY <1>2, <1>3, <1>5 DEF GateNames

\* Every step preserves FlowInv.
LEMMA NextFlow == TypeOK /\ FlowInv /\ [Next]_vars => FlowInv'
<1> SUFFICES ASSUME TypeOK, FlowInv, [Next]_vars PROVE FlowInv'
  OBVIOUS
<1> USE DEF historyVars, gateVars, resultVars, outputVars, Routine, StaticPhase, ReadyPhase
<1>1. ASSUME pc' \in Over, UNCHANGED <<side, passed>>
      PROVE  FlowInv'
  BY <1>1 DEF FlowInv, Over, BeforeGates
<1>2. ASSUME pc \in BeforeGates, pc' \in BeforeGates, UNCHANGED <<side, passed>>
      PROVE  FlowInv'
  BY <1>2 DEF FlowInv, BeforeGates
<1>3. Dir \in Sides /\ (UNCHANGED <<args, side>> => Dir' = Dir)
  BY DirFacts DEF Dir
<1>4. FailsEarly => pc' \in Over
  BY FailsEarlyType DEF Over
<1>5. \A r, c : Concludes(r, c) => pc' \in Over
  BY DEF Concludes, Over
<1>6. CASE PreStep
  BY <1>1, <1>2, <1>4, <1>6, PreStepCases DEF PreFrame, Continues
<1>7. CASE CreateScratch
  BY <1>1, <1>2, <1>7 DEF CreateScratch, EarlyFailure, Over, BeforeGates
<1>8. CASE StageCandidate
  <2>1. CASE FailsEarly
    BY <1>1, <1>4, <1>8, <2>1, StageShape
  <2>2. CASE /\ Continues("gates")
             /\ scratch' = [scratch EXCEPT ![Dir].routine = Candidate]
    <3>1. pc = "stage" /\ stage' = 1 /\ UNCHANGED <<args, side, passed>> /\ pc' = "gates"
      BY <1>8, <2>2, StageShape DEF Continues
    <3>2. Routine'.side = side'
      BY <1>3, <2>2, <3>1, DirFacts DEF TypeOK
    <3>3. passed'[side'] = {} /\ (side' = 1 => passed'[2] = {})
      BY <3>1 DEF FlowInv, BeforeGates
    <3>4. {GateOrder[i] : i \in 1 .. stage' - 1} = {}
      BY <3>1, GatePrefix
    <3> QED BY <3>1, <3>2, <3>3, <3>4 DEF FlowInv, BeforeGates
  <2> QED BY <1>8, <2>1, <2>2, StageShape
<1>9. CASE PassGate
  <2>1. /\ pc = "gates" /\ side \in Sides /\ stage \in 1 .. 8
        /\ passed \in [Sides -> SUBSET AllGates] /\ checked \in [Sides -> Candidates]
    BY <1>9 DEF PassGate, TypeOK, AllGates
  <2>2. /\ UNCHANGED <<args, side, scratch>>
        /\ passed' = [passed EXCEPT ![side] = @ \cup {GateOrder[stage]}]
        /\ checked' = [checked EXCEPT ![side] = scratch[Dir].routine]
    BY <1>9 DEF PassGate
  <2>3. /\ passed[side] = {GateOrder[i] : i \in 1 .. stage - 1}
        /\ Routine.side = side /\ (side = 1 => passed[2] = {})
    BY <2>1 DEF FlowInv
  <2>4. passed'[side] = {GateOrder[i] : i \in 1 .. (stage + 1) - 1}
    BY <2>1, <2>2, <2>3, GatePrefix
  <2>5. checked'[side] = Routine' /\ Routine'.side = side' /\ (side' = 1 => passed'[2] = {})
    BY <1>3, <2>1, <2>2, <2>3
  <2>6. CASE stage = 8
    <3>1. pc' = "harness"
      BY <1>9, <2>6 DEF PassGate
    <3>2. passed'[side'] = GateNames
      BY <2>1, <2>2, <2>4, <2>6, GatePrefix
    <3> QED BY <2>2, <2>5, <3>1, <3>2 DEF FlowInv, BeforeGates
  <2>7. CASE stage # 8
    <3>1. pc' = "gates" /\ stage' = stage + 1
      BY <1>9, <2>1, <2>7 DEF PassGate
    <3>2. passed'[side'] = {GateOrder[i] : i \in 1 .. stage' - 1}
      BY <2>2, <2>4, <3>1
    <3> QED BY <2>2, <2>5, <3>1, <3>2 DEF FlowInv, BeforeGates
  <2> QED BY <2>6, <2>7
<1>10. CASE FailGate
  BY <1>1, <1>5, <1>10, FailGateReport DEF FailGate
<1>11. CASE GenerateHarness
  <2>1. CASE pc' = "write_harness"
    BY <1>3, <1>11, <2>1 DEF GenerateHarness, FlowInv, BeforeGates
  <2>2. CASE ConcludeStatic("Skipped")
    BY <1>1, <1>5, <1>11, <2>2, StaticReport DEF GenerateHarness, GateStatuses
  <2> QED BY <1>11, <2>1, <2>2 DEF GenerateHarness
<1>12. CASE WriteHarness \/ AssembleHarness
  <2>1. UNCHANGED <<args, side, passed, checked>>
    BY <1>12 DEF WriteHarness, AssembleHarness
  <2>2. CASE FailsEarly
    BY <1>1, <1>4, <2>1, <2>2
  <2>3. CASE /\ pc \in {"write_harness", "assemble_harness"} /\ UNCHANGED scratch
             /\ pc' \in {"assemble_harness", "link"}
    BY <1>3, <2>1, <2>3 DEF FlowInv, BeforeGates
  <2> QED BY <1>12, <2>2, <2>3, HarnessShapes DEF Continues
<1>13. CASE LinkImage
  <2>1. UNCHANGED <<args, side, passed, checked>> /\ pc = "link"
    BY <1>13, HarnessShapes DEF LinkImage
  <2>2. CASE FailsEarly
    BY <1>1, <1>4, <2>1, <2>2
  <2>3. CASE /\ Continues("executable")
             /\ scratch' = [scratch EXCEPT ![Dir].image = scratch[Dir].routine]
    <3>1. scratch'[Dir].routine = scratch[Dir].routine
          /\ scratch'[Dir].image = scratch[Dir].routine
      BY <1>3, <2>3 DEF TypeOK
    <3> QED BY <1>3, <2>1, <2>3, <3>1 DEF FlowInv, BeforeGates, Continues
  <2> QED BY <1>13, <2>2, <2>3, HarnessShapes
<1>14. CASE CheckExecutable
  <2>1. CASE /\ pc' = "consent"
             /\ passed' = [passed EXCEPT ![side] = @ \cup {"executable"}]
             /\ UNCHANGED scratch
    <3>1. pc = "executable" /\ UNCHANGED <<args, side, checked>>
      BY <1>14 DEF CheckExecutable
    <3>2. passed'[side'] = AllGates /\ (side' = 1 => passed'[2] = {})
      BY <2>1, <3>1 DEF FlowInv, TypeOK, AllGates
    <3> QED BY <1>3, <2>1, <3>1, <3>2 DEF FlowInv, BeforeGates
  <2>2. CASE ConcludeStatic("Failed") /\ UNCHANGED passed
    BY <1>1, <1>5, <1>14, <2>2, StaticReport DEF CheckExecutable, GateStatuses
  <2> QED BY <1>14, <2>1, <2>2 DEF CheckExecutable
<1>15. CASE Consent
  <2>1. CASE args.allow_execution /\ pc' = "run" /\ UNCHANGED scratch
    BY <1>3, <1>15, <2>1 DEF Consent, FlowInv, BeforeGates
  <2>2. CASE ConcludeStatic("Passed")
    BY <1>1, <1>5, <1>15, <2>2, StaticReport DEF Consent, GateStatuses
  <2> QED BY <1>15, <2>1, <2>2 DEF Consent
<1>16. CASE RunCandidate
  <2>1. CASE pc' = "done"
    BY <1>1, <1>16, <2>1 DEF RunCandidate, Over
  <2>2. CASE \E beh \in {"passed", "failed"}, x \in OptEvidence : ConcludeRun(beh, x)
    BY <1>1, <1>5, <1>16, <2>2, RunReport DEF RunCandidate
  <2> QED BY <1>16, <2>1, <2>2 DEF RunCandidate
<1>17. CASE EmitReport \/ WriteCard \/ EmitCompare
  BY <1>1, <1>17 DEF EmitReport, WriteCard, EmitCompare, Goto, Over
<1>18. CASE SecondSide
  BY <1>18 DEF SecondSide, FlowInv, BeforeGates
<1>19. CASE (\E f \in Files : EditFile(f)) \/ UNCHANGED vars
  BY <1>3, <1>19 DEF EditFile, vars, FlowInv
<1> QED BY <1>6, <1>7, <1>8, <1>9, <1>10, <1>11, <1>12, <1>13, <1>14, <1>15, <1>16, <1>17,
           <1>18, <1>19 DEF Next, PreStep, Exited

\* FlowInv holds initially.
LEMMA InitFlow == Init => FlowInv
BY DEF Init, FlowInv, BeforeGates, StaticPhase, ReadyPhase

\* Who has been launched: a candidate whose turn is over, gated as claimed.
LaunchInv ==
    \A l \in launched :
        /\ l.side < side \/ (l.side = side /\ pc \in Over)
        /\ args.allow_execution
        /\ passed[l.side] = AllGates
        /\ l.image = checked[l.side] /\ l.image.side = l.side

\* Every step preserves LaunchInv: the gates write the history of the side whose
\* turn it is, and only the run adds a launch.
LEMMA NextLaunch == TypeOK /\ FlowInv /\ LaunchInv /\ [Next]_vars => LaunchInv'
<1> SUFFICES ASSUME TypeOK, FlowInv, LaunchInv, [Next]_vars PROVE LaunchInv'
  OBVIOUS
<1> USE DEF historyVars, gateVars, resultVars, outputVars
<1>1. /\ side \in Sides
      /\ \A l \in launched : l.side \in Sides
  BY DEF TypeOK
<1>2. ASSUME UNCHANGED <<args, side, launched, passed, checked>>,
             pc \in Over => pc' \in Over
      PROVE  LaunchInv'
  BY <1>2 DEF LaunchInv
<1>3. ASSUME pc \notin Over, UNCHANGED <<args, side, launched>>,
             \A s \in Sides : s # side => passed'[s] = passed[s] /\ checked'[s] = checked[s]
      PROVE  LaunchInv'
  <2> SUFFICES ASSUME NEW l \in launched
               PROVE  /\ l.side < side \/ (l.side = side /\ pc' \in Over)
                      /\ args.allow_execution
                      /\ passed'[l.side] = AllGates
                      /\ l.image = checked'[l.side] /\ l.image.side = l.side
    BY <1>3 DEF LaunchInv
  <2>1. l.side < side /\ l.side # side /\ l.side \in Sides
    BY <1>1, <1>3 DEF LaunchInv
  <2> QED BY <1>3, <2>1 DEF LaunchInv
<1>4. CASE PreStep
  BY <1>2, <1>4, PreStepCases DEF PreFrame, BeforeGates, Over
<1>5. CASE CreateScratch \/ FailGate \/ GenerateHarness \/ WriteHarness \/ Consent
  BY <1>2, <1>5 DEF CreateScratch, FailGate, GenerateHarness, WriteHarness, Consent, Over
<1>6. CASE StageCandidate \/ AssembleHarness \/ LinkImage
  BY <1>2, <1>6, StageShape, HarnessShapes DEF AssembleHarness, LinkImage, Over
<1>7. CASE PassGate
  BY <1>1, <1>3, <1>7 DEF PassGate, TypeOK, Over
<1>8. CASE CheckExecutable
  BY <1>1, <1>3, <1>8 DEF CheckExecutable, TypeOK, Over
<1>9. CASE RunCandidate
  <2>1. pc = "run" /\ UNCHANGED <<args, side, passed, checked>>
    BY <1>9 DEF RunCandidate
  <2>2. pc' \in Over
    <3>1. CASE \E beh \in {"passed", "failed"}, x \in OptEvidence : ConcludeRun(beh, x)
      BY <3>1, RunReport DEF Concludes, Over
    <3>2. CASE pc' = "done"
      BY <3>2 DEF Over
    <3> QED BY <1>9, <3>1, <3>2 DEF RunCandidate
  <2>3. launched' = launched \cup {[side |-> side, image |-> scratch[Dir].image]}
    BY <1>9 DEF RunCandidate
  <2>4. /\ args.allow_execution /\ passed[side] = AllGates
        /\ scratch[Dir].image = checked[side] /\ scratch[Dir].image.side = side
    BY <2>1 DEF FlowInv, ReadyPhase, Routine
  <2> QED BY <1>1, <2>1, <2>2, <2>3, <2>4 DEF LaunchInv
<1>10. CASE EmitReport \/ WriteCard \/ EmitCompare
  BY <1>2, <1>10 DEF EmitReport, WriteCard, EmitCompare, Goto, Over
<1>11. CASE SecondSide
  <2>1. /\ side = 1 /\ side' = 2
        /\ UNCHANGED <<args, launched, passed, checked>>
    BY <1>11 DEF SecondSide
  <2>2. \A l \in launched : l.side < side'
    BY <1>1, <2>1 DEF LaunchInv
  <2> QED BY <2>1, <2>2 DEF LaunchInv
<1>12. CASE (\E f \in Files : EditFile(f)) \/ UNCHANGED vars
  BY <1>2, <1>12 DEF EditFile, vars
<1> QED BY <1>4, <1>5, <1>6, <1>7, <1>8, <1>9, <1>10, <1>11, <1>12 DEF Next, PreStep, Exited

\* The part of the invariant about the candidates and their launches.
GateInv == TypeOK /\ ResultInv /\ FlowInv /\ LaunchInv

\* GateInv is inductive.
LEMMA GateInvariant == Spec => []GateInv
<1>1. Init => GateInv
  BY InitType, InitFlow DEF Init, GateInv, ResultInv, LaunchInv
<1>2. GateInv /\ [Next]_vars => GateInv'
  BY NextType, NextResult, NextFlow, NextLaunch DEF GateInv
<1> QED BY <1>1, <1>2, PTL DEF Spec

\* For every set of command lines: run_agent_verify_core gives the runner only an
\* image linked from the object that passed every gate for the same candidate,
\* and only under --allow-execution, whatever an earlier side of a comparison left
\* in a shared scratch directory and whenever the input files are edited.
THEOREM ExecutionGated == Spec => []ExecutionIsGated
<1>1. GateInv => ExecutionIsGated
  BY DEF GateInv, LaunchInv, ExecutionIsGated, AllGates
<1> QED BY <1>1, GateInvariant, PTL

------------------------------------------------------------------------------
(* What the reports say.                                                   *)

\* The gates g shows as passed are among the gates p.
Shown(g, p) ==
    /\ g.object_policy = "Passed" => "object" \in p
    /\ g.abi = "Passed" => "abi" \in p
    /\ g.capability = "Passed" => "capability" \in p
    /\ g.control = "Passed" => "cfg" \in p
    /\ g.memory = "Passed" => "memory" \in p

\* A launch that an accepted report of side s stands for.
Ran(s, ls) == \E l \in ls : l.side = s /\ l.image.side = s

ReportInv ==
    \A s \in Sides :
        /\ reports[s] # NoReport => s < side \/ (s = side /\ pc \in Over)
        /\ reports[s].status \in Accepted =>
              passed[s] = AllGates /\ Ran(s, launched) /\ reports[s].behavior = "passed"
        /\ Capstone /\ reports[s] # NoReport => Shown(reports[s].semantic, passed[s])

\* from_error shows as passed only stages before the one that failed.
LEMMA FailedGateShown ==
    ASSUME TypeOK, FlowInv, pc = "gates",
           NEW e \in StageErrors(GateOrder[stage], insns)
    PROVE  Shown(FromError(e), passed[side])
<1>1. stage \in 1 .. 8 /\ passed[side] = {GateOrder[i] : i \in 1 .. stage - 1}
  BY DEF FlowInv, TypeOK
<1>2. \A i \in 1 .. 8 : i < stage => GateOrder[i] \in passed[side]
  BY <1>1
<1>3. /\ stage > 2 => "object" \in passed[side]
      /\ stage > 5 => "abi" \in passed[side]
      /\ stage > 6 => "capability" \in passed[side]
      /\ stage > 7 => "cfg" \in passed[side]
  BY <1>1, <1>2 DEF GateOrder
<1>4. CASE stage \in {1, 2}
  <2>1. e.stage \in {"target", "object"}
    BY <1>4 DEF StageErrors, GateOrder, GateError
  <2> QED BY <2>1 DEF FromError, GatesUpTo, Shown
<1>5. CASE stage = 3
  <2>1. e.stage \in {"object", "decode"}
    BY <1>5 DEF StageErrors, GateOrder, GateError
  <2> QED BY <1>3, <1>5, <2>1 DEF FromError, GatesUpTo, Shown
<1>6. CASE stage = 4
  <2>1. e.stage = "lowering"
    BY <1>6 DEF StageErrors, GateOrder, GateError
  <2> QED BY <1>3, <1>6, <2>1 DEF FromError, GatesUpTo, Shown
<1>7. CASE stage \in {5, 6, 7, 8}
  <2>1. e.stage = GateOrder[stage]
    BY <1>7 DEF StageErrors, GateOrder, GateError
  <2>2. /\ stage = 5 => e.stage = "abi"
        /\ stage = 6 => e.stage = "capability"
        /\ stage = 7 => e.stage = "cfg"
        /\ stage = 8 => e.stage = "memory"
    BY <2>1 DEF GateOrder
  <2>3. CASE stage = 5
    BY <1>3, <2>2, <2>3 DEF FromError, GatesUpTo, Shown
  <2>4. CASE stage = 6
    BY <1>3, <2>2, <2>4 DEF FromError, GatesUpTo, Shown
  <2>5. CASE stage = 7
    BY <1>3, <2>2, <2>5 DEF FromError, GatesUpTo, Shown
  <2>6. CASE stage = 8
    BY <1>3, <2>2, <2>6 DEF FromError, GatesUpTo, Shown
  <2> QED BY <1>7, <2>3, <2>4, <2>5, <2>6
<1> QED BY <1>1, <1>4, <1>5, <1>6, <1>7

\* Every step preserves ReportInv.
LEMMA NextReport == GateInv /\ ReportInv /\ [Next]_vars => ReportInv'
<1> SUFFICES ASSUME GateInv, ReportInv, [Next]_vars PROVE ReportInv'
  OBVIOUS
<1> USE DEF historyVars, gateVars, resultVars, outputVars
<1>0. TypeOK /\ FlowInv
  BY DEF GateInv
<1>1. ASSUME UNCHANGED <<side, reports, passed>>, launched \subseteq launched',
             pc \in Over => pc' \in Over
      PROVE  ReportInv'
  BY <1>1 DEF ReportInv, Ran
<1>2. ASSUME pc \notin Over, UNCHANGED <<side, reports, launched>>,
             \A s \in Sides : s # side => passed'[s] = passed[s]
      PROVE  ReportInv'
  <2>1. \A s \in Sides : reports[s] # NoReport => s < side /\ s # side
    BY <1>0, <1>2 DEF ReportInv, TypeOK
  <2>2. \A s \in Sides : reports[s].status \in Accepted => reports[s] # NoReport
    BY DEF NoReport, Accepted
  <2> QED BY <1>2, <2>1, <2>2 DEF ReportInv
<1>3. ASSUME NEW r \in Reports, NEW c, Concludes(r, c), UNCHANGED <<side, passed>>,
             launched \subseteq launched',
             r.status \in Accepted =>
                passed[side] = AllGates /\ Ran(side, launched') /\ r.behavior = "passed",
             Capstone => Shown(r.semantic, passed[side])
      PROVE  ReportInv'
  <2>1. reports' = [reports EXCEPT ![side] = r] /\ pc' \in Over /\ side \in Sides
        /\ reports \in [Sides -> Reports \cup {NoReport}]
    BY <1>0, <1>3 DEF Concludes, Over, TypeOK
  <2> SUFFICES ASSUME NEW s \in Sides
               PROVE  /\ reports'[s] # NoReport => s < side \/ s = side
                      /\ reports'[s].status \in Accepted =>
                            /\ passed[s] = AllGates /\ Ran(s, launched')
                            /\ reports'[s].behavior = "passed"
                      /\ Capstone /\ reports'[s] # NoReport =>
                            Shown(reports'[s].semantic, passed[s])
    BY <1>3, <2>1 DEF ReportInv
  <2>2. CASE s = side
    BY <1>3, <2>1, <2>2
  <2>3. CASE s # side
    BY <1>3, <2>1, <2>3 DEF ReportInv, Ran
  <2> QED BY <2>2, <2>3
<1>4. passed[side] = GateNames \/ passed[side] = AllGates
         => Shown(PassedGates, passed[side])
  <2>1. {"object", "abi", "capability", "cfg", "memory"} \subseteq GateNames
    BY DEF GateNames, GateOrder
  <2> QED BY <2>1 DEF Shown, AllGates
<1>5. ASSUME NEW exe \in GateStatuses, ConcludeStatic(exe), UNCHANGED <<side, passed, launched>>,
             pc \in StaticPhase \cup ReadyPhase
      PROVE  ReportInv'
  <2>1. PICK r \in Reports : /\ Concludes(r, "1") /\ r.status \notin Accepted
                             /\ r.semantic = PassedGates
    BY <1>0, <1>5, StaticReport
  <2>2. Shown(r.semantic, passed[side])
    BY <1>0, <1>4, <1>5, <2>1 DEF FlowInv
  <2> QED BY <1>3, <1>5, <2>1, <2>2
<1>6. CASE PreStep
  BY <1>0, <1>1, <1>6, PreStepCases DEF PreFrame, BeforeGates, Over
<1>7. CASE CreateScratch \/ WriteHarness
  BY <1>1, <1>7 DEF CreateScratch, WriteHarness, Over
<1>8. CASE StageCandidate \/ AssembleHarness \/ LinkImage
  BY <1>0, <1>1, <1>8, StageShape, HarnessShapes DEF AssembleHarness, LinkImage, Over
<1>9. CASE PassGate
  BY <1>0, <1>2, <1>9 DEF PassGate, TypeOK, Over
<1>10. CASE FailGate
  <2>1. PICK r \in Reports, e \in GateErrors :
           /\ Concludes(r, "1")
           /\ r.status = "SemanticFailed" /\ r.semantic = FromError(e)
           /\ e \in IF Capstone THEN StageErrors(GateOrder[stage], insns)
                                ELSE {GateError("decode", None, None)}
    BY <1>0, <1>10, FailGateReport
  <2>2. pc = "gates" /\ UNCHANGED <<side, passed, launched>>
    BY <1>10 DEF FailGate
  <2>3. Capstone => Shown(r.semantic, passed[side])
    BY <1>0, <2>1, <2>2, FailedGateShown
  <2>4. r.status \notin Accepted
    BY <2>1 DEF Accepted
  <2> QED BY <1>3, <2>1, <2>2, <2>3, <2>4
<1>11. CASE GenerateHarness
  <2>1. CASE pc' = "write_harness" /\ UNCHANGED resultVars
    BY <1>1, <1>11, <2>1 DEF GenerateHarness, Over
  <2>2. CASE ConcludeStatic("Skipped")
    BY <1>5, <1>11, <2>2 DEF GenerateHarness, GateStatuses, StaticPhase
  <2> QED BY <1>11, <2>1, <2>2 DEF GenerateHarness
<1>12. CASE CheckExecutable
  <2>1. CASE /\ passed' = [passed EXCEPT ![side] = @ \cup {"executable"}]
             /\ UNCHANGED resultVars
    BY <1>0, <1>2, <1>12, <2>1 DEF CheckExecutable, TypeOK, Over
  <2>2. CASE ConcludeStatic("Failed") /\ UNCHANGED passed
    BY <1>5, <1>12, <2>2 DEF CheckExecutable, GateStatuses, StaticPhase
  <2> QED BY <1>12, <2>1, <2>2 DEF CheckExecutable
<1>13. CASE Consent
  <2>1. CASE pc' = "run" /\ UNCHANGED resultVars
    BY <1>1, <1>13, <2>1 DEF Consent, Over
  <2>2. CASE ConcludeStatic("Passed")
    BY <1>5, <1>13, <2>2 DEF Consent, GateStatuses, ReadyPhase
  <2> QED BY <1>13, <2>1, <2>2 DEF Consent
<1>14. CASE RunCandidate
  <2>1. pc = "run" /\ UNCHANGED <<side, passed>>
        /\ launched' = launched \cup {[side |-> side, image |-> scratch[Dir].image]}
    BY <1>14 DEF RunCandidate
  <2>2. CASE pc' = "done" /\ UNCHANGED resultVars
    BY <1>1, <2>1, <2>2 DEF Over
  <2>3. CASE \E beh \in {"passed", "failed"}, x \in OptEvidence : ConcludeRun(beh, x)
    <3>1. PICK r \in Reports, c \in {"0", "1"} :
             /\ Concludes(r, c)
             /\ r.status \in Accepted => r.behavior = "passed"
             /\ r.semantic = PassedGates
      BY <1>0, <2>3, RunReport
    <3>2. passed[side] = AllGates /\ scratch[Dir].image.side = side
      BY <1>0, <2>1 DEF FlowInv, ReadyPhase, Routine
    <3>3. Ran(side, launched')
      <4> DEFINE l == [side |-> side, image |-> scratch[Dir].image]
      <4>1. l \in launched' /\ l.side = side /\ l.image.side = side
        BY <2>1, <3>2
      <4> HIDE DEF l
      <4> QED BY <4>1 DEF Ran
    <3>4. Shown(r.semantic, passed[side])
      BY <1>4, <3>1, <3>2
    <3> QED BY <1>3, <2>1, <3>1, <3>2, <3>3, <3>4
  <2> QED BY <1>14, <2>2, <2>3 DEF RunCandidate
<1>15. CASE EmitReport \/ WriteCard \/ EmitCompare
  BY <1>1, <1>15 DEF EmitReport, WriteCard, EmitCompare, Goto, Over
<1>16. CASE SecondSide
  <2>1. side = 1 /\ side' = 2 /\ UNCHANGED <<reports, passed, launched>>
    BY <1>16 DEF SecondSide
  <2>2. \A s \in Sides : reports[s] # NoReport => s < 2
    BY <2>1 DEF ReportInv
  <2> QED BY <2>1, <2>2 DEF ReportInv
<1>17. CASE (\E f \in Files : EditFile(f)) \/ UNCHANGED vars
  BY <1>1, <1>17 DEF EditFile, vars
<1> QED BY <1>6, <1>7, <1>8, <1>9, <1>10, <1>11, <1>12, <1>13, <1>14, <1>15, <1>16, <1>17
        DEF Next, PreStep, Exited

\* ReportInv is an invariant.
LEMMA ReportInvariant == Spec => []ReportInv
<1>1. Init => ReportInv
  BY DEF Init, ReportInv, NoReport, Accepted
<1>2. GateInv /\ ReportInv /\ [Next]_vars => ReportInv'
  BY NextReport
<1> QED BY <1>1, <1>2, GateInvariant, PTL DEF Spec

\* For every set of command lines: a report whose status exits 0 belongs to a side
\* whose own image ran, after all its gates, and whose vectors passed; no order of
\* attaching evidence and no failure on the way produces one otherwise.
THEOREM AcceptanceEarned == Spec => []AcceptedIsEarned
<1>1. ReportInv => AcceptedIsEarned
  BY DEF ReportInv, AcceptedIsEarned, AllGates, Ran
<1> QED BY <1>1, ReportInvariant, PTL

\* In a build with the capstone feature, a report shows a gate as passed only when
\* that gate ran to its end on the candidate (GateStatus::Passed).
\* Without the assumption it fails: from_error then shows object_policy as passed.
THEOREM PassedGatesRan ==
    ASSUME Capstone
    PROVE  Spec => []PassedGateRan
<1>1. ReportInv => PassedGateRan
  BY DEF ReportInv, PassedGateRan, Shown
<1> QED BY <1>1, ReportInvariant, PTL

------------------------------------------------------------------------------
(* What the process prints, and the refinement of ControllerProtocol.      *)

OutputInv ==
    /\ pc \notin {"card", "done"} => documents = <<>> /\ exit = "running"
    /\ pc = "card" => /\ side = 1 /\ exit = "running"
                      /\ documents = <<ReportDocument(reports[1].status)>>
    /\ pc \in {"finished", "card"} /\ code = "0" => reports[side].status \in Accepted

ProtocolStep ==
    [Protocol!Emit \/ Protocol!Exit \/ Protocol!EmitAndExit]_<<documents, exit>>

\* A report or a comparison is an accepted document when one of its sides is.
LEMMA AcceptedDocuments ==
    ASSUME NEW a, NEW b
    PROVE  /\ a \in Accepted => AcceptedDocument(ReportDocument(a))
           /\ {a, b} \cap Accepted # {} => AcceptedDocument(CompareDocument(a, b))
<1>1. ReportDocument(a).statuses = <<a>> /\ CompareDocument(a, b).statuses = <<a, b>>
  BY DEF ReportDocument, CompareDocument
<1>2. a \in Accepted => \E i \in DOMAIN <<a>> : <<a>>[i] \in Accepted
  OBVIOUS
<1>3. {a, b} \cap Accepted # {} => \E i \in DOMAIN <<a, b>> : <<a, b>>[i] \in Accepted
  <2>1. 1 \in DOMAIN <<a, b>> /\ 2 \in DOMAIN <<a, b>> /\ <<a, b>>[1] = a /\ <<a, b>>[2] = b
    OBVIOUS
  <2> QED BY <2>1
<1> QED BY <1>1, <1>2, <1>3 DEF AcceptedDocument

\* The protocol's documents are those of the commands.
LEMMA SameDocuments ==
    /\ Protocol!AllDocuments = AllDocuments
    /\ \A c : Protocol!Envelope(c) = Envelope(c)
    /\ \A d : AcceptedDocument(d) => Protocol!AcceptedDocument(d)
<1>1. Protocol!FailureCodes = FailureCodes /\ Protocol!Statuses = Statuses
  BY DEF Protocol!FailureCodes, FailureCodes, Protocol!Statuses, Statuses
<1>2. \A c : Protocol!Envelope(c) = Envelope(c)
  BY DEF Protocol!Envelope, Envelope
<1>3. \A st : Protocol!ReportDocument(st) = ReportDocument(st)
  BY DEF Protocol!ReportDocument, ReportDocument
<1>4. \A a, b : Protocol!CompareDocument(a, b) = CompareDocument(a, b)
  BY DEF Protocol!CompareDocument, CompareDocument, Protocol!Rank, Rank
<1>5. Protocol!AllDocuments = AllDocuments
  <2>1. {Protocol!Envelope(c) : c \in FailureCodes} = {Envelope(c) : c \in FailureCodes}
    BY <1>2
  <2>2. {Protocol!ReportDocument(st) : st \in Statuses} =
           {ReportDocument(st) : st \in Statuses}
    BY <1>3
  <2>3. {Protocol!CompareDocument(p[1], p[2]) : p \in Statuses \X Statuses} =
           {CompareDocument(p[1], p[2]) : p \in Statuses \X Statuses}
    BY <1>4
  <2> QED BY <1>1, <2>1, <2>2, <2>3 DEF Protocol!AllDocuments, AllDocuments
<1>6. \A d : AcceptedDocument(d) => Protocol!AcceptedDocument(d)
  BY DEF AcceptedDocument, Protocol!AcceptedDocument, Accepted, Protocol!Accepted
<1> QED BY <1>2, <1>5, <1>6

\* An early failure prints the envelope and exits with the code of its kind.
LEMMA EarlyProtocol ==
    ASSUME NEW c \in FailureCodes, EarlyFailure(c), documents = <<>>, exit = "running"
    PROVE  Protocol!EmitAndExit
<1>1. documents' = <<Envelope(c)>> /\ Envelope(c) \in AllDocuments
  BY DEF EarlyFailure, AllDocuments
<1>2. exit' \in {"1", "2"} /\ (exit' = "2" => c = "INVALID_TARGET")
  BY DEF EarlyFailure
<1> QED BY <1>1, <1>2, SameDocuments
        DEF Protocol!EmitAndExit, Protocol!ExitCodes, Protocol!MayExit

\* Every step preserves OutputInv and is a step of the protocol.
LEMMA NextOutput ==
    GateInv /\ OutputInv /\ [Next]_vars => OutputInv' /\ ProtocolStep
<1> SUFFICES ASSUME GateInv, OutputInv, [Next]_vars PROVE OutputInv' /\ ProtocolStep
  OBVIOUS
<1> USE DEF historyVars, gateVars, resultVars, outputVars
<1>0. TypeOK /\ ResultInv
  BY DEF GateInv
<1>1. ASSUME pc \notin {"card", "done"}, pc' \notin {"finished", "card", "done"},
             UNCHANGED outputVars
      PROVE  OutputInv' /\ ProtocolStep
  BY <1>1 DEF OutputInv, ProtocolStep
<1>2. ASSUME pc \notin {"card", "done"}, FailsEarly
      PROVE  OutputInv' /\ ProtocolStep
  <2>1. PICK c \in FailureCodes : EarlyFailure(c)
    BY <1>2 DEF FailsEarly
  <2>2. Protocol!EmitAndExit
    BY <1>2, <2>1, EarlyProtocol DEF OutputInv
  <2>3. pc' = "done"
    BY <2>1 DEF EarlyFailure
  <2> QED BY <2>2, <2>3 DEF OutputInv, ProtocolStep
<1>3. ASSUME pc \notin {"card", "done"}, NEW r \in Reports, NEW c, Concludes(r, c),
             UNCHANGED side, c = "0" => r.status \in Accepted
      PROVE  OutputInv' /\ ProtocolStep
  <2>1. reports'[side'] = r /\ pc' = "finished" /\ code' = c /\ UNCHANGED outputVars
    BY <1>0, <1>3 DEF Concludes, TypeOK
  <2> QED BY <1>3, <2>1 DEF OutputInv, ProtocolStep
<1>4. ASSUME pc \notin {"card", "done"}, UNCHANGED side, NEW exe \in GateStatuses,
             ConcludeStatic(exe)
      PROVE  OutputInv' /\ ProtocolStep
  BY <1>0, <1>3, <1>4, StaticReport
<1>5. CASE PreStep
  <2>1. pc \notin {"card", "done"}
    BY <1>0, <1>5, PreStepCases DEF BeforeGates
  <2>2. CASE FailsEarly
    BY <1>2, <2>1, <2>2
  <2>3. CASE \E there \in BeforeGates : Continues(there)
    BY <1>1, <2>1, <2>3 DEF Continues, BeforeGates
  <2> QED BY <1>0, <1>5, <2>2, <2>3, PreStepCases
<1>6. CASE CreateScratch
  <2>1. CASE pc' = "stage" /\ UNCHANGED outputVars
    BY <1>1, <1>6, <2>1 DEF CreateScratch
  <2>2. CASE EarlyFailure("SCRATCH_IO")
    <3>1. FailsEarly
      BY <2>2 DEF FailsEarly, FailureCodes
    <3> QED BY <1>2, <1>6, <3>1 DEF CreateScratch
  <2> QED BY <1>6, <2>1, <2>2 DEF CreateScratch
<1>7. CASE StageCandidate
  <2>1. pc = "stage" /\ (Continues("gates") \/ FailsEarly)
    BY <1>0, <1>7, StageShape
  <2> QED BY <1>1, <1>2, <2>1 DEF Continues
<1>8. CASE PassGate
  BY <1>1, <1>8 DEF PassGate
<1>9. CASE FailGate
  <2>1. PICK r \in Reports : Concludes(r, "1")
    BY <1>0, <1>9, FailGateReport
  <2> QED BY <1>3, <1>9, <2>1 DEF FailGate
<1>10. CASE GenerateHarness
  <2>1. CASE pc' = "write_harness" /\ UNCHANGED outputVars
    BY <1>1, <1>10, <2>1 DEF GenerateHarness
  <2>2. CASE ConcludeStatic("Skipped")
    BY <1>4, <1>10, <2>2 DEF GenerateHarness, GateStatuses
  <2> QED BY <1>10, <2>1, <2>2 DEF GenerateHarness
<1>11. CASE WriteHarness \/ AssembleHarness \/ LinkImage
  <2>1. /\ pc \in {"write_harness", "assemble_harness", "link"}
        /\ \/ \E there \in {"assemble_harness", "link", "executable"} : Continues(there)
           \/ FailsEarly
    BY <1>0, <1>11, HarnessShapes
  <2> QED BY <1>1, <1>2, <2>1 DEF Continues
<1>12. CASE CheckExecutable
  <2>1. CASE pc' = "consent" /\ UNCHANGED outputVars
    BY <1>1, <1>12, <2>1 DEF CheckExecutable
  <2>2. CASE ConcludeStatic("Failed")
    BY <1>4, <1>12, <2>2 DEF CheckExecutable, GateStatuses
  <2> QED BY <1>12, <2>1, <2>2 DEF CheckExecutable
<1>13. CASE Consent
  <2>1. CASE pc' = "run" /\ UNCHANGED outputVars
    BY <1>1, <1>13, <2>1 DEF Consent
  <2>2. CASE ConcludeStatic("Passed")
    BY <1>4, <1>13, <2>2 DEF Consent, GateStatuses
  <2> QED BY <1>13, <2>1, <2>2 DEF Consent
<1>14. CASE RunCandidate
  <2>1. pc = "run" /\ UNCHANGED side
    BY <1>14 DEF RunCandidate
  <2>2. CASE \E beh \in {"passed", "failed"}, x \in OptEvidence : ConcludeRun(beh, x)
    BY <1>0, <1>3, <2>1, <2>2, RunReport
  <2>3. CASE exit' = "1" /\ pc' = "done" /\ UNCHANGED documents
    <3>1. Protocol!Exit
      BY <2>1, <2>3 DEF OutputInv, Protocol!Exit, Protocol!ExitCodes, Protocol!MayExit
    <3> QED BY <2>3, <3>1 DEF OutputInv, ProtocolStep
  <2> QED BY <1>14, <2>2, <2>3 DEF RunCandidate
<1>15. CASE EmitReport
  <2>1. side = 1 /\ documents = <<>> /\ exit = "running"
    BY <1>0, <1>15 DEF EmitReport, ResultInv, TypeOK, OutputInv
  <2>2. reports[1] \in Reports /\ code \in {"0", "1"}
    BY <1>0, <1>15, <2>1 DEF EmitReport, ResultInv
  <2>3. documents' = <<ReportDocument(reports[1].status)>>
        /\ ReportDocument(reports[1].status) \in AllDocuments
    BY <1>15, <2>1, <2>2, DocumentTypes DEF EmitReport
  <2>4. code = "0" => reports[1].status \in Accepted
    BY <1>15, <2>1 DEF EmitReport, OutputInv
  <2>5. CASE args.card
    <3>1. Protocol!Emit
      BY <1>15, <2>1, <2>3, <2>5, SameDocuments DEF EmitReport, Protocol!Emit
    <3>2. pc' = "card" /\ UNCHANGED <<side, reports, code, exit>>
      BY <1>15, <2>5 DEF EmitReport
    <3> QED BY <2>1, <2>3, <2>4, <3>1, <3>2 DEF OutputInv, ProtocolStep
  <2>6. CASE ~args.card
    <3>1. pc' = "done" /\ exit' = code
      BY <1>15, <2>6 DEF EmitReport
    <3>2. code = "0" => AcceptedDocument(documents'[1])
      BY <2>3, <2>4, AcceptedDocuments
    <3>3. Len(documents') = 1
      BY <2>3
    <3>4. Protocol!EmitAndExit
      BY <2>1, <2>2, <2>3, <3>1, <3>2, <3>3, SameDocuments
         DEF Protocol!EmitAndExit, Protocol!ExitCodes, Protocol!MayExit
    <3> QED BY <3>1, <3>4 DEF OutputInv, ProtocolStep
  <2> QED BY <2>5, <2>6
<1>16. CASE WriteCard
  <2>1. /\ side = 1 /\ exit = "running" /\ documents = <<ReportDocument(reports[1].status)>>
        /\ code \in {"0", "1"} /\ (code = "0" => reports[1].status \in Accepted)
    BY <1>0, <1>16 DEF WriteCard, Goto, OutputInv, ResultInv
  <2>2. pc' = "done" /\ exit' \in {code, "1"} /\ UNCHANGED documents
    BY <1>16 DEF WriteCard, Goto
  <2>3. Len(documents) = 1 /\ (code = "0" => AcceptedDocument(documents[1]))
    BY <2>1, AcceptedDocuments
  <2>4. Protocol!Exit
    BY <2>1, <2>2, <2>3, SameDocuments DEF Protocol!Exit, Protocol!ExitCodes, Protocol!MayExit
  <2> QED BY <2>2, <2>4 DEF OutputInv, ProtocolStep
<1>17. CASE SecondSide
  BY <1>1, <1>17 DEF SecondSide
<1>18. CASE EmitCompare
  <2> DEFINE d == CompareDocument(reports[1].status, reports[2].status)
  <2>1. documents = <<>> /\ exit = "running"
    BY <1>18 DEF EmitCompare, OutputInv
  <2>2. reports[1] \in Reports /\ reports[2] \in Reports
    BY <1>0, <1>18 DEF EmitCompare, ResultInv
  <2>3. documents' = <<d>> /\ d \in AllDocuments /\ Len(documents') = 1
    BY <1>18, <2>1, <2>2, DocumentTypes DEF EmitCompare
  <2>4. /\ pc' = "done" /\ exit' \in {"0", "1"}
        /\ exit' = "0" => {reports[1].status, reports[2].status} \cap Accepted # {}
    BY <1>18 DEF EmitCompare
  <2>5. exit' = "0" => AcceptedDocument(documents'[1])
    BY <2>3, <2>4, AcceptedDocuments
  <2> HIDE DEF d
  <2>6. Protocol!EmitAndExit
    BY <2>1, <2>3, <2>4, <2>5, SameDocuments
       DEF Protocol!EmitAndExit, Protocol!ExitCodes, Protocol!MayExit
  <2> QED BY <2>4, <2>6 DEF OutputInv, ProtocolStep
<1>19. CASE (\E f \in Files : EditFile(f)) \/ UNCHANGED vars
  BY <1>19 DEF EditFile, vars, OutputInv, ProtocolStep
<1> QED BY <1>5, <1>6, <1>7, <1>8, <1>9, <1>10, <1>11, <1>12, <1>13, <1>14, <1>15, <1>16,
           <1>17, <1>18, <1>19 DEF Next, PreStep, Exited

\* For every set of command lines: what agent verify and agent compare print and
\* return is a behaviour of ControllerProtocol, so a controller may act on the
\* document as soon as it is printed and on exit code 0 without reading it.
THEOREM ProtocolHolds == Spec => RefinesProtocol
<1>1. Init => OutputInv /\ Protocol!Init
  BY DEF Init, OutputInv, Protocol!Init
<1>2. GateInv /\ OutputInv /\ [Next]_vars => OutputInv' /\ ProtocolStep
  BY NextOutput
<1> QED BY <1>1, <1>2, GateInvariant, PTL DEF Spec, RefinesProtocol, Protocol!Spec, ProtocolStep

------------------------------------------------------------------------------
(* The scratch directories.                                                *)

\* The steps during which the core owns its directory.
Working == {"stage", "gates"} \cup StaticPhase \cup ReadyPhase

\* The report of a candidate whose harness could not be generated.
Left(r) == r # NoReport /\ AllPassed(r.semantic) /\ r.executable = "Skipped"

ScratchInv ==
    \A d \in Sides :
        scratch[d].exists => (d = Dir /\ pc \in Working) \/ \E s \in Sides : Left(reports[s])

\* Every step preserves ScratchInv.
LEMMA NextScratch == GateInv /\ ReportInv /\ ScratchInv /\ [Next]_vars => ScratchInv'
<1> SUFFICES ASSUME GateInv, ReportInv, ScratchInv, [Next]_vars PROVE ScratchInv'
  OBVIOUS
<1> USE DEF historyVars, gateVars, resultVars, outputVars
<1>0. TypeOK
  BY DEF GateInv
<1>1. Dir \in Sides /\ (UNCHANGED <<args, side>> => Dir' = Dir)
  BY <1>0, DirFacts DEF Dir
<1>2. ASSUME UNCHANGED <<args, side, reports>>, pc \in Working => pc' \in Working,
             \A d \in Sides : scratch'[d].exists = scratch[d].exists
      PROVE  ScratchInv'
  BY <1>1, <1>2 DEF ScratchInv
<1>3. RemoveScratch => \A d \in Sides : scratch'[d].exists => d # Dir /\ scratch[d].exists
  BY <1>0, <1>1 DEF RemoveScratch, EmptyDir, TypeOK
<1>4. ASSUME RemoveScratch, UNCHANGED reports
      PROVE  ScratchInv'
  BY <1>1, <1>3, <1>4 DEF ScratchInv
<1>5. ASSUME NEW r \in Reports, NEW c, Concludes(r, c), pc \notin Over
      PROVE  \A s \in Sides : Left(reports[s]) => Left(reports'[s])
  <2>1. reports' = [reports EXCEPT ![side] = r] /\ side \in Sides
        /\ reports \in [Sides -> Reports \cup {NoReport}]
    BY <1>0, <1>5 DEF Concludes, TypeOK
  <2>2. reports[side] = NoReport
    BY <1>5, <2>1 DEF ReportInv
  <2> QED BY <2>1, <2>2 DEF Left
<1>6. ASSUME NEW r \in Reports, NEW c, Concludes(r, c), pc \notin Over, RemoveScratch
      PROVE  ScratchInv'
  BY <1>1, <1>3, <1>5, <1>6 DEF ScratchInv
<1>7. CASE PreStep
  <2>1. pc \in BeforeGates \ {"stage"}
    BY <1>0, <1>7, PreStepCases
       DEF PreStep, ParseTarget, FindToolchain, ReadContract, ReadSource, CheckContract,
           LoadVectors, ResolveShape, Precheck
  <2>2. UNCHANGED <<args, side, reports, scratch>>
    BY <1>0, <1>7, PreStepCases DEF PreFrame
  <2> QED BY <1>2, <2>1, <2>2 DEF BeforeGates, Working, StaticPhase, ReadyPhase
<1>8. CASE CreateScratch
  <2>1. CASE UNCHANGED scratch
    BY <1>2, <1>8, <2>1 DEF CreateScratch, Working, StaticPhase, ReadyPhase
  <2>2. CASE pc' = "stage" /\ scratch' = [scratch EXCEPT ![Dir].exists = TRUE]
    <3>1. UNCHANGED <<args, side, reports>> /\ pc = "scratch"
      BY <1>8 DEF CreateScratch
    <3>2. \A d \in Sides : scratch'[d].exists => d = Dir \/ scratch[d].exists
      BY <1>0, <1>1, <2>2 DEF TypeOK
    <3> QED BY <1>1, <2>2, <3>1, <3>2 DEF ScratchInv, Working
  <2> QED BY <1>8, <2>1, <2>2 DEF CreateScratch
<1>9. CASE StageCandidate
  <2>1. UNCHANGED <<args, side, reports>>
    BY <1>0, <1>9, StageShape
  <2>2. CASE RemoveScratch
    BY <1>4, <2>1, <2>2
  <2>3. CASE pc' = "gates" /\ scratch' = [scratch EXCEPT ![Dir].routine = Candidate]
    <3>1. \A d \in Sides : scratch'[d].exists = scratch[d].exists
      BY <1>0, <1>1, <2>3 DEF TypeOK
    <3> QED BY <1>2, <2>1, <2>3, <3>1 DEF Working
  <2> QED BY <1>0, <1>9, <2>2, <2>3, StageShape DEF Continues
<1>10. CASE PassGate
  BY <1>2, <1>10 DEF PassGate, Working, StaticPhase
<1>11. CASE FailGate
  <2>1. PICK r \in Reports : Concludes(r, "1")
    BY <1>0, <1>11, FailGateReport
  <2> QED BY <1>6, <1>11, <2>1 DEF FailGate, Over
<1>12. CASE GenerateHarness
  <2>1. CASE pc' = "write_harness" /\ UNCHANGED resultVars
    BY <1>2, <1>12, <2>1 DEF GenerateHarness, Working, StaticPhase
  <2>2. CASE ConcludeStatic("Skipped")
    <3>1. PICK r \in Reports :
             Concludes(r, "1") /\ r.semantic = PassedGates /\ r.executable = "Skipped"
      BY <1>0, <2>2, StaticReport DEF GateStatuses
    <3>2. AllPassed(PassedGates)
      BY <1>0, CompleteGatesPass DEF PassedGates, TypeOK
    <3>3. r # NoReport
      <4>1. r.status \in Statuses
        BY DEF Reports
      <4> QED BY <4>1 DEF NoReport, Statuses
    <3>4. side \in Sides /\ reports'[side] = r
      BY <1>0, <3>1 DEF Concludes, TypeOK
    <3>5. Left(reports'[side])
      BY <3>1, <3>2, <3>3, <3>4 DEF Left
    <3> QED BY <3>4, <3>5 DEF ScratchInv
  <2> QED BY <1>12, <2>1, <2>2 DEF GenerateHarness
<1>13. CASE WriteHarness \/ AssembleHarness \/ LinkImage
  <2>1. UNCHANGED <<args, side, reports>>
    BY <1>13 DEF WriteHarness, AssembleHarness, LinkImage
  <2>2. CASE RemoveScratch
    BY <1>4, <2>1, <2>2
  <2>3. CASE /\ pc' \in {"assemble_harness", "link", "executable"}
             /\ \/ UNCHANGED scratch
                \/ scratch' = [scratch EXCEPT ![Dir].image = scratch[Dir].routine]
    <3>1. \A d \in Sides : scratch'[d].exists = scratch[d].exists
      <4>1. scratch \in [Sides -> [exists : BOOLEAN, routine : Candidates, image : Candidates]]
        BY <1>0 DEF TypeOK
      <4>2. CASE UNCHANGED scratch
        BY <4>2
      <4>3. CASE scratch' = [scratch EXCEPT ![Dir].image = scratch[Dir].routine]
        BY <1>1, <4>1, <4>3
      <4> QED BY <2>3, <4>2, <4>3
    <3> QED BY <1>2, <2>1, <2>3, <3>1 DEF Working, StaticPhase
  <2> QED BY <1>0, <1>13, <2>2, <2>3, HarnessShapes DEF Continues
<1>14. CASE CheckExecutable
  <2>1. CASE pc' = "consent" /\ UNCHANGED <<scratch, resultVars>>
    BY <1>2, <1>14, <2>1 DEF CheckExecutable, Working, ReadyPhase
  <2>2. CASE ConcludeStatic("Failed") /\ RemoveScratch
    <3>1. PICK r \in Reports : Concludes(r, "1")
      BY <1>0, <2>2, StaticReport DEF GateStatuses
    <3> QED BY <1>6, <1>14, <2>2, <3>1 DEF CheckExecutable, Over
  <2> QED BY <1>14, <2>1, <2>2 DEF CheckExecutable
<1>15. CASE Consent
  <2>1. CASE pc' = "run" /\ UNCHANGED <<scratch, resultVars>>
    BY <1>2, <1>15, <2>1 DEF Consent, Working, ReadyPhase
  <2>2. CASE ConcludeStatic("Passed") /\ RemoveScratch
    <3>1. PICK r \in Reports : Concludes(r, "1")
      BY <1>0, <2>2, StaticReport DEF GateStatuses
    <3> QED BY <1>6, <1>15, <2>2, <3>1 DEF Consent, Over
  <2> QED BY <1>15, <2>1, <2>2 DEF Consent
<1>16. CASE RunCandidate
  <2>1. pc = "run" /\ RemoveScratch
    BY <1>16 DEF RunCandidate
  <2>2. CASE UNCHANGED resultVars
    BY <1>4, <2>1, <2>2
  <2>3. CASE \E beh \in {"passed", "failed"}, x \in OptEvidence : ConcludeRun(beh, x)
    <3>1. PICK r \in Reports, c \in {"0", "1"} : Concludes(r, c)
      BY <1>0, <2>3, RunReport
    <3> QED BY <1>6, <2>1, <3>1 DEF Over
  <2> QED BY <1>16, <2>2, <2>3 DEF RunCandidate
<1>17. CASE EmitReport \/ WriteCard \/ EmitCompare
  BY <1>2, <1>17 DEF EmitReport, WriteCard, EmitCompare, Goto, Working, StaticPhase, ReadyPhase
<1>18. CASE SecondSide
  BY <1>18 DEF SecondSide, ScratchInv, Working, StaticPhase, ReadyPhase
<1>19. CASE (\E f \in Files : EditFile(f)) \/ UNCHANGED vars
  BY <1>2, <1>19 DEF EditFile, vars
<1> QED BY <1>7, <1>8, <1>9, <1>10, <1>11, <1>12, <1>13, <1>14, <1>15, <1>16, <1>17, <1>18,
           <1>19 DEF Next, PreStep, Exited

\* For every set of command lines: the process leaves a scratch directory behind
\* only for a candidate that passed its static gates and had no harness, the one
\* path of run_agent_verify_core that returns without remove_dir_all.
THEOREM ScratchIsReleased == Spec => []ScratchReleased
<1>1. Init => ScratchInv
  BY DEF Init, ScratchInv, EmptyDir
<1>2. ScratchInv => ScratchReleased
  BY DEF ScratchInv, ScratchReleased, Left, Working, StaticPhase, ReadyPhase
<1> QED BY <1>1, <1>2, NextScratch, GateInvariant, ReportInvariant, PTL DEF Spec

==============================================================================
