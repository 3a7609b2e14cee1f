------------------------------ MODULE Documents ------------------------------
(***************************************************************************)
(* The documents the agent commands print on stdout: the agent_failure     *)
(* envelope (failure.rs), the verification report and the comparison of    *)
(* two of them (evidence.rs), abstracted to what a controller acts on.     *)
(***************************************************************************)
EXTENDS VerificationReport, Sequences

\* The codes of early_failure in run_agent_verify_core.
FailureCodes ==
    {"INVALID_TARGET", "TOOLCHAIN_INCOMPLETE", "CONTRACT_IO", "SOURCE_IO",
     "CONTRACT_ENCODING", "CONTRACT_INVALID", "UNSUPPORTED_SHAPE", "VECTORS_IO",
     "VECTORS_INVALID", "VECTORS_BINDING_MISMATCH", "HARNESS_MISMATCH", "SCRATCH_IO",
     "ASSEMBLE_FAILED", "ASSEMBLE_ERROR", "HARNESS_IO", "ASSEMBLE_HARNESS_FAILED",
     "ASSEMBLE_HARNESS_ERROR", "LINK_FAILED", "LINK_ERROR"}

Envelope(c) == [kind |-> "agent_failure", code |-> c, statuses |-> <<>>, preferred |-> 0]

ReportDocument(st) == [kind |-> "report", code |-> "none", statuses |-> <<st>>,
                       preferred |-> 0]

\* verification_rank.
Rank(st) == CASE st = "Verified" -> 3
              [] st = "VerifiedUnderPreconditions" -> 2
              [] OTHER -> 0

\* compare_reports: both statuses and the candidate of higher rank, 0 for none.
CompareDocument(a, b) ==
    [kind |-> "compare", code |-> "none", statuses |-> <<a, b>>,
     preferred |-> IF Rank(a) > Rank(b) THEN 1 ELSE IF Rank(b) > Rank(a) THEN 2 ELSE 0]

AllDocuments == {Envelope(c) : c \in FailureCodes}
                \cup {ReportDocument(st) : st \in Statuses}
                \cup {CompareDocument(p[1], p[2]) : p \in Statuses \X Statuses}

AcceptedDocument(d) == \E i \in DOMAIN d.statuses : d.statuses[i] \in Accepted

==============================================================================
