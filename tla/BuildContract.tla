---------------------------- MODULE BuildContract ----------------------------
(***************************************************************************)
(* What callers of `semasm build`, `semasm target doctor` and              *)
(* Pipeline::build_fixture are promised: at most one document each,        *)
(* printed before the process ends, and an exit code that agrees with it.  *)
(***************************************************************************)
CONSTANTS Processes, Nothing

VARIABLES printed, code

\* Documents that stand for success: the roles are resolved, the artifact was
\* not to be run or its run gave a result, the fixture exited as expected.
Accepts(d) ==
    CASE d.kind = "doctor" -> d.all_found
      [] d.kind = "artifact" -> d.execution.status \in {"NotRequested", "Succeeded"}
      [] d.kind = "fixture" ->
            d.expected = "None" \/ (d.execution.status = "Succeeded" /\ d.execution.exit_code = d.expected)

\* The exit codes that agree with what has been printed.
Codes(d) == IF d = Nothing THEN {"1", "2"} ELSE IF Accepts(d) THEN {"0"} ELSE {"1"}

Init == /\ printed = [p \in Processes |-> Nothing]
        /\ code = [p \in Processes |-> "none"]

Emits(p) == /\ printed[p] = Nothing /\ code[p] = "none"
            /\ printed' = [printed EXCEPT ![p] = printed'[p]] /\ printed'[p] # Nothing

Ends(p) == /\ code[p] = "none"
           /\ \E c \in Codes(printed'[p]) : code' = [code EXCEPT ![p] = c]

Next == \E p \in Processes : \/ Emits(p) /\ UNCHANGED code
                             \/ Ends(p) /\ UNCHANGED printed
                             \/ Emits(p) /\ Ends(p)

Spec == Init /\ [][Next]_<<printed, code>>

===============================================================================
