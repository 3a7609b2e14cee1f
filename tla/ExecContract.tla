----------------------------- MODULE ExecContract -----------------------------
(***************************************************************************)
(* What exec() promises its callers: a call that has started returns at    *)
(* most once, with one of the outcomes of ExecApi: never a completed       *)
(* command without an exit status, never a timeout without termination     *)
(* diagnostics.                                                            *)
(***************************************************************************)
EXTENDS ExecApi

VARIABLE outcome

Init == outcome = NoOutcome

Return == /\ outcome = NoOutcome
          /\ outcome' \in Outcomes

Spec == Init /\ [][Return]_outcome

==============================================================================
