---------------------------- MODULE MCAgentVerify ----------------------------
(* Instances of AgentVerify for TLC: command lines of agent verify (external *)
(* vectors and the evidence card are steps at opposite ends of the command,  *)
(* so they come together), and those of agent compare on sources.            *)
EXTENDS AgentVerify

MCVerify == {a \in AllInvocations :
                /\ a.command = "verify" /\ ~a.same_stem /\ a.card = a.vectors_file}

MCCompare == {a \in AllInvocations :
                 /\ a.command = "compare"
                 /\ ~a.vectors_file /\ ~a.card /\ ~a.prebuilt /\ a.supported
                 /\ a.allow_execution \/ a.same_stem}

MCBoth == MCVerify \cup MCCompare

\* Two sides in one process multiply the states: their question is whose files
\* are used, which needs neither edits nor instructions.
MCInstr == [c \in Commands |-> IF c = "verify" THEN 1 ELSE 0]
MCEdits == [c \in Commands |-> IF c = "verify" THEN 1 ELSE 0]

==============================================================================
