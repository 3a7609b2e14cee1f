-------------------------- MODULE ControllerProtocol --------------------------
(***************************************************************************)
(* What a controller that drives `semasm agent verify` or `agent compare`  *)
(* observes: the documents on stdout and the exit code.  At most one       *)
(* document is printed, before the process exits, and is never revised;    *)
(* exit 0 is an accepted report, or a comparison with an accepted side;    *)
(* exit 2 is an invalid target; a process that prints nothing exits 1.     *)
(***************************************************************************)
EXTENDS Documents

VARIABLES documents, exit

ExitCodes == {"0", "1", "2"}

\* A controller may act on the code alone: 0 only for an accepted document,
\* 2 only for a target it named wrongly.
MayExit(docs, c) ==
    \/ c = "1"
    \/ c = "0" /\ Len(docs) = 1 /\ AcceptedDocument(docs[1])
    \/ c = "2" /\ docs = <<Envelope("INVALID_TARGET")>>

Init == documents = <<>> /\ exit = "running"

Emit == /\ exit = "running" /\ documents = <<>>
         /\ \E d \in AllDocuments : documents' = <<d>>
         /\ UNCHANGED exit

Exit == /\ exit = "running"
        /\ exit' \in ExitCodes /\ MayExit(documents, exit')
        /\ UNCHANGED documents

EmitAndExit == /\ exit = "running" /\ documents = <<>>
                /\ \E d \in AllDocuments : documents' = <<d>>
                /\ exit' \in ExitCodes /\ MayExit(documents', exit')

Spec == Init /\ [][Emit \/ Exit \/ EmitAndExit]_<<documents, exit>>

==============================================================================
