SPECIFICATION Spec
CONSTANTS
    Invocations <- MCBoth
    Capstone = TRUE
    MaxInstr <- MCInstr
    MaxEdits <- MCEdits
INVARIANTS TypeOK ExecutionIsGated AcceptedIsEarned PassedGateRan ScratchReleased
PROPERTY RefinesProtocol
