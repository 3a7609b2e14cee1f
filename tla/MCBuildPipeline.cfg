CONSTANTS
    p1 = p1
    p2 = p2
    Builds <- MCBuilds
    Files <- MCFiles
    Scenarios <- MCScenarios
    ImageOf <- MCImageOf
    MaxSaves = 1
    MaxLost = 1
SPECIFICATION Spec
INVARIANTS ReportIsOfThisBuild EvidenceIsReproducible DumpIsFaithful ToolsResolve
PROPERTY RefinesBuildContract
