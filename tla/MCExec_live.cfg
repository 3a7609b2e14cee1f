CONSTANTS
    Child = child
    Descendants = {d1}
    Platform = "unix"
    StdinPolicy = "Null"
    StdinBytes = 0
    Limit <- MCLimit
    PipeCap = 1
    MaxOutput <- MCOutput
    Faults = {"spawn", "poll", "read", "panic"}
SPECIFICATION FairSpec
INVARIANTS TimeoutEndsDescendants
PROPERTIES ExecReturns
