CONSTANTS
    Child = child
    Descendants = {d1}
    Platform = "unix"
    StdinPolicy = "Null"
    StdinBytes = 0
    Limit <- MCLimit
    PipeCap = 1
    MaxOutput <- MCOutput
    Faults = {"spawn", "poll", "read", "panic", "leave"}
SPECIFICATION Spec
INVARIANTS TypeOK NoLostOutput CompletedIsFinished TreeIsTerminated
PROPERTIES RefinesContract
