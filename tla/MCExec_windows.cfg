CONSTANTS
    Child = child
    Descendants = {d1}
    Platform = "windows"
    StdinPolicy = "Bytes"
    StdinBytes = 2
    Limit <- MCLimit
    PipeCap = 1
    MaxOutput <- MCSilent
    Faults = {"spawn", "attach", "poll"}
SPECIFICATION Spec
INVARIANTS CompletedIsFinished TreeIsTerminated
PROPERTIES RefinesContract
