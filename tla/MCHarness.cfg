CONSTANTS
    FixtureCap = 5
    WordBytes = 3
    Contracts <- MCContracts
    ExternalCases <- MCExternal
    MaxMisdeeds = 1
SPECIFICATION Spec
INVARIANTS VectorsMatchOracle ConformingRoutinePasses PassedMeansConforming
