SPECIFICATION BuilderSpec
CONSTANT MaxCoverage = 2
INVARIANTS StatusIsOrderIndependent GateErrorIsFinal
PROPERTY NeverPromotes
