CONSTANTS
    MaxOffset = 9
    Programs <- MCPreTest
    Scalars <- MCScalars
    MaxSteps = 20
SPECIFICATION Spec
INVARIANT ProvenInsideIsInside
