CONSTANTS
    MaxOffset = 9
    Programs <- MCPrograms
    Scalars <- MCScalars
    MaxSteps = 20
SPECIFICATION Spec
INVARIANTS PassedIsConfined RelationEvidenceIsSound
