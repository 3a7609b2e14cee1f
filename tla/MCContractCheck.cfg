CONSTANTS
    MaxOffset = 9
    Contracts <- MCContracts
    Scalars <- MCScalars
    Addresses <- MCAddresses
    BindingSets <- MCBindings
SPECIFICATION Spec
INVARIANTS AcceptedContractResolves ExprEvidenceIsSound
