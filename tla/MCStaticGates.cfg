CONSTANT
    Alphabets <- MCAlphabets
    Strides <- MCStrides
SPECIFICATION Spec
INVARIANTS DepthIsExact AcceptedIsBalanced AcceptedPreservesRegisters AcceptedReadOnlyStoresNothing
