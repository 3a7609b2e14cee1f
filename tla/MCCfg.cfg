SPECIFICATION Spec
CONSTANTS
    Layouts <- MCLayouts
    Shapes <- MCShapes
INVARIANTS BlocksTile UnreachableIsDead AcceptedStaysInside
