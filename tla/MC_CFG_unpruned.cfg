CONSTANTS
    Labels <- MCLabels
    Entry <- MCEntry
    Exit <- MCExit
    EdgeUniverse <- BuilderEdges
    MaxOutDegree = 2
SPECIFICATION Spec
INVARIANTS
    ReachableAfterSimplify
