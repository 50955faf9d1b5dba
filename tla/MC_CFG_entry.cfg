CONSTANTS
    Labels <- MCLabels
    Entry <- MCEntry
    Exit <- MCExit
    EdgeUniverse <- AnyEdges
    MaxOutDegree = 2
SPECIFICATION Spec
INVARIANTS
    NoAbort
