CONSTANTS
    Labels <- MCLabels
    Entry <- MCEntry
    Exit <- MCExit
    EdgeUniverse <- BuilderEdges
    MaxOutDegree = 2
SPECIFICATION TwiceSpec
INVARIANTS
    TypeOK
    CfgWellFormed
    SimplifyIsContraction
    CodeNoAbort
    
    SimplifyIdempotent
    PrunedReachable
PROPERTIES
    SimplifyTerminates
    ImplementsContraction
