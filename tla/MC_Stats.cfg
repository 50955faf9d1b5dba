CONSTANTS
    Ops <- MCOps
    Calls <- MCCalls
    MaxDepth = 2
    MaxTime = 3700
    TickSizes = {1800, 3661}
    Width = 1
    Values = {1}
    MicrosPerSec = 1
SPECIFICATION Spec
INVARIANTS
    NeverOvercounts
    ElapsedExact
    ReadoutDenotesElapsed
