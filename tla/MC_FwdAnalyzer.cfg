CONSTANTS
    Labels <- MCLabels
    Entry = 0
    Programs <- MCPrograms
    MaxVal = 4
    WideningDelay = 1
    DomBottom <- MCBottom
    DomTop <- MCTop
    DomLeq <- MCLeq
    DomJoin <- MCJoin
    DomMeet <- MCMeet
    DomWiden <- MCWiden
    DomNarrow <- MCNarrow
    DomApply <- MCApply
    DomStmts <- MCStmts
    DomValue <- MCValue
SPECIFICATION Spec
PROPERTIES
    ImplementsContract
    AnalyzerTerminates
