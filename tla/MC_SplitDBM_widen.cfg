CONSTANTS
    Vars <- MCVars
    MaxVert = 5
    WtMax = 127
    Itvs <- MCItvs
    Offsets <- MCOffsets
    ConstOps = {"add"}
    VarOps = {}
    Renames = {}
    Csts <- MCCsts
    Window <- MCWindow
    MaxSteps = 3
INIT MCInit
NEXT Next
INVARIANT NormalizeCloses
