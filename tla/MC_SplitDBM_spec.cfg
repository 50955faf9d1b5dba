CONSTANTS
    Vars <- MCVars
    MaxVert = 4
    WtMax = 127
    Itvs <- MCItvs
    Offsets <- MCOffsets
    ConstOps = {"add"}
    VarOps = {}
    Renames = {}
    Csts <- MCCsts
    Window <- MCWindow
    MaxSteps = 3
SPECIFICATION Spec
INVARIANT SpecClosure
