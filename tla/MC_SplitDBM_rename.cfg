CONSTANTS
    Vars <- MCVars
    MaxVert = 4
    WtMax = 127
    Itvs <- MCItvs
    Offsets = {}
    ConstOps = {}
    VarOps = {"mul"}
    Renames <- MCRenames
    Csts <- MCCsts
    Window <- MCWindow
    MaxSteps = 3
SPECIFICATION Spec
INVARIANT Sound
INVARIANT RenameExact
