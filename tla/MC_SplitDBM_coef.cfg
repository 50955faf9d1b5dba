CONSTANTS
    Vars = {1, 2}
    MaxVert = 3
    WtMax = 3
    Itvs <- MCItvs
    Offsets = {}
    ConstOps = {}
    VarOps = {}
    Renames = {}
    Csts <- MCCsts
    Window <- MCWindow
    MaxSteps = 3
SPECIFICATION Spec
INVARIANT Sound
