SPECIFICATION Spec
SYMMETRY Alike
CONSTANTS
    dirA = dirA
    dirB = dirB
    fx = fx
    fy = fy
    fz = fz
    d1 = d1
    d2 = d2
    d3 = d3
    Meta = Meta
    Absent = Absent
    Oops = Oops
    N = 2
    Dirs <- TwoDirs
    Paths <- ThreePaths
    Parent <- ParentOf
    Data <- ThreeData
    SPAN_THRESHOLD = 1
    InitDirs <- Everywhere
    Ops <- Plain
    MayCommit = TRUE
    MayCrash = TRUE
    MayFail = FALSE
CONSTRAINT NotSkipped
INVARIANTS
    CrashSafe
