SPECIFICATION Spec
SYMMETRY Alike
CONSTANTS
    dirA = dirA
    dirB = dirB
    fx = fx
    fy = fy
    fz = fz
    d1 = d1
    d2 = d2
    d3 = d3
    Meta = Meta
    Absent = Absent
    Oops = Oops
    N = 2
    Dirs <- TwoDirs
    Paths <- ThreePaths
    Parent <- ParentOf
    Data <- TwoData
    SPAN_THRESHOLD = 2
    InitDirs <- Everywhere
    Ops <- Synced
    MayCommit = TRUE
    MayCrash = TRUE
    MayFail = TRUE
CONSTRAINT NotSkipped
INVARIANTS
    LookupAgrees
    CrashSafe
