SPECIFICATION Spec
SYMMETRY Alike
CONSTANTS
    dirA = dirA
    dirB = dirB
    fx = fx
    fy = fy
    fz = fz
    d1 = d1
    d2 = d2
    d3 = d3
    Meta = Meta
    Absent = Absent
    Oops = Oops
    N = 3
    Dirs <- TwoDirs
    Paths <- ThreePaths
    Parent <- ParentOf
    Data <- ThreeData
    SPAN_THRESHOLD = 2
    InitDirs <- Apart
    Ops <- AllOps
    MayCommit = FALSE
    MayCrash = FALSE
    MayFail = FALSE
INVARIANTS
    LookupAgrees
    CacheAgrees
    NoLeftovers
