SPECIFICATION Spec
CONSTANTS
    t1 = t1
    t2 = t2
    t3 = t3
    lo = lo
    sd = sd
    root = root
    f = f
    i1 = i1
    i2 = i2
    i3 = i3
    NoObj = NoObj
    Off = Off
    Tasks <- ThreeTasks
    Sbs <- TwoSbs
    LoopSbs <- OneLoop
    Inos <- TwoInos
    RootIno = root
    Objs <- ThreeObjs
    MaxTables = 2
SYMMETRY Alike
INVARIANTS
    OneInode
    RefsSafe
    NumberIsFree
    UnderLock
    WaitsForFreeing
