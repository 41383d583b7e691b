SPECIFICATION Spec
CONSTANTS
    d1 = d1
    f1 = f1
    f2 = f2
    N = 2
    Dirs <- OneDir
    Files <- TwoFiles
    Gone = Gone
    NameLen <- Lengths
    DirSize <- Sizes
    MaxSlots <- Slots
    Bufs <- Buffers
    MaySeek = TRUE
    MayFail = TRUE
    MaxRead = 2
SYMMETRY Symmetry
INVARIANTS
    NoDuplicates
    ScanComplete
    PositionsGrow
