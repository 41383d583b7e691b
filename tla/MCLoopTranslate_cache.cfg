SPECIFICATION Spec
CONSTANTS
    c1 = c1
    c2 = c2
    Clients = {c1, c2}
    NoClient = NoClient
    NBlocks = 2
    prefetch_blocks = 2
    LRU_LENGTH = 2
    NPhys = 3
    Bios <- ReadsAndWrites
    FailAt = {0, 1}
    FsyncMayFail = FALSE
    HostActs = FALSE
    Rebinds = FALSE
SYMMETRY Symmetry
CONSTRAINT NotLate
INVARIANTS
    AnsweredOnce
    ExactTranslation
    WritesStayInFile
    CacheSound
