SPECIFICATION FairSpec
CONSTANTS
    c1 = c1
    c2 = c2
    Clients = {c1, c2}
    NoClient = NoClient
    NBlocks = 1
    prefetch_blocks = 1
    LRU_LENGTH = 1
    NPhys = 1
    Bios <- FuaAndFlush
    FailAt = {0}
    FsyncMayFail = TRUE
    HostActs = TRUE
    Rebinds = TRUE
INVARIANTS
    SyncedSurvives
    EndedOnce
PROPERTIES
    BioCompletes
    ActsAsDisk
