SPECIFICATION FairSpec
CONSTANTS
    SectorsPerBlock = 2
    MaxSectors = 4
    MaxPages = 3
    NPhys = 3
    Requests <- MCRequests
    Maps <- MCMaps
INVARIANTS
    DataInPlace
    NothingLost
    NoUseAfterFree
    OrigEndedOnce
PROPERTY
    OrigCompletes
