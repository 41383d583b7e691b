SPECIFICATION FairSpec
CONSTANTS
    t1 = t1
    t2 = t2
    w1 = w1
    f1 = f1
    f2 = f2
    None = None
    Tasks <- MCTasks
    Flushers <- MCFlushers
    Files <- MCFiles
INVARIANTS
    OpenIsPresent
    BoundDuringIO
    OneFile
    FilesHeld
PROPERTY
    CallsReturn
