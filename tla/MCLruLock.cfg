SPECIFICATION Spec
CONSTANTS
    t1 = t1
    t2 = t2
    t3 = t3
    p1 = p1
    g1 = g1
    Root = Root
    NoTask = NoTask
    NoPage = NoPage
    Off = Off
    Tasks <- ThreeTasks
    Pages <- OnePage
    Groups <- TwoGroups
    Jobs <- AllJobs
SYMMETRY Alike
INVARIANTS
    ListsIntact
    AssertionsHold
    OwnLists
    AtRest
