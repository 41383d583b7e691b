SPECIFICATION Spec
SYMMETRY Alike
CONSTANTS
    N = 2
    SPAN_THRESHOLD = 20
    Tasks = {t1, t2}
    Slots <- MCSlots
    Root = "/"
    Parent <- MCParent
    Moves <- MCMoves
    MaxCalls = 6
INVARIANTS
    FilesVisible
    PathsAgree
    MapIsDisk
    NoOops
CHECK_DEADLOCK FALSE
