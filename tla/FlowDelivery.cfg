SPECIFICATION FairSpec
CONSTANTS
    N = 4
    Window = 2
    MaxUnacked = 3
    MaxBinds = 3
INVARIANTS NothingIsLost NothingIsStranded
PROPERTY EveryMessageIsSeen
