CONSTANTS
    Sessions = {s1, s2}
    Flows = {f1, f2}
    NoSession = NoSession
SPECIFICATION FairSpec
INVARIANTS
    CallbacksFindTheirClosures
    ChildrenGoFirst
PROPERTIES
    DestroyedOnce
    NothingIsLeaked
