SPECIFICATION RigSpec
CONSTANTS
    A = A
    B = B
    Replicas = {A, B}
    NoReplica = NoReplica
    N = 3
    Malformed = {2}
    MaxUnacked = 2
    MayCrash = TRUE
    PublishMayFail = FALSE
    MaxDemotions = 0
    SomeAreSkipped = TRUE
PROPERTY EveryInputIsRecorded
