SPECIFICATION Spec
CONSTANTS
    A = A
    B = B
    Replicas = {A, B}
    NoReplica = NoReplica
    N = 3
    Malformed = {3}
    MaxUnacked = 2
    MayCrash = TRUE
    PublishMayFail = FALSE
    MaxDemotions = 1
SYMMETRY ReplicaSymmetry
INVARIANTS
    AckedInputsWerePublished
    LeadersTakeTurns
    DuplicatesAreMarked
    OutputsFollowTheQueue
    GracefulHandoffIsClean
PROPERTY AckedInputsStayDone
