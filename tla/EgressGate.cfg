SPECIFICATION FairSpec
CONSTANTS
    A = A
    B = B
    Gates = {A, B}
    NoGate = NoGate
    N = 2
    MaxLag = 1
    MayCrash = TRUE
    MaxDemotions = 1
INVARIANTS GatesTakeTurns CountsNeverGoBack
PROPERTIES LeaderRelaysTheLatest SomebodyLeads
