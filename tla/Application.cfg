CONSTANTS
    t1 = t1
    t2 = t2
    Threads = {t1, t2}
    Programs <- AllPrograms
    NoThread = NoThread
    NoReplyTo = NoReplyTo
    NoCorrelation = NoCorrelation
    ChunkLimit = 2
    RawEvents = {0, 8, 21}
    MaxArrivals = 2
SPECIFICATION FairSpec
INVARIANTS
    OneConfigurationWins
    BatchesStayTogether
    ArrivalsComeThroughInOrder
PROPERTIES
    EveryCallReturns
