CONSTANTS
    Calls = {c1, c2}
    NoCall = NoCall
    Window = 1
    TagMayFail = TRUE
    SendMayFail = TRUE
SPECIFICATION FairSpec
INVARIANTS
    PromisesKeepTheAnswer
    TaggedAnswersStayPrivate
    SendersAreOwed
    WaitersAreServed
PROPERTIES
    ImplementsAckPromise
    EveryPublishReturns
    EveryAnswerArrives
