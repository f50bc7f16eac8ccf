CONSTANTS
    Calls = {c1, c2}
    NoCall = NoCall
    Window = 1
    TagMayFail = TRUE
    SendMayFail = FALSE
SPECIFICATION Spec
INVARIANT TrackedAnswersAreNotEvents
