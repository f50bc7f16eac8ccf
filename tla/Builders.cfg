CONSTANTS
    Kinds <- AllKinds
    Samples <- SampleNumbers
    Word = 16
    MaxUserData = 3
    MaxCalls = 2
SPECIFICATION Spec
CHECK_DEADLOCK FALSE
INVARIANTS
    ListsAreWellFormed
    LibraryGetsTheLastWord
    RefusalsAreJust
    MessageReadsBack
    ForeignFieldsAreNotInvented
