CONSTANTS
    Kinds <- OnlyCache
    Samples <- SampleNumbers
    Word = 16
    MaxUserData = 3
    MaxCalls = 2
SPECIFICATION Spec
CHECK_DEADLOCK FALSE
INVARIANT CacheLimitArrives
