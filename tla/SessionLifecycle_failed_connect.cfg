CONSTANTS
    Sessions = {s1}
    Flows = {f1}
    NoSession = NoSession
SPECIFICATION Spec
INVARIANT ClosuresOutliveEverySession
