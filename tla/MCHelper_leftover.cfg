SPECIFICATION Spec
CONSTANTS
    ReadyPolls = 2
    StablePolls = 1
INVARIANT FailureTellsOfOriginal
CHECK_DEADLOCK FALSE
