SPECIFICATION Spec
CONSTANTS
    ReadyPolls = 2
    StablePolls = 1
PROPERTY FailureIsTheHelpers
CHECK_DEADLOCK FALSE
