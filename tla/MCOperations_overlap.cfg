\* A watch that ends before the host has finished lets the next operation in.
CONSTANTS
    Requests = {r1, r2}
    NoKey = NoKey
    NoCall = NoCall
    Targets <- ContentionTargets
    Runs <- ContentionRuns
    Moved <- MovedNone
    Retention = 0
    JobLimit = 0
    MaxRestarts = 0
SPECIFICATION Spec
SYMMETRY Symmetry
CHECK_DEADLOCK FALSE
INVARIANT NoDeployWhileAgentReplaced
