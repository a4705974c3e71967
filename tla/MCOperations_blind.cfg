\* The tag of an agent has moved, and nothing tells when it is inspected.
CONSTANTS
    Requests = {r1, r2}
    NoKey = NoKey
    NoCall = NoCall
    Targets <- RoleTargets
    Runs <- RoleRuns
    Moved <- MovedSome
    Retention = 0
    JobLimit = 0
    MaxRestarts = 0
SPECIFICATION Spec
SYMMETRY Symmetry
CHECK_DEADLOCK FALSE
INVARIANT BlindGuardsRefuse
