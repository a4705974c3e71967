\* Two requests over targets of every role, whose tags have moved, with jobs that age.
CONSTANTS
    Requests = {r1, r2}
    NoKey = NoKey
    NoCall = NoCall
    Targets <- RoleTargets
    Runs <- RoleRuns
    Moved <- MovedSome
    Retention = 1
    JobLimit = 1
    MaxRestarts = 1
SPECIFICATION FairSpec
CHECK_DEADLOCK FALSE
INVARIANTS MutualExclusion GroundHolds CarriersSpared ClearedWasUpdated PollerGetsItsResult
PROPERTIES ImplementsLock LocksReleased EveryRequestAnswered
