\* PauseLimit is the longest silence the settling window bears.
CONSTANTS
    Services = {web, db}
    SettlePolls = 2
    MaxPolls = 4
    PauseLimit = 2
SPECIFICATION FairSpec
CHECK_DEADLOCK FALSE
INVARIANTS OkMeansReplaced OkMeansOver
PROPERTIES OkOnlyWhenWorking VerdictReached
