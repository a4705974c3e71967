\* The listing before the redeploy may fail.
CONSTANTS
    Services = {web}
    SettlePolls = 3
    MaxPolls = 6
    PauseLimit = 3
SPECIFICATION Spec
CHECK_DEADLOCK FALSE
INVARIANT OkAlwaysMeansReplaced
