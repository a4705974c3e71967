\* The helper may stop for good once it has reported.
SPECIFICATION FairSpec
CONSTANTS
    ReadyPolls = 4
    StablePolls = 2
INVARIANTS NeverBothGone OneAtATime ReportIsTrue SuccessIsTrue
PROPERTY HelperEnds
CHECK_DEADLOCK FALSE
