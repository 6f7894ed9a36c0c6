CONSTANTS
    Request = {r1, r2, r3}
    failure_threshold = 2
    reset_timeout = 2
    half_open_requests = 2
SPECIFICATION FairSpec
INVARIANTS
    TypeOK
    OpenNeedsThreshold
    TrialStartsFresh
PROPERTIES
    StreakOpens
    RejectsOnlyAfterFailure
    StaysReachable
CHECK_DEADLOCK TRUE
