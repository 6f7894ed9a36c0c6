CONSTANTS
    Task = {t1, t2}
    Client = {c1}
    NoTask = none
    CLEANUP = 1
    WEEK = 2
SPECIFICATION FairSpec
INVARIANTS
    TypeOK
    RecordIsWhole
    StatusHasItsPayload
PROPERTIES
    StatusOnlyAdvances
    JobEnds
    WeekEnds
CHECK_DEADLOCK TRUE
