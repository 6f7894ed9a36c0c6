CONSTANTS
    Task = {t1, t2}
    Client = {c1, c2}
    NoTask = none
    CLEANUP = 1
    WEEK = 2
SPECIFICATION Spec
SYMMETRY Interchangeable
PROPERTIES
    PollFetchesResult
CHECK_DEADLOCK TRUE
