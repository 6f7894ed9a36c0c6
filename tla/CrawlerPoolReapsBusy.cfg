CONSTANTS
    Task = {t1}
    Janitor = janitor
    Closer = closer
    NoActor = nobody
    Sig = {s1}
    Crawler = {c1, c2}
    NoCrawler = none
    IDLE_TTL_SEC = 1
    MaxTime = 3
SPECIFICATION Spec
PROPERTIES
    ReapsOnlyIdle
CHECK_DEADLOCK TRUE
