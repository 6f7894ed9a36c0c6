CONSTANTS
    Task = {t1, t2}
    Janitor = janitor
    Closer = closer
    NoActor = nobody
    Sig = {s1}
    Crawler = {c1, c2, c3}
    NoCrawler = none
    IDLE_TTL_SEC = 0
    MaxTime = 1
SPECIFICATION FairSpec
PROPERTIES
    GetCrawlerReturns
    IdleIsReaped
CHECK_DEADLOCK TRUE
