CONSTANTS
    FileDocs <- MCFileDocs
    RemoteDocs <- MCRemoteDocs
    MaxPush = 1
    Call <- MCCall
    Kinds <- MCKinds
    Urls <- MCUrls
    Engine <- MCEngine
    search = search
    crawl = crawl
    MAX_PAGES = 1
SPECIFICATION FairSpec
INVARIANTS
    TypeOK
    RulesAreOneSet
    PermitsConserved
    ContentIsWhole
CHECK_DEADLOCK FALSE
PROPERTIES
    CallsEnd
