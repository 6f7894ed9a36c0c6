CONSTANTS
    Url <- SmallUrl
    StartUrls = {"a", "c"}
    Term = {"x", "y"}
    LinksOf <- SmallLinks
    TermsOf <- SmallTerms
    max_depth = 3
    max_pages = 2
    top_k_links = 2
    authority_weight = 20
    min_gain_threshold = 10
    MaxDigests = 2
    Query = "q"
    Variation = {"v1", "v2", "v3"}
    n_validation = 2
SPECIFICATION FairSpec
INVARIANTS
    CrawlerTypeOK
    TermsAgree
    HistoriesAgree
    PagesBounded
    KbFollowsPages
PROPERTIES
    GapsOfTheseQueries
    DigestEnds
CHECK_DEADLOCK FALSE
