CONSTANTS
    Url <- SmallUrl
    StartUrls = {"a"}
    Term = {"x", "y"}
    LinksOf <- SmallLinks
    TermsOf <- SmallTerms
    max_depth = 2
    max_pages = 3
    top_k_links = 2
    authority_weight = 20
    min_gain_threshold = 10
    MaxDigests = 1
    Query = "q"
    Variation = {"v1", "v2", "v3"}
    n_validation = 2
SPECIFICATION CrawlerSpec
PROPERTIES
    SkipsCrawled
CHECK_DEADLOCK FALSE
