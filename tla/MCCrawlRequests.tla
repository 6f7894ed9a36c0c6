-------------------------- MODULE MCCrawlRequests --------------------------
(***************************************************************************)
(* Small instances of CrawlRequests for TLC: a search of two engines and a *)
(* crawl of two URLs compete for the permits while the rules change.       *)
(***************************************************************************)
EXTENDS CrawlRequests, TLC

CONSTANTS search, crawl

MCCall == {search, crawl}
MCKinds == search :> {"web_search"} @@ crawl :> {"crawl_web", "stream"}
MCUrls == search :> {} @@ crawl :> {<<"www.cnblogs.com", "example.org">>, <<>>}
MCEngine == search :> {"brave", "baidu"} @@ crawl :> {}

\* Rules without a default, with two rules for one engine, one of them for
\* PDF, with an adaptive one, and with a group that does not validate.
Partial == Doc("list", <<
    Group("common_search_engine", <<
        Rule("brave", "search.brave.com", "markdown"),
        Rule("brave", "brave.com", "pdf"),
        [Rule("baidu", "www.baidu.com", "html") EXCEPT !.mode = "adaptive"] >>),
    Group("default", << Rule("default", "default", "docx") >>) >>)

Full == Doc("list", <<
    Group("default", << Rule("default", "default", "html") >>),
    Group("common_search_engine", << Rule("brave", "search.brave.com", "html"),
                                     Rule("baidu", "www.baidu.com", "html") >>),
    Group("it_blog", << [Rule("cnblogs", "www.cnblogs.com", "html")
                            EXCEPT !.mode = "adaptive", !.method = "llm"] >>) >>)

MCFileDocs == {NoDoc}
MCRemoteDocs == {NoDoc, Null, Full, Partial}
=============================================================================
