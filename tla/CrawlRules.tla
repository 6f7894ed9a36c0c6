---------------------------- MODULE CrawlRules ----------------------------
(***************************************************************************)
(* Crawl rules: configs/crawl4ai/crawl_rule.py and types.py, and the       *)
(* lookups of component/crawl4ai/crawler_pool.py.  A rule keeps what       *)
(* decides the course of a request: its name, the domain of `url`, the     *)
(* domain of `search_engine_url`, how pages are fetched and what text is   *)
(* made of them.  Selectors, filters and browser options are left out.     *)
(***************************************************************************)
EXTENDS Sequences, SequencesExt

NoRule == [name |-> "", url |-> "", search |-> "", mode |-> "", method |-> "",
           type |-> "", extracts |-> FALSE]

CrawlMode == {"classic", "adaptive"}
CrawlResultType == {"html", "markdown", "pdf"}

Rule(name, url, type) ==
    [name |-> name, url |-> url, search |-> url, mode |-> "classic",
     method |-> "statistical", type |-> type, extracts |-> FALSE]

Group(name, rules) == [name |-> name, rules |-> rules]

\* CrawlRuleGroup.model_validate: the enumerated fields hold a known value.
Valid(g) == \A i \in DOMAIN g.rules : /\ g.rules[i].mode \in CrawlMode
                                     /\ g.rules[i].type \in CrawlResultType

\* build_adaptive_crawler: None for any other method, which has no digest.
BuildsCrawler(r) == r.method \in {"statistical", "embedding"}

DefaultGroups == <<
    Group("default", << Rule("default", "default", "html") >>),
    Group("it_blog", <<
        Rule("cnblogs", "www.cnblogs.com", "markdown"),
        Rule("csdn", "www.csdn.net", "markdown"),
        Rule("blog_csdn", "blog.csdn.net", "markdown"),
        Rule("jianshu", "www.jianshu.com", "markdown"),
        Rule("zhihu", "www.zhihu.com", "markdown"),
        Rule("51cto", "www.51cto.com", "markdown"),
        Rule("51cto_blog", "blog.51cto.com", "markdown"),
        Rule("tencent_article", "cloud.tencent.com", "markdown") >>),
    Group("git_repo", << Rule("github", "github.com", "html"),
                         Rule("gitlab", "gitlab.com", "html") >>),
    Group("git_repo_search", <<
        [Rule("github", "github.com", "html") EXCEPT !.extracts = TRUE],
        Rule("gitlab", "gitlab.com", "html") >>),
    Group("common_search_engine", <<
        Rule("baidu", "www.baidu.com", "html"),
        Rule("google", "www.google.com", "html"),
        Rule("bing", "www.bing.com", "html"),
        Rule("brave", "search.brave.com", "html"),
        Rule("yandex", "yandex.com", "html"),
        Rule("duckduckgo", "duckduckgo.com", "html") >>) >>

\* What a source of rules holds: a list of groups, JSON null, text that is not
\* JSON, or nothing at all.
Doc(kind, groups) == [kind |-> kind, groups |-> groups]
Defaults == Doc("list", DefaultGroups)
Null == Doc("null", <<>>)
NotJson == Doc("text", <<>>)
NoDoc == Doc("none", <<>>)

\* Groups that do not validate are logged and skipped.
ValidPart(doc) == SelectSeq(doc.groups, Valid)

-----------------------------------------------------------------------------
FirstRule(rules, domain) ==
    LET hits == SelectSeq(rules, LAMBDA r : r.url = domain)
    IN  IF hits = <<>> THEN NoRule ELSE hits[1]

\* `break` leaves the inner loop only: the last group with a match wins.
MatchUrl(groups, domain) ==
    LET Hit(g) == FirstRule(g.rules, domain)
        hits == SelectSeq(groups, LAMBDA g : Hit(g) # NoRule)
    IN  IF hits = <<>> THEN NoRule ELSE Hit(Last(hits))

\* Without a match the rule of "default" is looked up.  NoRule stands for the
\* recursion that finds none for "default" either: RecursionError.
get_rule_by_url(groups, domain) ==
    IF MatchUrl(groups, domain) # NoRule THEN MatchUrl(groups, domain)
    ELSE MatchUrl(groups, "default")

\* The rules of the first group of that name; a missing group and an empty
\* one are the same to handle_web_search_job.
get_rules_by_group(groups, name) ==
    LET hits == SelectSeq(groups, LAMBDA g : g.name = name)
    IN  IF hits = <<>> THEN <<>> ELSE hits[1].rules

\* The domains handle_web_search_job fetches one after another for an engine:
\* one for each rule of that name.
SearchDomains(rules, engine) ==
    LET hits == SelectSeq(rules, LAMBDA r : r.name = engine)
    IN  [i \in 1..Len(hits) |-> hits[i].search]

-----------------------------------------------------------------------------
\* A page that arun gave back: "loaded", "blank" (success, but neither cleaned
\* nor fitted HTML) or "failed".  The text made of it by
\* create_processed_result: some text, None, or an exception, as the fields of
\* a failed page are None.
Text(rule, page) ==
    CASE rule.extracts /\ page = "loaded"             -> "text"
      [] rule.type = "markdown" /\ page = "failed"    -> "raises"
      [] rule.type = "markdown" /\ page # "failed"    -> "text"
      [] rule.type = "html" /\ page = "loaded"        -> "text"
      [] OTHER                                        -> "None"
=============================================================================
