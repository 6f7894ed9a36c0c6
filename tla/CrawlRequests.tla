--------------------------- MODULE CrawlRequests ---------------------------
(***************************************************************************)
(* Crawl and search calls: the MCP tools of mcp_service/crawl_tools.py,    *)
(* the RPC service, the HTTP controllers, and under them                   *)
(* Crawl4AIService.handle_crawl_request, handle_web_search_job and the     *)
(* GLOBAL_SEM permits of app_factory.py, while RemoteRules changes the     *)
(* rules.                                                                  *)
(*                                                                         *)
(* A call runs one fetch (a run of handle_crawl_request or of              *)
(* handle_web_search_job), or, to search, one fetch for each engine under  *)
(* asyncio.gather.  A fetch waits for a browser and then loads its pages,  *)
(* each under a permit.  A step is the code between two awaits.  Of the    *)
(* browser this module knows what LeaseService promises: it is lent or     *)
(* refused.                                                                *)
(***************************************************************************)
EXTENDS RemoteRules

CONSTANTS
    Call,       \* calls of tools, RPC methods and HTTP handlers
    Kinds,      \* Kinds[k]: what the call may be, see Validates and Searches
    Urls,       \* Urls[k]: the lists of domains a crawl call may ask for
    Engine,     \* Engine[k]: the set of engines a search call asks
    MAX_PAGES   \* config.CRAWLER_MAX_PAGES

ASSUME MaxPagesAssumption == MAX_PAGES \in Nat \ {0}
ASSUME UrlsAssumption == Urls \in [Call -> SUBSET Seq(STRING)]

VARIABLES
    kind,    \* what each call is
    call,    \* "new", "running", "content", "error" or "cancelled"
    fetch,   \* fetch -> the local state of its coroutine
    permits, \* value of GLOBAL_SEM
    queue    \* <<fetch, i>>: pages that wait for a permit, first come first

cvars == <<kind, call, fetch, permits, queue>>
vars == <<rvars, cvars>>

\* crawl_web, crawl_stream_job and the search tools pass the answer through
\* CrawlJobResponse; the RPC crawl and POST /web_search do not.
Validates(k) == kind[k] \in {"crawl_web", "crawl_stream", "stream", "web_search"}
Searches(k) == kind[k] \in {"web_search", "web_search_http"}
Streams(k) == kind[k] = "stream"

Fetch == UNION {{k} \X (IF Engine[k] = {} THEN {""} ELSE Engine[k]) : k \in Call}
FetchesOf(k) == {f \in Fetch : f[1] = k}

(***************************************************************************)
(* phase:  "idle", "ready", "asking", "loading" or "done"                  *)
(* urls:   the domains of the request it is making                         *)
(* rest:   search domains of further rules of its engine                   *)
(* rule:   the rule its request goes by                                    *)
(* page:   each URL's page: "queued", "loading", "cancelled" or an Outcome *)
(* result: "texts", "partial" (a text is None), "message" (success False), *)
(*         "generator", "error" (an exception) or, before all that, "none" *)
(***************************************************************************)
NewFetch == [phase |-> "idle", urls |-> <<>>, rest |-> <<>>, rule |-> NoRule,
             page |-> <<>>, result |-> "none"]

Init ==
    /\ RulesInit
    /\ kind \in {g \in [Call -> UNION {Kinds[k] : k \in Call}] :
                   \A k \in Call : g[k] \in Kinds[k]}
    /\ call = [k \in Call |-> "new"]
    /\ fetch = [f \in Fetch |-> NewFetch]
    /\ permits = MAX_PAGES
    /\ queue = <<>>

-----------------------------------------------------------------------------
\* A call starts; gather makes a task of each search.
Begin(k) ==
    /\ call[k] = "new" /\ up = "up"
    /\ call' = [call EXCEPT ![k] = "running"]
    /\ fetch' = [f \in Fetch |-> IF f[1] = k
                                 THEN [NewFetch EXCEPT !.phase = "ready"]
                                 ELSE fetch[f]]
    /\ UNCHANGED <<rvars, kind, permits, queue>>

\* Its call was withdrawn before it had a result.
Cancelled(f) == call[f[1]] = "cancelled" /\ fetch[f].result = "none"
At(f, p) == fetch[f].phase = p /\ ~Cancelled(f)

\* With an exception the coroutine's locals are gone.
Finish(f, r) ==
    fetch' = [fetch EXCEPT ![f] =
                 [(IF r = "error" THEN NewFetch ELSE @)
                     EXCEPT !.phase = "done", !.result = r]]

\* Mutant: the second request of a search begins with the pages of the first.
RequestKeepsPages(f, domains, more) ==
    LET r == IF domains = <<>> THEN NoRule
             ELSE get_rule_by_url(CRAWL_RULES, domains[1]) IN
    IF r = NoRule THEN Finish(f, "error")
    ELSE fetch' = [fetch EXCEPT ![f] =
                      [@ EXCEPT !.phase = "asking", !.urls = domains,
                                !.rest = more, !.rule = r]]

\* handle_crawl_request up to the await of get_crawler: the rule of the first
\* URL goes for all of them.  No URL, or no rule at all, is an exception,
\* answered as 500.
Request(f, domains, more) ==
    LET r == IF domains = <<>> THEN NoRule
             ELSE get_rule_by_url(CRAWL_RULES, domains[1]) IN
    IF r = NoRule THEN Finish(f, "error")
    ELSE fetch' = [fetch EXCEPT ![f] =
                      [NewFetch EXCEPT !.phase = "asking", !.urls = domains,
                                       !.rest = more, !.rule = r]]

StartCrawl(f) ==
    /\ At(f, "ready") /\ ~Searches(f[1])
    /\ \E urls \in Urls[f[1]] : Request(f, urls, <<>>)
    /\ UNCHANGED <<rvars, kind, call, permits, queue>>

\* handle_web_search_job: without search rules an exception, without a rule
\* for this engine [], which is no CrawlJobResponse.
StartSearch(f) ==
    /\ At(f, "ready") /\ Searches(f[1])
    /\ LET rules == get_rules_by_group(CRAWL_RULES, "common_search_engine")
           domains == SearchDomains(rules, f[2])
       IN  IF domains # <<>>
           THEN Request(f, SubSeq(domains, 1, 1), Tail(domains))
           ELSE Finish(f, IF rules = <<>> \/ Validates(f[1])
                          THEN "error" ELSE "texts")
    /\ UNCHANGED <<rvars, kind, call, permits, queue>>

\* get_crawler raises, or returns None, which has no arun.
BrowserRefused(f) ==
    /\ At(f, "asking")
    /\ Finish(f, "error")
    /\ UNCHANGED <<rvars, kind, call, permits, queue>>

\* arun or arun_many: every page waits for a permit.  With stream and several
\* URLs arun_many returns a generator that loads nothing before it is read.
\* Two kinds of rule load more than this: one with deep_crawl the pages that its
\* strategy finds (left out), and an adaptive one several pages of each URL, one
\* URL after the other (one page for each here, all at once; AdaptiveCrawler has
\* the crawl itself).
BrowserLent(f) ==
    LET urls == fetch[f].urls
        r == fetch[f].rule
        lazily == Streams(f[1]) /\ Len(urls) > 1 /\ r.mode = "classic"
        unbuilt == r.mode = "adaptive" /\ ~BuildsCrawler(r)
    IN
    /\ At(f, "asking")
    /\ \/ lazily /\ Finish(f, "generator") /\ UNCHANGED queue
       \/ unbuilt /\ Finish(f, "error") /\ UNCHANGED queue
       \/ /\ ~lazily /\ ~unbuilt
          /\ fetch' = [fetch EXCEPT ![f].phase = "loading",
                          ![f].page = [i \in DOMAIN urls |-> "queued"]]
          /\ queue' = queue \o [i \in DOMAIN urls |-> <<f, i>>]
    /\ UNCHANGED <<rvars, kind, call, permits>>

-----------------------------------------------------------------------------
(* capped_arun *)

TakePermit ==
    /\ queue # <<>> /\ permits > 0
    /\ permits' = permits - 1
    /\ queue' = Tail(queue)
    /\ fetch' = [fetch EXCEPT ![queue[1][1]].page[queue[1][2]] = "loading"]
    /\ UNCHANGED <<rvars, kind, call>>

Outcome == {"loaded", "blank", "failed"}
Loading(f) == {i \in DOMAIN fetch[f].page : fetch[f].page[i] = "loading"}

\* Mutant: the permit is given back after the await, not by `async with`.
EndLoadKeepsPermit(f) ==
    /\ permits' = IF Cancelled(f) THEN permits ELSE permits + 1
    /\ \E i \in Loading(f), s \in IF Cancelled(f) THEN {"cancelled"} ELSE Outcome :
          fetch' = [fetch EXCEPT ![f].page[i] = s]
    /\ UNCHANGED <<rvars, kind, call, queue>>

\* arun returns its CrawlResult, or the cancellation ends it; `async with`
\* gives the permit back either way.
EndLoad(f) ==
    /\ permits' = permits + 1
    /\ \E i \in Loading(f), s \in IF Cancelled(f) THEN {"cancelled"} ELSE Outcome :
          fetch' = [fetch EXCEPT ![f].page[i] = s]
    /\ UNCHANGED <<rvars, kind, call, queue>>

Over(f) == \A i \in DOMAIN fetch[f].page :
               fetch[f].page[i] \notin {"queued", "loading"}

\* Mutant: None becomes the empty string.
NoneIsEmpty(r, s) == IF Text(r, s) = "None" THEN "text" ELSE Text(r, s)
CrawlText(r, s) == Text(r, s)

\* What handle_crawl_request makes of its pages.  An adaptive crawl never
\* reports success, and digest or get_relevant_content may raise; a single
\* failed page is reported by its error message.
Answers(f) ==
    LET r == fetch[f].rule
        page == fetch[f].page
        texts == {CrawlText(r, page[i]) : i \in DOMAIN page}
    IN  CASE r.mode = "adaptive"     -> {"message", "error"}
          [] page = <<"failed">>     -> {"message"}
          [] "raises" \in texts      -> {"error"}
          [] "None" \in texts        -> {"partial"}
          [] OTHER                   -> {"texts"}

\* The request is over: a search goes on with the next rule of its engine and
\* one more URL, else the answer is validated where the caller does so.
EndRequest(f) ==
    /\ At(f, "loading") /\ Over(f)
    /\ \E a \in Answers(f) :
          LET rest == fetch[f].rest IN
          \/ /\ rest # <<>> /\ a # "error"
             /\ Request(f, Append(fetch[f].urls, rest[1]), Tail(rest))
          \/ /\ rest = <<>> \/ a = "error"
             /\ Finish(f, IF Validates(f[1]) /\ a # "texts" THEN "error" ELSE a)
    /\ UNCHANGED <<rvars, kind, call, permits, queue>>

-----------------------------------------------------------------------------
\* gather without return_exceptions: the first exception answers the call
\* while the other searches run on.  A generator is answered by a
\* StreamingResponse whose first step raises.
Reply(k) ==
    /\ call[k] = "running"
    /\ LET results == {fetch[f].result : f \in FetchesOf(k)} IN
       \/ /\ results \cap {"error", "generator"} # {}
          /\ call' = [call EXCEPT ![k] = "error"]
       \/ /\ results \cap {"none", "error", "generator"} = {}
          /\ call' = [call EXCEPT ![k] = "content"]
    /\ UNCHANGED <<rvars, kind, fetch, permits, queue>>

\* The places in the queue of pages of other calls, and what the queue is when
\* only they keep theirs, in the same order.
PlacesOfOthers(k) == {n \in DOMAIN queue : queue[n][1][1] # k}
LeaveQueue(k) ==
    \E stay \in [1..Cardinality(PlacesOfOthers(k)) -> PlacesOfOthers(k)] :
        /\ \A i, j \in DOMAIN stay : i < j => stay[i] < stay[j]
        /\ queue' = [i \in DOMAIN stay |-> queue[stay[i]]]

\* The client withdraws a call: its task and, under gather, the searches still
\* in progress are cancelled.  Whoever waits leaves; a load in progress ends in
\* a step of its own.
Cancel(k) ==
    /\ call[k] = "running"
    /\ call' = [call EXCEPT ![k] = "cancelled"]
    /\ LeaveQueue(k)
    /\ fetch' = [f \in Fetch |->
                    IF f[1] # k THEN fetch[f]
                    ELSE [fetch[f] EXCEPT !.page =
                             [i \in DOMAIN @ |-> IF @[i] = "queued"
                                                 THEN "cancelled" ELSE @[i]]]]
    /\ UNCHANGED <<rvars, kind, permits>>

EndCancelled(f) ==
    /\ Cancelled(f) /\ Over(f)
    /\ Finish(f, "error")
    /\ UNCHANGED <<rvars, kind, call, permits, queue>>

FetchStep(f) ==
    \/ StartCrawl(f) \/ StartSearch(f)
    \/ BrowserRefused(f) \/ BrowserLent(f)
    \/ EndLoad(f) \/ EndRequest(f) \/ EndCancelled(f)

Next ==
    \/ RulesNext /\ UNCHANGED cvars
    \/ \E k \in Call : Begin(k) \/ Reply(k) \/ Cancel(k)
    \/ \E f \in Fetch : FetchStep(f)
    \/ TakePermit

Spec == Init /\ [][Next]_vars

\* The event loop never idles while a task is ready, get_crawler comes back
\* (CrawlerPool), and arun ends at the latest with its page timeout.  Nobody
\* has to call, to cancel or to push rules.
Fairness ==
    WF_vars((\E f \in Fetch : FetchStep(f)) \/ (\E k \in Call : Reply(k)) \/ TakePermit)

FairSpec == Spec /\ Fairness

-----------------------------------------------------------------------------
TypeOK ==
    /\ config_cache \in RemoteDocs \cup {NoDoc} /\ pushes \in 0..MaxPush
    /\ listener \in {"none", "pending", "registered"}
    /\ up \in {"starting", "up", "crashed"}
    /\ call \in [Call -> {"new", "running", "content", "error", "cancelled"}]
    /\ \A f \in Fetch :
          /\ fetch[f].phase \in {"idle", "ready", "asking", "loading", "done"}
          /\ fetch[f].result \in {"none", "texts", "partial", "message",
                                  "generator", "error"}
          /\ Len(fetch[f].page) \in {0, Len(fetch[f].urls)}
    /\ permits \in 0..MAX_PAGES

\* GLOBAL_SEM counts exactly the pages being loaded, also those of searches
\* whose call was answered long ago with the exception of another search, and
\* those of cancelled calls that are still winding up; and the pages that wait
\* for a permit are those in its queue.
PermitsConserved ==
    /\ permits + Cardinality(UNION {{f} \X Loading(f) : f \in Fetch}) = MAX_PAGES
    /\ \A f \in Fetch : \A i \in DOMAIN fetch[f].page :
          fetch[f].page[i] = "queued" <=> \E n \in DOMAIN queue : queue[n] = <<f, i>>

\* A caller that validates is answered with the text of every page it asked
\* for or not at all: neither a page that failed to load, nor a rule set that
\* was replaced between the choice of an engine and the request to it, nor
\* another search's exception leaves a hole in an answer.
ContentIsWhole ==
    \A k \in Call : call[k] = "content" /\ Validates(k) =>
        \A f \in FetchesOf(k) :
            /\ Len(fetch[f].page) = Len(fetch[f].urls) /\ fetch[f].urls # <<>>
            /\ \A i \in DOMAIN fetch[f].page :
                  \/ fetch[f].page[i] = "loaded"
                  \/ fetch[f].page[i] = "blank" /\ fetch[f].rule.type = "markdown"

\* Every call is answered or cancelled, and every search it leaves behind
\* ends: the server always comes to rest, with all permits back.
CallsEnd ==
    []<>(/\ \A k \in Call : call[k] # "running"
         /\ \A f \in Fetch : fetch[f].phase \in {"idle", "done"}
         /\ permits = MAX_PAGES)
=============================================================================
