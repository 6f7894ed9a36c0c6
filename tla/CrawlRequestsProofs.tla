------------------------ MODULE CrawlRequestsProofs ------------------------
(***************************************************************************)
(* The safety invariants of CrawlRequests and RemoteRules for every number *)
(* of calls, engines, permits and pushes and every content of the rules    *)
(* file and of the Nacos server.                                           *)
(***************************************************************************)
EXTENDS CrawlRequests, FiniteSetTheorems, SequenceTheorems, TLAPS

(***************************************************************************)
(* The rules.  RulesAreOneSet is not inductive: a push is only safe since  *)
(* the listener exists after start-up alone, and what start-up loads must  *)
(* not find the document of an earlier push in config_cache.               *)
(***************************************************************************)
RulesInv ==
    /\ config_cache \in RemoteDocs \cup {NoDoc} /\ pushes \in 0..MaxPush
    /\ listener \in {"none", "pending", "registered"}
    /\ up \in {"starting", "up", "crashed"}
    /\ up = "starting" => config_cache = NoDoc /\ listener # "registered"
    /\ listener = "registered" => up = "up"
    /\ RulesAreOneSet

\* What init_crawler_env makes of a document it may read.
LEMMA AppendRulesInv ==
    ASSUME RulesInv, up = "starting", NEW doc, AppendRules(doc),
           doc \in FileDocs \cup RemoteDocs \cup {Null, NoDoc},
           UNCHANGED <<config_cache, pushes>>, listener' \in {listener, "pending"}
    PROVE  RulesInv'
  <1>1. config_cache' = NoDoc /\ listener' \in {"none", "pending"}
    BY DEF RulesInv
  <1>2. CASE doc.kind \in {"text", "null"}
    BY <1>1, <1>2 DEF RulesInv, AppendRules, RulesAreOneSet
  <1>3. CASE doc.kind \notin {"text", "null"}
    <2>1. doc # Null
      BY <1>3 DEF Null, Doc
    <2>2. up' = "up"
          /\ CRAWL_RULES' = ValidPart(IF doc = NoDoc THEN Defaults ELSE doc)
      BY <1>3 DEF AppendRules
    <2>3. \E d \in FileDocs \cup RemoteDocs \cup {Defaults} :
             CRAWL_RULES' = ValidPart(d)
      BY <2>1, <2>2
    <2>. QED
      BY <1>1, <2>2, <2>3 DEF RulesInv, RulesAreOneSet
  <1>. QED
    BY <1>2, <1>3

\* Loading, registering and every call of the listener keep one document's
\* rules in force.
LEMMA RulesNextInv ==
    ASSUME RulesInv, RulesNext \/ UNCHANGED rvars
    PROVE  RulesInv'
  <1>1. CASE UNCHANGED rvars
    BY <1>1 DEF rvars, RulesInv, RulesAreOneSet
  <1>2. CASE LoadFile
    BY <1>2, AppendRulesInv DEF LoadFile
  <1>3. CASE LoadNacos
    <2>1. PICK answer \in RemoteDocs \cup {NotJson} :
             AppendRules(NacosAnswer(answer))
      BY <1>3 DEF LoadNacos
    <2>2. NacosAnswer(answer) \in FileDocs \cup RemoteDocs \cup {Null, NoDoc}
      BY DEF NacosAnswer
    <2>. QED
      BY <1>3, <2>1, <2>2, AppendRulesInv DEF LoadNacos
  <1>4. CASE Register
    BY <1>4 DEF Register, RulesInv, RulesAreOneSet
  <1>5. CASE ConfigWatcher
    <2>1. PICK doc \in (RemoteDocs \cup {NotJson}) \ {NoDoc} :
             IF doc = NotJson THEN UNCHANGED <<CRAWL_RULES, config_cache>>
             ELSE config_cache' = doc /\ change_crawl_rule(doc)
      BY <1>5 DEF ConfigWatcher
    <2>2. up = "up" /\ up' = "up" /\ listener' = "registered"
          /\ pushes' \in 0..MaxPush
      BY <1>5, MaxPushAssumption DEF ConfigWatcher, RulesInv
    <2>3. CASE doc = NotJson
      BY <2>1, <2>2, <2>3 DEF RulesInv, RulesAreOneSet
    <2>4. CASE doc # NotJson
      BY <2>1, <2>2, <2>4 DEF RulesInv, RulesAreOneSet, change_crawl_rule
    <2>. QED
      BY <2>3, <2>4
  <1>. QED
    BY <1>1, <1>2, <1>3, <1>4, <1>5 DEF RulesNext, Load

(***************************************************************************)
(* A fetch.  Fetched(r, c, v) is what its record r satisfies when its call *)
(* is in state c and validates if v: what PermitsConserved and             *)
(* ContentIsWhole need to know of the phases.                              *)
(***************************************************************************)
IsSeq(s) == \E S : s \in Seq(S)
Phases == {"idle", "ready", "asking", "loading", "done"}
PageState == {"queued", "loading", "cancelled"} \cup Outcome
Results == {"none", "texts", "partial", "message", "generator", "error"}
CallState == {"new", "running", "content", "error", "cancelled"}
Fields == {"phase", "urls", "rest", "rule", "page", "result"}

\* The record's fields.
RecordType(r) ==
    /\ DOMAIN r = Fields
    /\ r.phase \in Phases /\ r.result \in Results
    /\ IsSeq(r.urls) /\ r.page \in Seq(PageState)
    /\ r.page = <<>> \/ Len(r.page) = Len(r.urls)

\* The pages of record r in one state.
PagesIn(r, s) == {i \in DOMAIN r.page : r.page[i] = s}

\* What each phase of a fetch has and has not yet.
PhaseFacts(r) ==
    /\ r.phase \in {"idle", "ready", "asking"} => r.page = <<>>
    /\ r.phase \in {"asking", "loading"} => r.urls # <<>>
    /\ r.phase = "loading" => Len(r.page) = Len(r.urls)
    /\ r.result # "none" <=> r.phase = "done"
    /\ r.phase = "done" => PagesIn(r, "queued") = {} /\ PagesIn(r, "loading") = {}

\* What the call's state says of its fetch.
CallFacts(r, c) ==
    /\ c = "new" => r = NewFetch
    /\ c # "cancelled" => PagesIn(r, "cancelled") = {}
    /\ c = "content" => r.result \notin {"none", "error", "generator"}

\* Every page gave a text.
Whole(r) ==
    /\ Len(r.page) = Len(r.urls) /\ r.urls # <<>>
    /\ \A i \in DOMAIN r.page :
          \/ r.page[i] = "loaded"
          \/ r.page[i] = "blank" /\ r.rule.type = "markdown"

\* A validating caller's fetch ends with whole texts or with an exception.
ResultFacts(r, v) ==
    v => /\ r.result \notin {"partial", "message"}
         /\ r.result = "texts" => Whole(r)

Fetched(r, c, v) ==
    RecordType(r) /\ PhaseFacts(r) /\ CallFacts(r, c) /\ ResultFacts(r, v)

FetchInv == \A f \in Fetch : Fetched(fetch[f], call[f[1]], Validates(f[1]))

(***************************************************************************)
(* The queue and the permits.                                              *)
(***************************************************************************)
Queued(f) == PagesIn(fetch[f], "queued")
InLoad == UNION {{f} \X Loading(f) : f \in Fetch}

\* The queue holds each page that waits, once, and nothing else.
QueueInv ==
    /\ queue \in Seq(Fetch \X Nat)
    /\ \A m, n \in DOMAIN queue : queue[m] = queue[n] => m = n
    /\ \A n \in DOMAIN queue : queue[n][2] \in Queued(queue[n][1])
    /\ \A f \in Fetch : \A i \in Queued(f) :
          \E n \in DOMAIN queue : queue[n] = <<f, i>>

PermitInv ==
    /\ permits \in Nat /\ IsFiniteSet(InLoad)
    /\ permits + Cardinality(InLoad) = MAX_PAGES

Inv ==
    /\ RulesInv
    /\ call \in [Call -> CallState]
    /\ fetch = [f \in Fetch |-> fetch[f]]
    /\ FetchInv /\ QueueInv /\ PermitInv

\* A fetch is a call and one of its engines.
LEMMA FetchFacts ==
    ASSUME NEW f \in Fetch
    PROVE  f[1] \in Call
  <1>1. PICK k \in Call :
           f \in {k} \X (IF Engine[k] = {} THEN {""} ELSE Engine[k])
    BY DEF Fetch
  <1>. QED
    BY <1>1

\* The record of a fetch that has not begun.
LEMMA NewFetchFacts ==
    /\ RecordType(NewFetch) /\ PhaseFacts(NewFetch)
    /\ \A s : PagesIn(NewFetch, s) = {}
    /\ NewFetch.result = "none" /\ NewFetch.page = <<>>
  <1>1. <<>> \in Seq(PageState) /\ IsSeq(<<>>)
    BY DEF IsSeq
  <1>2. \A s : PagesIn(NewFetch, s) = {}
    BY DEF PagesIn, NewFetch
  <1>. QED
    BY <1>1, <1>2 DEF RecordType, PhaseFacts, NewFetch, Fields, Phases, Results

\* The record of one fetch is replaced.
LEMMA OneRecord ==
    ASSUME Inv, UNCHANGED <<rvars, kind, call>>,
           NEW f \in Fetch, NEW g, fetch' = [fetch EXCEPT ![f] = g],
           Fetched(g, call[f[1]], Validates(f[1]))
    PROVE  /\ \A h \in Fetch : fetch'[h] = IF h = f THEN g ELSE fetch[h]
           /\ fetch' = [h \in Fetch |-> fetch'[h]] /\ FetchInv' /\ RulesInv'
  <1>1. \A h \in Fetch : fetch'[h] = IF h = f THEN g ELSE fetch[h]
    BY DEF Inv
  <1>2. FetchInv'
    <2>1. \A h \in Fetch : Validates(h[1])' = Validates(h[1])
      BY DEF Validates
    <2>. QED
      BY <1>1, <2>1 DEF Inv, FetchInv
  <1>3. fetch' = [h \in Fetch |-> fetch'[h]]
    BY DEF Inv
  <1>4. RulesInv'
    BY RulesNextInv DEF Inv
  <1>. QED
    BY <1>1, <1>2, <1>3, <1>4

(***************************************************************************)
(* Steps that leave the queue and the permits alone.                       *)
(***************************************************************************)

\* Records change, but no page begins or ceases to wait or to load.
LEMMA SameQueue ==
    ASSUME QueueInv, PermitInv, UNCHANGED <<queue, permits>>,
           \A f \in Fetch : /\ PagesIn(fetch'[f], "queued") = Queued(f)
                           /\ PagesIn(fetch'[f], "loading") = Loading(f)
    PROVE  QueueInv' /\ PermitInv'
  <1>1. InLoad' = InLoad
    <2>1. \A f \in Fetch : Loading(f)' = Loading(f)
      BY DEF Loading, PagesIn
    <2>. QED
      BY <2>1 DEF InLoad
  <1>2. \A f \in Fetch : Queued(f)' = Queued(f)
    BY DEF Queued
  <1>3. \A n \in DOMAIN queue : queue[n][1] \in Fetch
    BY DEF QueueInv
  <1>. QED
    BY <1>1, <1>2, <1>3 DEF QueueInv, PermitInv

\* The record of one fetch is replaced by one in whose pages, too, none waits
\* or loads.
LEMMA QuietStep ==
    ASSUME Inv, UNCHANGED <<rvars, kind, call, permits, queue>>,
           NEW f \in Fetch, NEW g, fetch' = [fetch EXCEPT ![f] = g],
           Fetched(g, call[f[1]], Validates(f[1])),
           PagesIn(g, "queued") = {}, PagesIn(g, "loading") = {},
           Queued(f) = {}, Loading(f) = {}
    PROVE  Inv'
  <1>1. /\ \A h \in Fetch : fetch'[h] = IF h = f THEN g ELSE fetch[h]
        /\ fetch' = [h \in Fetch |-> fetch'[h]] /\ FetchInv' /\ RulesInv'
    BY OneRecord
  <1>2. QueueInv' /\ PermitInv'
    <2>1. \A h \in Fetch : /\ PagesIn(fetch'[h], "queued") = Queued(h)
                           /\ PagesIn(fetch'[h], "loading") = Loading(h)
      BY <1>1 DEF Queued, Loading, PagesIn
    <2>. QED
      BY <2>1, SameQueue DEF Inv
  <1>. QED
    BY <1>1, <1>2 DEF Inv

\* A coroutine returns, or raises and loses its locals: a text or an answer
\* that a validating caller accepts is whole.
LEMMA FinishInv ==
    ASSUME Inv, UNCHANGED <<rvars, kind, call, permits, queue>>,
           NEW f \in Fetch, NEW r \in Results \ {"none"}, Finish(f, r),
           call[f[1]] \in {"running", "error", "cancelled"},
           Queued(f) = {}, Loading(f) = {},
           Validates(f[1]) => /\ r \notin {"partial", "message"}
                              /\ r = "texts" => Whole(fetch[f])
    PROVE  Inv'
  <1> DEFINE g == [(IF r = "error" THEN NewFetch ELSE fetch[f])
                      EXCEPT !.phase = "done", !.result = r]
  <1>1. fetch' = [fetch EXCEPT ![f] = g]
    BY DEF Finish
  <1>2. Fetched(fetch[f], call[f[1]], Validates(f[1]))
    BY DEF Inv, FetchInv
  <1>3. /\ DOMAIN g = Fields /\ g.phase = "done" /\ g.result = r
        /\ r = "error" => g.page = <<>> /\ g.urls = <<>>
        /\ r # "error" => g.page = fetch[f].page /\ g.urls = fetch[f].urls
                         /\ g.rule = fetch[f].rule
    BY <1>2, NewFetchFacts DEF Fetched, RecordType, NewFetch, Fields
  <1> HIDE DEF g
  <1>4. \A s : PagesIn(g, s) = IF r = "error" THEN {} ELSE PagesIn(fetch[f], s)
    BY <1>3 DEF PagesIn
  <1>5. PagesIn(g, "queued") = {} /\ PagesIn(g, "loading") = {}
    BY <1>4 DEF Queued, Loading, PagesIn
  <1>6. RecordType(g)
    BY <1>2, <1>3, NewFetchFacts
    DEF Fetched, RecordType, Phases, NewFetch
  <1>7. PhaseFacts(g) /\ CallFacts(g, call[f[1]])
    BY <1>2, <1>3, <1>4, <1>5 DEF Fetched, PhaseFacts, CallFacts
  <1>8. ResultFacts(g, Validates(f[1]))
    BY <1>3 DEF ResultFacts, Whole
  <1>. QED
    BY <1>1, <1>5, <1>6, <1>7, <1>8, QuietStep DEF Fetched

\* A request begins: its fetch has URLs and a rule, and no pages, or is over.
LEMMA RequestInv ==
    ASSUME Inv, UNCHANGED <<rvars, kind, call, permits, queue>>,
           NEW f \in Fetch, NEW domains, NEW more, Request(f, domains, more),
           IsSeq(domains), call[f[1]] \in {"running", "error"},
           Queued(f) = {}, Loading(f) = {}
    PROVE  Inv'
  <1> DEFINE r == IF domains = <<>> THEN NoRule
                  ELSE get_rule_by_url(CRAWL_RULES, domains[1])
             g == [NewFetch EXCEPT !.phase = "asking", !.urls = domains,
                                   !.rest = more, !.rule = r]
  <1>1. CASE r = NoRule
    BY <1>1, FinishInv DEF Request, Results
  <1>2. CASE r # NoRule
    <2>1. fetch' = [fetch EXCEPT ![f] = g] /\ domains # <<>>
      BY <1>2 DEF Request
    <2>2. /\ DOMAIN g = Fields /\ g.phase = "asking" /\ g.urls = domains
          /\ g.page = <<>> /\ g.result = "none"
      BY DEF NewFetch, Fields
    <2> HIDE DEF g, r
    <2>3. \A s : PagesIn(g, s) = {}
      BY <2>2 DEF PagesIn
    <2>4. Fetched(g, call[f[1]], Validates(f[1]))
      BY <2>1, <2>2, <2>3
      DEF Fetched, RecordType, PhaseFacts, CallFacts, ResultFacts, Phases, Results
    <2>. QED
      BY <2>1, <2>3, <2>4, QuietStep
  <1>. QED
    BY <1>1, <1>2

(***************************************************************************)
(* The actions.                                                            *)
(***************************************************************************)

\* The call of a fetch in progress is running or was answered with an error.
LEMMA InProgress ==
    ASSUME Inv, NEW f \in Fetch, NEW p \in {"ready", "asking", "loading"}, At(f, p)
    PROVE  /\ call[f[1]] \in {"running", "error"}
           /\ fetch[f].phase = p /\ fetch[f].result = "none"
           /\ p # "loading" => Queued(f) = {} /\ Loading(f) = {}
           /\ p = "loading" => PagesIn(fetch[f], "cancelled") = {}
  <1>1. Fetched(fetch[f], call[f[1]], Validates(f[1])) /\ fetch[f].phase = p
        /\ call[f[1]] \in CallState /\ ~Cancelled(f)
    BY FetchFacts DEF Inv, FetchInv, At
  <1>2. fetch[f].result = "none"
    BY <1>1 DEF Fetched, PhaseFacts
  <1>3. call[f[1]] # "cancelled"
    BY <1>1, <1>2 DEF Cancelled
  <1>4. call[f[1]] \notin {"new", "content"}
    BY <1>1, <1>2 DEF Fetched, CallFacts, NewFetch
  <1>5. p # "loading" => fetch[f].page = <<>>
    BY <1>1 DEF Fetched, PhaseFacts
  <1>. QED
    BY <1>1, <1>2, <1>3, <1>4, <1>5
    DEF CallState, Fetched, CallFacts, Queued, Loading, PagesIn

\* A crawl begins its only request.
LEMMA StartCrawlInv ==
    ASSUME Inv, NEW f \in Fetch, StartCrawl(f)
    PROVE  Inv'
  <1>1. PICK urls \in Urls[f[1]] : Request(f, urls, <<>>)
    BY DEF StartCrawl
  <1>2. IsSeq(urls)
    BY UrlsAssumption, FetchFacts DEF IsSeq
  <1>3. call[f[1]] \in {"running", "error"} /\ Queued(f) = {} /\ Loading(f) = {}
    BY InProgress DEF StartCrawl
  <1>. QED
    BY <1>1, <1>2, <1>3, RequestInv DEF StartCrawl

\* A search begins its first request, or fails for want of rules.
LEMMA StartSearchInv ==
    ASSUME Inv, NEW f \in Fetch, StartSearch(f)
    PROVE  Inv'
  <1> DEFINE rules == get_rules_by_group(CRAWL_RULES, "common_search_engine")
             domains == SearchDomains(rules, f[2])
  <1>1. call[f[1]] \in {"running", "error"} /\ Queued(f) = {} /\ Loading(f) = {}
    BY InProgress DEF StartSearch
  <1>2. CASE domains # <<>>
    <2>1. Request(f, SubSeq(domains, 1, 1), Tail(domains))
      BY <1>2 DEF StartSearch
    <2> HIDE DEF domains
    <2>2. SubSeq(domains, 1, 1) \in Seq({domains[1]})
      BY SubSeqProperties
    <2>3. IsSeq(SubSeq(domains, 1, 1))
      BY <2>2 DEF IsSeq
    <2>. QED
      BY <1>1, <2>1, <2>3, RequestInv DEF StartSearch
  <1>3. CASE domains = <<>>
    <2>1. Finish(f, IF rules = <<>> \/ Validates(f[1]) THEN "error" ELSE "texts")
      BY <1>3 DEF StartSearch
    <2> HIDE DEF domains, rules
    <2>2. CASE rules = <<>> \/ Validates(f[1])
      BY <1>1, <2>1, <2>2, FinishInv DEF StartSearch, Results
    <2>3. CASE ~(rules = <<>> \/ Validates(f[1]))
      BY <1>1, <2>1, <2>3, FinishInv DEF StartSearch, Results
    <2>. QED
      BY <2>2, <2>3
  <1>. QED
    BY <1>2, <1>3

\* get_crawler fails.
LEMMA BrowserRefusedInv ==
    ASSUME Inv, NEW f \in Fetch, BrowserRefused(f)
    PROVE  Inv'
  <1>1. call[f[1]] \in {"running", "error"} /\ Queued(f) = {} /\ Loading(f) = {}
    BY InProgress DEF BrowserRefused
  <1>. QED
    BY <1>1, FinishInv DEF BrowserRefused, Results

\* A cancelled fetch is over when its last load is.
LEMMA EndCancelledInv ==
    ASSUME Inv, NEW f \in Fetch, EndCancelled(f)
    PROVE  Inv'
  <1>1. call[f[1]] = "cancelled" /\ Queued(f) = {} /\ Loading(f) = {}
    BY DEF EndCancelled, Cancelled, Over, Queued, Loading, PagesIn
  <1>. QED
    BY <1>1, FinishInv DEF EndCancelled, Results

\* The answer of a crawl that failed nowhere holds a text for every page.
LEMMA AnswerWhole ==
    ASSUME NEW f, RecordType(fetch[f]), PhaseFacts(fetch[f]),
           fetch[f].phase = "loading", Over(f),
           PagesIn(fetch[f], "cancelled") = {}, "texts" \in Answers(f)
    PROVE  Whole(fetch[f])
  <1> DEFINE r == fetch[f].rule
             page == fetch[f].page
             texts == {CrawlText(r, page[i]) : i \in DOMAIN page}
  <1>1. "raises" \notin texts /\ "None" \notin texts
    BY DEF Answers
  <1>2. ASSUME NEW i \in DOMAIN page
        PROVE  page[i] = "loaded" \/ (page[i] = "blank" /\ r.type = "markdown")
    <2>1. page[i] \in Outcome
      BY <1>2 DEF RecordType, PageState, Over, PagesIn
    <2>2. Text(r, page[i]) \notin {"raises", "None"}
      BY <1>1, <1>2 DEF CrawlText
    <2> HIDE DEF page, r
    <2>. QED
      BY <2>1, <2>2 DEF Text, Outcome
  <1>3. Len(page) = Len(fetch[f].urls) /\ fetch[f].urls # <<>>
    BY DEF PhaseFacts
  <1>. QED
    BY <1>2, <1>3 DEF Whole

\* A request ends: another follows, or the answer is accepted or refused.
LEMMA EndRequestInv ==
    ASSUME Inv, NEW f \in Fetch, EndRequest(f)
    PROVE  Inv'
  <1>1. /\ call[f[1]] \in {"running", "error"} /\ fetch[f].phase = "loading"
        /\ PagesIn(fetch[f], "cancelled") = {}
    BY InProgress DEF EndRequest
  <1>2. Queued(f) = {} /\ Loading(f) = {}
    BY DEF EndRequest, Over, Queued, Loading, PagesIn
  <1>3. Fetched(fetch[f], call[f[1]], Validates(f[1]))
    BY DEF Inv, FetchInv
  <1>4. PICK a \in Answers(f) :
           \/ Request(f, Append(fetch[f].urls, fetch[f].rest[1]), Tail(fetch[f].rest))
           \/ Finish(f, IF Validates(f[1]) /\ a # "texts" THEN "error" ELSE a)
    BY DEF EndRequest
  <1>5. CASE Request(f, Append(fetch[f].urls, fetch[f].rest[1]), Tail(fetch[f].rest))
    <2>1. PICK S : fetch[f].urls \in Seq(S)
      BY <1>3 DEF Fetched, RecordType, IsSeq
    <2>2. fetch[f].urls \in Seq(S \cup {fetch[f].rest[1]})
      BY <2>1
    <2>3. Append(fetch[f].urls, fetch[f].rest[1]) \in Seq(S \cup {fetch[f].rest[1]})
      BY <2>2
    <2>4. IsSeq(Append(fetch[f].urls, fetch[f].rest[1]))
      BY <2>3 DEF IsSeq
    <2>. QED
      BY <1>1, <1>2, <1>5, <2>4, RequestInv DEF EndRequest
  <1>6. CASE Finish(f, IF Validates(f[1]) /\ a # "texts" THEN "error" ELSE a)
    <2> DEFINE b == IF Validates(f[1]) /\ a # "texts" THEN "error" ELSE a
    <2>1. b \in Results \ {"none"}
      <3>1. a \in {"message", "error", "partial", "texts"}
        BY <1>4 DEF Answers
      <3>. QED
        BY <3>1 DEF Results
    <2>2. Validates(f[1]) => b \notin {"partial", "message"}
                             /\ (b = "texts" => a = "texts")
      OBVIOUS
    <2>3. a = "texts" => Whole(fetch[f])
      BY <1>1, <1>3, <1>4, AnswerWhole DEF EndRequest, Fetched
    <2>4. Finish(f, b)
      BY <1>6
    <2> HIDE DEF b
    <2>. QED
      BY <1>1, <1>2, <2>1, <2>2, <2>3, <2>4, FinishInv DEF EndRequest
  <1>. QED
    BY <1>4, <1>5, <1>6

\* The browser is lent: every page of the request joins the queue.
LEMMA BrowserLentInv ==
    ASSUME Inv, NEW f \in Fetch, BrowserLent(f)
    PROVE  Inv'
  <1> DEFINE urls == fetch[f].urls
             pages == [i \in DOMAIN urls |-> "queued"]
             places == [i \in DOMAIN urls |-> <<f, i>>]
             g == [fetch[f] EXCEPT !.phase = "loading", !.page = pages]
  <1>1. /\ call[f[1]] \in {"running", "error"} /\ fetch[f].phase = "asking"
        /\ fetch[f].result = "none" /\ Queued(f) = {} /\ Loading(f) = {}
    BY InProgress DEF BrowserLent
  <1>2. CASE UNCHANGED queue /\ (Finish(f, "generator") \/ Finish(f, "error"))
    <2>1. UNCHANGED <<rvars, kind, call, permits, queue>>
      BY <1>2 DEF BrowserLent
    <2>. QED
      BY <1>1, <1>2, <2>1, FinishInv DEF Results
  <1>3. CASE /\ fetch' = [fetch EXCEPT ![f].phase = "loading", ![f].page = pages]
             /\ queue' = queue \o places
    <2>1. Fetched(fetch[f], call[f[1]], Validates(f[1]))
      BY DEF Inv, FetchInv
    <2>2. /\ DOMAIN urls = 1..Len(urls) /\ Len(urls) \in Nat /\ urls # <<>>
          /\ IsSeq(urls)
      BY <1>1, <2>1 DEF Fetched, RecordType, PhaseFacts, IsSeq
    <2>3. fetch' = [fetch EXCEPT ![f] = g]
      BY <1>3, <2>1 DEF Fetched, RecordType, Fields
    <2>4. /\ DOMAIN g = Fields /\ g.phase = "loading" /\ g.page = pages
          /\ g.urls = urls /\ g.result = "none"
      BY <1>1, <2>1 DEF Fetched, RecordType, Fields
    <2>5. pages \in Seq(PageState) /\ Len(pages) = Len(urls)
      BY <2>2 DEF PageState
    <2>6. places \in Seq(Fetch \X Nat) /\ Len(places) = Len(urls)
      BY <2>2
    <2> HIDE DEF g
    <2>7. \A s : PagesIn(g, s) = IF s = "queued" THEN DOMAIN urls ELSE {}
      BY <2>4 DEF PagesIn
    <2>8. Fetched(g, call[f[1]], Validates(f[1]))
      <3>1. RecordType(g)
        BY <2>2, <2>4, <2>5 DEF RecordType, Phases, Results
      <3>2. PhaseFacts(g)
        BY <2>2, <2>4, <2>5 DEF PhaseFacts
      <3>3. CallFacts(g, call[f[1]]) /\ ResultFacts(g, Validates(f[1]))
        BY <1>1, <2>4, <2>7 DEF CallFacts, ResultFacts
      <3>. QED
        BY <3>1, <3>2, <3>3 DEF Fetched
    <2>9. UNCHANGED <<rvars, kind, call, permits>>
      BY DEF BrowserLent
    <2>10. /\ \A h \in Fetch : fetch'[h] = IF h = f THEN g ELSE fetch[h]
           /\ fetch' = [h \in Fetch |-> fetch'[h]] /\ FetchInv' /\ RulesInv'
      BY <2>3, <2>8, <2>9, OneRecord
    <2>11. InLoad' = InLoad
      <3>1. \A h \in Fetch : Loading(h)' = Loading(h)
        BY <1>1, <2>7, <2>10 DEF Loading, PagesIn
      <3>. QED
        BY <3>1 DEF InLoad
    <2>12. \A h \in Fetch : PagesIn(fetch'[h], "queued") =
                               IF h = f THEN DOMAIN urls ELSE Queued(h)
      BY <2>7, <2>10 DEF Queued
    <2>13. QueueInv'
      <3> DEFINE n == Len(queue)
      <3>1. /\ queue \in Seq(Fetch \X Nat) /\ n \in Nat /\ DOMAIN queue = 1..n
            /\ \A m \in 1..n : queue[m][1] \in Fetch /\ queue[m][1] # f
        BY <1>1 DEF Inv, QueueInv
      <3>2. /\ queue' \in Seq(Fetch \X Nat) /\ DOMAIN queue' = 1..(n + Len(urls))
            /\ \A m \in 1..n : queue'[m] = queue[m]
            /\ \A m \in (n + 1)..(n + Len(urls)) : queue'[m] = <<f, m - n>>
        BY <1>3, <2>2, <2>6, <3>1
      <3>3. \A m \in DOMAIN queue' : m \in 1..n \/ m \in (n + 1)..(n + Len(urls))
        BY <2>2, <3>1, <3>2
      <3>4. \A l, m \in DOMAIN queue' : queue'[l] = queue'[m] => l = m
        <4>1. \A l, m \in 1..n : queue'[l] = queue'[m] => l = m
          BY <3>1, <3>2 DEF Inv, QueueInv
        <4>2. \A l, m \in (n + 1)..(n + Len(urls)) : queue'[l] = queue'[m] => l = m
          BY <2>2, <3>1, <3>2
        <4>3. \A l \in 1..n, m \in (n + 1)..(n + Len(urls)) : queue'[l] # queue'[m]
          BY <3>1, <3>2
        <4>. QED
          BY <3>3, <4>1, <4>2, <4>3
      <3>5. \A m \in DOMAIN queue' :
               queue'[m][2] \in PagesIn(fetch'[queue'[m][1]], "queued")
        <4>1. \A m \in 1..n : queue[m][2] \in Queued(queue[m][1])
          BY <3>1 DEF Inv, QueueInv
        <4>2. \A m \in 1..n : queue'[m][2] \in PagesIn(fetch'[queue'[m][1]], "queued")
          BY <2>12, <3>1, <3>2, <4>1
        <4>3. \A m \in (n + 1)..(n + Len(urls)) :
                 queue'[m][1] = f /\ queue'[m][2] \in 1..Len(urls)
          BY <2>2, <3>1, <3>2
        <4>. QED
          BY <2>2, <2>12, <3>3, <4>2, <4>3
      <3>6. ASSUME NEW h \in Fetch, NEW i \in PagesIn(fetch'[h], "queued")
            PROVE  \E m \in DOMAIN queue' : queue'[m] = <<h, i>>
        <4>1. CASE h = f
          <5>1. i \in 1..Len(urls)
            BY <2>2, <2>12, <3>6, <4>1
          <5>2. n + i \in (n + 1)..(n + Len(urls)) /\ (n + i) - n = i
                /\ n + i \in 1..(n + Len(urls))
            BY <2>2, <3>1, <5>1
          <5>. QED
            BY <3>2, <4>1, <5>2
        <4>2. CASE h # f
          <5>1. PICK m \in 1..n : queue[m] = <<h, i>>
            BY <2>12, <3>1, <3>6, <4>2 DEF Inv, QueueInv
          <5>2. m \in 1..(n + Len(urls))
            BY <2>2, <3>1
          <5>. QED
            BY <3>2, <5>1, <5>2
        <4>. QED
          BY <4>1, <4>2
      <3>. QED
        BY <3>2, <3>4, <3>5, <3>6 DEF QueueInv, Queued
    <2>14. PermitInv'
      BY <2>9, <2>11 DEF Inv, PermitInv
    <2>15. call' \in [Call -> CallState]
      BY <2>9 DEF Inv
    <2>. QED
      BY <2>10, <2>13, <2>14, <2>15 DEF Inv
  <1>. QED
    BY <1>2, <1>3 DEF BrowserLent

\* A page that waits or loads belongs to a fetch that is loading.
LEMMA BusyPage ==
    ASSUME Inv, NEW f \in Fetch, NEW i \in Queued(f) \cup Loading(f)
    PROVE  /\ i \in DOMAIN fetch[f].page
           /\ fetch[f].phase = "loading" /\ fetch[f].result = "none"
           /\ call[f[1]] \in {"running", "error", "cancelled"}
  <1>1. Fetched(fetch[f], call[f[1]], Validates(f[1])) /\ call[f[1]] \in CallState
    BY FetchFacts DEF Inv, FetchInv
  <1>2. i \in DOMAIN fetch[f].page
    BY DEF Queued, Loading, PagesIn
  <1>3. fetch[f].page # <<>>
    BY <1>2
  <1>4. fetch[f].phase = "loading"
    BY <1>1, <1>3
    DEF Fetched, RecordType, PhaseFacts, Phases, Queued, Loading, PagesIn
  <1>5. fetch[f].result = "none"
    BY <1>1, <1>4 DEF Fetched, PhaseFacts
  <1>. QED
    BY <1>1, <1>2, <1>3, <1>4, <1>5
    DEF Fetched, CallFacts, CallState, NewFetch

\* A page of a loading fetch goes into state s.
LEMMA PageMoves ==
    ASSUME Inv, NEW f \in Fetch, NEW i \in Queued(f) \cup Loading(f),
           NEW s \in PageState, s = "cancelled" => call[f[1]] = "cancelled",
           UNCHANGED <<rvars, kind, call>>,
           fetch' = [fetch EXCEPT ![f].page[i] = s]
    PROVE  /\ fetch' = [h \in Fetch |-> fetch'[h]] /\ FetchInv' /\ RulesInv'
           /\ call' \in [Call -> CallState]
           /\ \A h \in Fetch \ {f} : fetch'[h] = fetch[h]
           /\ \A x : PagesIn(fetch'[f], x) = IF x = s
                                            THEN PagesIn(fetch[f], x) \cup {i}
                                            ELSE PagesIn(fetch[f], x) \ {i}
  <1> DEFINE g == [fetch[f] EXCEPT !.page = [fetch[f].page EXCEPT ![i] = s]]
  <1>1. Fetched(fetch[f], call[f[1]], Validates(f[1]))
    BY DEF Inv, FetchInv
  <1>2. /\ i \in DOMAIN fetch[f].page
        /\ fetch[f].phase = "loading" /\ fetch[f].result = "none"
        /\ call[f[1]] \in {"running", "error", "cancelled"}
    BY BusyPage
  <1>3. fetch' = [fetch EXCEPT ![f] = g]
    BY <1>1 DEF Fetched, RecordType, Fields
  <1>4. /\ DOMAIN g = Fields /\ g.page = [fetch[f].page EXCEPT ![i] = s]
        /\ g.phase = "loading" /\ g.result = "none" /\ g.urls = fetch[f].urls
    BY <1>1, <1>2 DEF Fetched, RecordType, Fields
  <1> HIDE DEF g
  <1>5. /\ g.page \in Seq(PageState) /\ Len(g.page) = Len(fetch[f].page)
        /\ DOMAIN g.page = DOMAIN fetch[f].page
        /\ \A j \in DOMAIN g.page :
              g.page[j] = IF j = i THEN s ELSE fetch[f].page[j]
    BY <1>1, <1>2, <1>4 DEF Fetched, RecordType
  <1>6. \A x : PagesIn(g, x) = IF x = s THEN PagesIn(fetch[f], x) \cup {i}
                                         ELSE PagesIn(fetch[f], x) \ {i}
    BY <1>2, <1>5 DEF PagesIn
  <1>7. Fetched(g, call[f[1]], Validates(f[1]))
    <2>1. Len(g.page) = Len(g.urls) /\ g.urls # <<>> /\ IsSeq(g.urls)
      BY <1>1, <1>2, <1>4, <1>5 DEF Fetched, RecordType, PhaseFacts
    <2>2. RecordType(g)
      BY <1>4, <1>5, <2>1 DEF RecordType, Phases, Results
    <2>3. PhaseFacts(g)
      BY <1>4, <2>1 DEF PhaseFacts
    <2>4. CallFacts(g, call[f[1]]) /\ ResultFacts(g, Validates(f[1]))
      BY <1>1, <1>2, <1>4, <1>6 DEF Fetched, CallFacts, ResultFacts
    <2>. QED
      BY <2>2, <2>3, <2>4 DEF Fetched
  <1>8. /\ \A h \in Fetch : fetch'[h] = IF h = f THEN g ELSE fetch[h]
        /\ fetch' = [h \in Fetch |-> fetch'[h]] /\ FetchInv' /\ RulesInv'
    BY <1>3, <1>7, OneRecord
  <1>. QED
    BY <1>6, <1>8 DEF Inv

\* The page that waits longest gets a permit.
LEMMA TakePermitInv ==
    ASSUME Inv, TakePermit
    PROVE  Inv'
  <1>1. /\ queue \in Seq(Fetch \X Nat) /\ Len(queue) \in Nat \ {0}
        /\ DOMAIN queue = 1..Len(queue)
    BY DEF Inv, QueueInv, TakePermit
  <1>2. PICK f \in Fetch, i \in Nat :
           queue[1] = <<f, i>> /\ i \in Queued(f)
    <2>1. 1 \in DOMAIN queue /\ queue[1] \in Fetch \X Nat
      BY <1>1
    <2>2. queue[1][1] \in Fetch /\ queue[1][2] \in Queued(queue[1][1])
          /\ queue[1][2] \in Nat /\ queue[1] = <<queue[1][1], queue[1][2]>>
      BY <2>1 DEF Inv, QueueInv
    <2>. QED
      BY <2>2
  <1>3. UNCHANGED <<rvars, kind, call>>
        /\ fetch' = [fetch EXCEPT ![f].page[i] = "loading"]
        /\ permits' = permits - 1 /\ permits > 0 /\ queue' = Tail(queue)
    BY <1>2 DEF TakePermit
  <1>4. /\ fetch' = [h \in Fetch |-> fetch'[h]] /\ FetchInv' /\ RulesInv'
        /\ call' \in [Call -> CallState]
        /\ \A h \in Fetch \ {f} : fetch'[h] = fetch[h]
        /\ \A x : PagesIn(fetch'[f], x) = IF x = "loading"
                                         THEN PagesIn(fetch[f], x) \cup {i}
                                         ELSE PagesIn(fetch[f], x) \ {i}
    <2>1. "loading" \in PageState
      BY DEF PageState
    <2>. QED
      BY <1>2, <1>3, <2>1, PageMoves
  <1>5. PermitInv'
    <2>1. InLoad' = InLoad \cup {<<f, i>>}
      <3>1. /\ \A h \in Fetch \ {f} : Loading(h)' = Loading(h)
            /\ \A j : j \in Loading(f)' <=> j \in Loading(f) \cup {i}
        BY <1>4 DEF Loading, PagesIn
      <3>. QED
        BY <1>2, <3>1 DEF InLoad
    <2>2. <<f, i>> \notin InLoad
      BY <1>2 DEF InLoad, Queued, Loading, PagesIn
    <2>3. IsFiniteSet(InLoad) /\ permits \in Nat
          /\ permits + Cardinality(InLoad) = MAX_PAGES
      BY DEF Inv, PermitInv
    <2>4. IsFiniteSet(InLoad') /\ Cardinality(InLoad') = Cardinality(InLoad) + 1
          /\ Cardinality(InLoad) \in Nat
      BY <2>1, <2>2, <2>3, FS_AddElement, FS_CardinalityType
    <2>. QED
      BY <1>3, <2>3, <2>4 DEF PermitInv
  <1>6. QueueInv'
    <2>1. /\ queue' \in Seq(Fetch \X Nat) /\ DOMAIN queue' = 1..(Len(queue) - 1)
          /\ \A n \in 1..(Len(queue) - 1) : queue'[n] = queue[n + 1]
      BY <1>1, <1>3
    <2>2. \A n \in DOMAIN queue' : n + 1 \in DOMAIN queue /\ queue[n + 1] # <<f, i>>
      <3> SUFFICES ASSUME NEW n \in DOMAIN queue'
                   PROVE  n + 1 \in DOMAIN queue /\ queue[n + 1] # <<f, i>>
        OBVIOUS
      <3>1. n + 1 \in DOMAIN queue /\ 1 \in DOMAIN queue /\ n + 1 # 1
        BY <1>1, <2>1
      <3>. QED
        BY <1>2, <3>1 DEF Inv, QueueInv
    <2>3. \A m, n \in DOMAIN queue' : queue'[m] = queue'[n] => m = n
      <3> SUFFICES ASSUME NEW m \in DOMAIN queue', NEW n \in DOMAIN queue',
                          queue'[m] = queue'[n]
                   PROVE  m = n
        OBVIOUS
      <3>1. m + 1 = n + 1
        BY <2>1, <2>2 DEF Inv, QueueInv
      <3>. QED
        BY <1>1, <2>1, <3>1
    <2>4. ASSUME NEW n \in DOMAIN queue'
          PROVE  queue'[n][2] \in PagesIn(fetch'[queue'[n][1]], "queued")
      <3>1. queue[n + 1] \in Fetch \X Nat
            /\ queue[n + 1][2] \in PagesIn(fetch[queue[n + 1][1]], "queued")
        BY <1>1, <2>2 DEF Inv, QueueInv, Queued
      <3>2. ~(queue[n + 1][1] = f /\ queue[n + 1][2] = i)
        BY <2>2, <3>1
      <3>. QED
        BY <1>4, <2>1, <3>1, <3>2
    <2>5. ASSUME NEW h \in Fetch, NEW j \in PagesIn(fetch'[h], "queued")
          PROVE  \E n \in DOMAIN queue' : queue'[n] = <<h, j>>
      <3>1. j \in Queued(h) /\ <<h, j>> # <<f, i>>
        BY <1>4, <2>5 DEF Queued
      <3>2. PICK m \in DOMAIN queue : queue[m] = <<h, j>>
        BY <3>1 DEF Inv, QueueInv
      <3>3. m # 1
        BY <1>2, <3>1, <3>2
      <3>4. m - 1 \in 1..(Len(queue) - 1) /\ (m - 1) + 1 = m
        BY <1>1, <3>2, <3>3
      <3>. QED
        BY <2>1, <3>2, <3>4
    <2>. QED
      BY <2>1, <2>3, <2>4, <2>5 DEF QueueInv, Queued
  <1>. QED
    BY <1>4, <1>5, <1>6 DEF Inv

\* A load ends and gives its permit back.
LEMMA EndLoadInv ==
    ASSUME Inv, NEW f \in Fetch, EndLoad(f)
    PROVE  Inv'
  <1>1. PICK i \in Loading(f), s \in IF Cancelled(f) THEN {"cancelled"} ELSE Outcome :
           fetch' = [fetch EXCEPT ![f].page[i] = s]
    BY DEF EndLoad
  <1>2. s \in PageState \ {"queued", "loading"}
        /\ (s = "cancelled" => call[f[1]] = "cancelled")
    BY <1>1 DEF PageState, Outcome, Cancelled
  <1>3. UNCHANGED <<rvars, kind, call, queue>> /\ permits' = permits + 1
    BY DEF EndLoad
  <1>4. /\ fetch' = [h \in Fetch |-> fetch'[h]] /\ FetchInv' /\ RulesInv'
        /\ call' \in [Call -> CallState]
        /\ \A h \in Fetch \ {f} : fetch'[h] = fetch[h]
        /\ \A x : PagesIn(fetch'[f], x) = IF x = s
                                         THEN PagesIn(fetch[f], x) \cup {i}
                                         ELSE PagesIn(fetch[f], x) \ {i}
    BY <1>1, <1>2, <1>3, PageMoves
  <1>5. i \notin Queued(f)
    BY <1>1 DEF Queued, Loading, PagesIn
  <1>6. PermitInv'
    <2>1. InLoad' = InLoad \ {<<f, i>>}
      <3>1. \A h \in Fetch \ {f} : Loading(h)' = Loading(h)
        BY <1>4 DEF Loading
      <3>2. Loading(f)' = Loading(f) \ {i}
        <4>1. /\ PagesIn(fetch'[f], "loading") = PagesIn(fetch[f], "loading") \ {i}
              /\ Loading(f) = PagesIn(fetch[f], "loading")
          BY <1>2, <1>4 DEF Loading, PagesIn
        <4>. QED
          BY <4>1 DEF Loading, PagesIn
      <3>. QED
        BY <3>1, <3>2 DEF InLoad
    <2>2. <<f, i>> \in InLoad
      BY <1>1 DEF InLoad
    <2>3. IsFiniteSet(InLoad) /\ permits \in Nat
          /\ permits + Cardinality(InLoad) = MAX_PAGES
      BY DEF Inv, PermitInv
    <2>4. IsFiniteSet(InLoad') /\ Cardinality(InLoad') = Cardinality(InLoad) - 1
          /\ Cardinality(InLoad) \in Nat
      BY <2>1, <2>2, <2>3, FS_RemoveElement, FS_CardinalityType
    <2>. QED
      BY <1>3, <2>3, <2>4 DEF PermitInv
  <1>7. QueueInv'
    <2>1. \A h \in Fetch : PagesIn(fetch'[h], "queued") = Queued(h)
      BY <1>2, <1>4, <1>5 DEF Queued
    <2>2. \A n \in DOMAIN queue : queue[n][1] \in Fetch
      BY DEF Inv, QueueInv
    <2>. QED
      BY <1>3, <2>1, <2>2 DEF Inv, QueueInv, Queued
  <1>. QED
    BY <1>4, <1>6, <1>7 DEF Inv

\* A call begins: its fetches are fresh and stay without pages.
LEMMA BeginInv ==
    ASSUME Inv, NEW k \in Call, Begin(k)
    PROVE  Inv'
  <1> DEFINE g == [NewFetch EXCEPT !.phase = "ready"]
  <1>1. /\ call' = [call EXCEPT ![k] = "running"] /\ call[k] = "new"
        /\ fetch' = [f \in Fetch |-> IF f[1] = k THEN g ELSE fetch[f]]
        /\ UNCHANGED <<rvars, kind, permits, queue>>
    BY DEF Begin
  <1>2. /\ DOMAIN g = Fields /\ g.phase = "ready" /\ g.page = <<>>
        /\ g.urls = <<>> /\ g.result = "none"
    BY DEF NewFetch, Fields
  <1> HIDE DEF g
  <1>3. \A s : PagesIn(g, s) = {}
    BY <1>2 DEF PagesIn
  <1>4. \A f \in Fetch : f[1] = k => fetch[f] = NewFetch
    BY <1>1 DEF Inv, FetchInv, Fetched, CallFacts
  <1>5. FetchInv'
    <2> SUFFICES ASSUME NEW f \in Fetch
                 PROVE  Fetched(fetch'[f], call'[f[1]], Validates(f[1])')
      BY DEF FetchInv
    <2>1. Validates(f[1])' = Validates(f[1]) /\ f[1] \in Call
      BY <1>1, FetchFacts DEF Validates
    <2>2. CASE f[1] = k
      <3>1. fetch'[f] = g /\ call'[f[1]] = "running"
        BY <1>1, <2>1, <2>2 DEF Inv
      <3>2. Fetched(g, "running", Validates(f[1]))
        BY <1>2, <1>3, NewFetchFacts
        DEF Fetched, RecordType, PhaseFacts, CallFacts, ResultFacts, NewFetch,
            Phases, Results
      <3>. QED
        BY <2>1, <3>1, <3>2
    <2>3. CASE f[1] # k
      BY <1>1, <2>1, <2>3 DEF Inv, FetchInv
    <2>. QED
      BY <2>2, <2>3
  <1>6. \A f \in Fetch : /\ PagesIn(fetch'[f], "queued") = Queued(f)
                         /\ PagesIn(fetch'[f], "loading") = Loading(f)
    <2> SUFFICES ASSUME NEW f \in Fetch
                 PROVE  /\ PagesIn(fetch'[f], "queued") = Queued(f)
                        /\ PagesIn(fetch'[f], "loading") = Loading(f)
      OBVIOUS
    <2>1. CASE f[1] = k
      BY <1>1, <1>3, <1>4, <2>1, NewFetchFacts DEF Queued, Loading, PagesIn
    <2>2. CASE f[1] # k
      BY <1>1, <2>2 DEF Queued, Loading, PagesIn
    <2>. QED
      BY <2>1, <2>2
  <1>7. QueueInv' /\ PermitInv'
    BY <1>1, <1>6, SameQueue DEF Inv
  <1>8. RulesInv' /\ call' \in [Call -> CallState]
        /\ fetch' = [f \in Fetch |-> fetch'[f]]
    BY <1>1, RulesNextInv DEF Inv, CallState
  <1>. QED
    BY <1>5, <1>7, <1>8 DEF Inv

\* A call is answered, with content when every one of its fetches has some.
LEMMA ReplyInv ==
    ASSUME Inv, NEW k \in Call, Reply(k)
    PROVE  Inv'
  <1>1. PICK c \in {"error", "content"} : call' = [call EXCEPT ![k] = c]
    BY DEF Reply
  <1>2. /\ c = "content" => \A f \in FetchesOf(k) :
               fetch[f].result \notin {"none", "error", "generator"}
        /\ call[k] = "running" /\ UNCHANGED <<rvars, kind, fetch, permits, queue>>
    <2>1. CASE /\ {fetch[f].result : f \in FetchesOf(k)} \cap
                     {"none", "error", "generator"} = {}
               /\ call' = [call EXCEPT ![k] = "content"]
      BY <2>1 DEF Reply
    <2>2. CASE call' = [call EXCEPT ![k] = "error"]
      BY <1>1, <2>2 DEF Reply, Inv
    <2>. QED
      BY <2>1, <2>2 DEF Reply
  <1>3. FetchInv'
    <2> SUFFICES ASSUME NEW f \in Fetch
                 PROVE  Fetched(fetch'[f], call'[f[1]], Validates(f[1])')
      BY DEF FetchInv
    <2>1. Validates(f[1])' = Validates(f[1]) /\ f[1] \in Call /\ fetch'[f] = fetch[f]
      BY <1>2, FetchFacts DEF Validates
    <2>2. Fetched(fetch[f], call[f[1]], Validates(f[1]))
      BY DEF Inv, FetchInv
    <2>3. CASE f[1] = k
      <3>1. call'[f[1]] = c /\ f \in FetchesOf(k)
        BY <1>1, <2>1, <2>3 DEF Inv, FetchesOf
      <3>2. CallFacts(fetch[f], c)
        BY <1>2, <2>2, <2>3, <3>1 DEF Fetched, CallFacts
      <3>. QED
        BY <2>1, <2>2, <3>1, <3>2 DEF Fetched
    <2>4. CASE f[1] # k
      BY <1>1, <2>1, <2>2, <2>4 DEF Inv
    <2>. QED
      BY <2>3, <2>4
  <1>4. QueueInv' /\ PermitInv'
    <2>1. \A f \in Fetch : /\ PagesIn(fetch'[f], "queued") = Queued(f)
                           /\ PagesIn(fetch'[f], "loading") = Loading(f)
      BY <1>2 DEF Queued, Loading, PagesIn
    <2>. QED
      BY <1>2, <2>1, SameQueue DEF Inv
  <1>5. RulesInv' /\ call' \in [Call -> CallState]
        /\ fetch' = [f \in Fetch |-> fetch'[f]]
    BY <1>1, <1>2, RulesNextInv DEF Inv, CallState
  <1>. QED
    BY <1>3, <1>4, <1>5 DEF Inv

\* The queue a cancelled call leaves behind holds the pages of the others, each
\* once.
LEMMA LeaveQueueFacts ==
    ASSUME QueueInv, NEW k, LeaveQueue(k)
    PROVE  /\ queue' \in Seq(Fetch \X Nat)
           /\ \A m, n \in DOMAIN queue' : queue'[m] = queue'[n] => m = n
           /\ \A n \in DOMAIN queue' : \E m \in DOMAIN queue :
                 queue'[n] = queue[m] /\ queue[m][1][1] # k
           /\ \A m \in DOMAIN queue : queue[m][1][1] # k =>
                 \E n \in DOMAIN queue' : queue'[n] = queue[m]
  <1> DEFINE P == PlacesOfOthers(k)
             N == Cardinality(P)
  <1>1. PICK stay \in [1..N -> P] :
          /\ \A i, j \in DOMAIN stay : i < j => stay[i] < stay[j]
          /\ queue' = [i \in DOMAIN stay |-> queue[stay[i]]]
    BY DEF LeaveQueue
  <1>2. /\ queue \in Seq(Fetch \X Nat) /\ DOMAIN queue = 1..Len(queue)
        /\ Len(queue) \in Nat
        /\ \A m, n \in DOMAIN queue : queue[m] = queue[n] => m = n
    BY DEF QueueInv
  <1>3. P \subseteq 1..Len(queue) /\ \A m \in P : queue[m][1][1] # k
    BY <1>2 DEF PlacesOfOthers
  <1>4. IsFiniteSet(P) /\ N \in Nat
    <2>1. IsFiniteSet(1..Len(queue))
      BY <1>2, FS_Interval
    <2> HIDE DEF P
    <2>2. IsFiniteSet(P)
      BY <1>3, <2>1, FS_Subset
    <2>. QED
      BY <2>2, FS_CardinalityType
  <1> HIDE DEF N, P
  <1>5. \A i, j \in 1..N : stay[i] = stay[j] => i = j
    <2> SUFFICES ASSUME NEW i \in 1..N, NEW j \in 1..N, i < j
                 PROVE  stay[i] # stay[j]
      BY <1>4
    <2>1. stay[i] \in Int /\ stay[j] \in Int /\ stay[i] < stay[j]
      BY <1>1, <1>2, <1>3
    <2>. QED
      BY <2>1
  <1>6. \A m \in P : \E i \in 1..N : stay[i] = m
    <2>1. stay \in Injection(1..N, P)
      BY <1>1, <1>5 DEF Injection, IsInjective
    <2>2. Cardinality(1..N) = N
      BY <1>4, FS_Interval
    <2>3. stay \in Surjection(1..N, P)
      BY <1>4, <2>1, <2>2, FS_Injection DEF N
    <2>. QED
      BY <2>3 DEF Surjection
  <1>7. DOMAIN queue' = 1..N /\ \A i \in 1..N : queue'[i] = queue[stay[i]]
                                           /\ stay[i] \in DOMAIN queue
    BY <1>1, <1>2, <1>3
  <1>8. queue' \in Seq(Fetch \X Nat)
    BY <1>1, <1>2, <1>4, <1>7
  <1>9. \A m, n \in DOMAIN queue' : queue'[m] = queue'[n] => m = n
    BY <1>2, <1>5, <1>7
  <1>10. \A n \in DOMAIN queue' : \E m \in DOMAIN queue :
            queue'[n] = queue[m] /\ queue[m][1][1] # k
    BY <1>1, <1>3, <1>7
  <1>11. \A m \in DOMAIN queue : queue[m][1][1] # k =>
            \E n \in DOMAIN queue' : queue'[n] = queue[m]
    <2>1. \A m \in DOMAIN queue : queue[m][1][1] # k => m \in P
      BY DEF P, PlacesOfOthers
    <2>. QED
      BY <1>6, <1>7, <2>1
  <1>. QED
    BY <1>8, <1>9, <1>10, <1>11

\* The record of a fetch whose call is withdrawn: no page of it waits any more.
Withdrawn(r) ==
    [r EXCEPT !.page = [i \in DOMAIN r.page |->
                           IF r.page[i] = "queued" THEN "cancelled" ELSE r.page[i]]]

\* Withdrawing a call cancels what waits and leaves what loads.
LEMMA WithdrawnFacts ==
    ASSUME NEW r, NEW c, NEW v, Fetched(r, c, v), c = "running"
    PROVE  /\ Fetched(Withdrawn(r), "cancelled", v)
           /\ PagesIn(Withdrawn(r), "queued") = {}
           /\ PagesIn(Withdrawn(r), "loading") = PagesIn(r, "loading")
  <1> DEFINE page == [i \in DOMAIN r.page |->
                         IF r.page[i] = "queued" THEN "cancelled" ELSE r.page[i]]
             g == Withdrawn(r)
  <1>1. /\ DOMAIN g = Fields /\ g.page = page
        /\ g.phase = r.phase /\ g.urls = r.urls /\ g.rule = r.rule
        /\ g.result = r.result
    BY DEF Withdrawn, Fetched, RecordType, Fields
  <1>2. r.page \in Seq(PageState) /\ DOMAIN r.page = 1..Len(r.page)
        /\ Len(r.page) \in Nat
    BY DEF Fetched, RecordType
  <1>3. \A i \in 1..Len(r.page) : page[i] \in PageState
    BY <1>2 DEF PageState
  <1>4. page \in Seq(PageState) /\ Len(page) = Len(r.page)
        /\ DOMAIN page = DOMAIN r.page
    <2>1. page \in [1..Len(r.page) -> PageState]
      BY <1>2, <1>3
    <2> HIDE DEF page
    <2>2. page \in Seq(PageState)
      BY <1>2, <2>1
    <2>. QED
      BY <1>2, <2>1, <2>2
  <1>5. \A i \in DOMAIN page :
           page[i] = IF r.page[i] = "queued" THEN "cancelled" ELSE r.page[i]
    OBVIOUS
  <1> HIDE DEF g, page
  <1>6. /\ PagesIn(g, "queued") = {}
        /\ PagesIn(g, "loading") = PagesIn(r, "loading")
    BY <1>1, <1>4, <1>5 DEF PagesIn
  <1>7. r.page = <<>> => g.page = <<>>
    BY <1>1, <1>4
  <1>8. RecordType(g)
    BY <1>1, <1>4, <1>7 DEF Fetched, RecordType
  <1>9. PhaseFacts(g)
    BY <1>1, <1>4, <1>6, <1>7 DEF Fetched, PhaseFacts
  <1>10. CallFacts(g, "cancelled")
    BY DEF CallFacts
  <1>11. ResultFacts(g, v)
    <2>1. ASSUME v, r.result = "texts" PROVE Whole(g)
      <3>1. Whole(r)
        BY <2>1 DEF Fetched, ResultFacts
      <3>2. \A i \in DOMAIN page : page[i] = r.page[i]
        BY <1>4, <1>5, <3>1 DEF Whole
      <3>. QED
        BY <1>1, <1>4, <3>1, <3>2 DEF Whole
    <2>. QED
      BY <1>1, <2>1 DEF Fetched, ResultFacts
  <1>. QED
    BY <1>6, <1>8, <1>9, <1>10, <1>11 DEF Fetched, g

\* A call is withdrawn.
LEMMA CancelInv ==
    ASSUME Inv, NEW k \in Call, Cancel(k)
    PROVE  Inv'
  <1>1. /\ call[k] = "running" /\ call' = [call EXCEPT ![k] = "cancelled"]
        /\ LeaveQueue(k) /\ UNCHANGED <<rvars, kind, permits>>
        /\ fetch' = [f \in Fetch |-> fetch'[f]]
        /\ \A f \in Fetch : fetch'[f] = IF f[1] # k THEN fetch[f]
                                        ELSE Withdrawn(fetch[f])
    BY DEF Cancel, Withdrawn
  <1>2. \A f \in Fetch : f[1] = k =>
           /\ Fetched(Withdrawn(fetch[f]), "cancelled", Validates(f[1]))
           /\ PagesIn(Withdrawn(fetch[f]), "queued") = {}
           /\ PagesIn(Withdrawn(fetch[f]), "loading") = Loading(f)
    <2> SUFFICES ASSUME NEW f \in Fetch, f[1] = k
                 PROVE  /\ Fetched(Withdrawn(fetch[f]), "cancelled", Validates(f[1]))
                        /\ PagesIn(Withdrawn(fetch[f]), "queued") = {}
                        /\ PagesIn(Withdrawn(fetch[f]), "loading") = Loading(f)
      OBVIOUS
    <2>1. Fetched(fetch[f], "running", Validates(f[1]))
      BY <1>1 DEF Inv, FetchInv
    <2>2. Loading(f) = PagesIn(fetch[f], "loading")
      BY DEF Loading, PagesIn
    <2>. QED
      BY <2>1, <2>2, WithdrawnFacts
  <1>3. FetchInv'
    <2> SUFFICES ASSUME NEW f \in Fetch
                 PROVE  Fetched(fetch'[f], call'[f[1]], Validates(f[1])')
      BY DEF FetchInv
    <2>1. Validates(f[1])' = Validates(f[1]) /\ f[1] \in Call
      BY <1>1, FetchFacts DEF Validates
    <2>2. CASE f[1] = k
      BY <1>1, <1>2, <2>1, <2>2 DEF Inv
    <2>3. CASE f[1] # k
      BY <1>1, <2>1, <2>3 DEF Inv, FetchInv
    <2>. QED
      BY <2>2, <2>3
  <1>4. PermitInv'
    <2>1. \A f \in Fetch : Loading(f)' = Loading(f)
      <3>1. \A f \in Fetch : PagesIn(fetch'[f], "loading") = Loading(f)
        BY <1>1, <1>2 DEF Loading, PagesIn
      <3>. QED
        BY <3>1 DEF Loading, PagesIn
    <2>2. InLoad' = InLoad
      BY <2>1 DEF InLoad
    <2>. QED
      BY <1>1, <2>2 DEF Inv, PermitInv
  <1>5. QueueInv'
    <2>1. \A f \in Fetch : PagesIn(fetch'[f], "queued") =
                             IF f[1] # k THEN Queued(f) ELSE {}
      BY <1>1, <1>2 DEF Queued
    <2>2. ASSUME NEW n \in DOMAIN queue'
          PROVE  queue'[n][2] \in PagesIn(fetch'[queue'[n][1]], "queued")
      <3>1. PICK m \in DOMAIN queue : queue'[n] = queue[m] /\ queue[m][1][1] # k
        BY <1>1, <2>2, LeaveQueueFacts DEF Inv
      <3>2. queue[m][1] \in Fetch /\ queue[m][2] \in Queued(queue[m][1])
        BY <3>1 DEF Inv, QueueInv
      <3>. QED
        BY <2>1, <3>1, <3>2
    <2>3. ASSUME NEW f \in Fetch, NEW i \in PagesIn(fetch'[f], "queued")
          PROVE  \E n \in DOMAIN queue' : queue'[n] = <<f, i>>
      <3>1. f[1] # k /\ i \in Queued(f)
        BY <2>1, <2>3
      <3>2. PICK m \in DOMAIN queue : queue[m] = <<f, i>>
        BY <3>1 DEF Inv, QueueInv
      <3>. QED
        BY <1>1, <3>1, <3>2, LeaveQueueFacts DEF Inv
    <2>4. /\ queue' \in Seq(Fetch \X Nat)
          /\ \A m, n \in DOMAIN queue' : queue'[m] = queue'[n] => m = n
      BY <1>1, LeaveQueueFacts DEF Inv
    <2>. QED
      BY <2>2, <2>3, <2>4 DEF QueueInv, Queued
  <1>6. RulesInv' /\ call' \in [Call -> CallState]
    BY <1>1, RulesNextInv DEF Inv, CallState
  <1>. QED
    BY <1>1, <1>3, <1>4, <1>5, <1>6 DEF Inv

\* The rules change under the calls.
LEMMA RulesStepInv ==
    ASSUME Inv, RulesNext \/ UNCHANGED rvars, UNCHANGED cvars
    PROVE  Inv'
  <1>1. UNCHANGED <<kind, call, fetch, permits, queue>>
    BY DEF cvars
  <1>2. FetchInv'
    <2>1. \A f \in Fetch : Validates(f[1])' = Validates(f[1])
      BY <1>1 DEF Validates
    <2>. QED
      BY <1>1, <2>1 DEF Inv, FetchInv
  <1>3. QueueInv' /\ PermitInv'
    <2>1. \A f \in Fetch : /\ PagesIn(fetch'[f], "queued") = Queued(f)
                           /\ PagesIn(fetch'[f], "loading") = Loading(f)
      BY <1>1 DEF Queued, Loading, PagesIn
    <2>. QED
      BY <1>1, <2>1, SameQueue DEF Inv
  <1>4. RulesInv'
    BY RulesNextInv DEF Inv
  <1>. QED
    BY <1>1, <1>2, <1>3, <1>4 DEF Inv

-----------------------------------------------------------------------------
\* The initial states satisfy the invariant.
LEMMA InitInv == Init => Inv
  <1> SUFFICES ASSUME Init PROVE Inv
    OBVIOUS
  <1>1. RulesInv
    BY MaxPushAssumption DEF Init, RulesInit, RulesInv, RulesAreOneSet
  <1>2. \A f \in Fetch : fetch[f] = NewFetch /\ call[f[1]] = "new"
    BY FetchFacts DEF Init
  <1>3. FetchInv
    <2>1. \A v : Fetched(NewFetch, "new", v)
      BY NewFetchFacts DEF Fetched, CallFacts, ResultFacts
    <2>. QED
      BY <1>2, <2>1 DEF FetchInv
  <1>4. \A f \in Fetch : Queued(f) = {} /\ Loading(f) = {}
    BY <1>2, NewFetchFacts DEF Queued, Loading, PagesIn
  <1>5. QueueInv
    BY <1>4 DEF Init, QueueInv
  <1>6. PermitInv
    <2>1. InLoad = {}
      BY <1>4 DEF InLoad
    <2>. QED
      BY <2>1, FS_EmptySet, MaxPagesAssumption DEF Init, PermitInv
  <1>. QED
    BY <1>1, <1>3, <1>5, <1>6 DEF Init, Inv, CallState

\* Every step preserves the invariant.
LEMMA NextInv == Inv /\ [Next]_vars => Inv'
  <1> SUFFICES ASSUME Inv, [Next]_vars PROVE Inv'
    OBVIOUS
  <1>1. ASSUME NEW f \in Fetch, FetchStep(f) PROVE Inv'
    BY <1>1, StartCrawlInv, StartSearchInv, BrowserRefusedInv, BrowserLentInv,
       EndLoadInv, EndRequestInv, EndCancelledInv DEF FetchStep
  <1>2. ASSUME NEW k \in Call, Begin(k) \/ Reply(k) \/ Cancel(k) PROVE Inv'
    BY <1>2, BeginInv, ReplyInv, CancelInv
  <1>3. CASE TakePermit
    BY <1>3, TakePermitInv
  <1>4. CASE RulesNext /\ UNCHANGED cvars
    BY <1>4, RulesStepInv
  <1>5. CASE UNCHANGED vars
    BY <1>5, RulesStepInv DEF vars
  <1>. QED
    BY <1>1, <1>2, <1>3, <1>4, <1>5 DEF Next

\* The invariant holds in every reachable state.
THEOREM RequestsInvariant == Spec => []Inv
  BY InitInv, NextInv, PTL DEF Spec

\* Every variable of the requests and of the rules keeps its type.
THEOREM RequestsTypeCorrect == Spec => []TypeOK
  <1>1. ASSUME Inv PROVE TypeOK
    <2>1. \A f \in Fetch :
             /\ fetch[f].phase \in Phases /\ fetch[f].result \in Results
             /\ Len(fetch[f].page) \in {0, Len(fetch[f].urls)}
      BY <1>1 DEF Inv, FetchInv, Fetched, RecordType
    <2>2. permits \in 0..MAX_PAGES
      <3>1. Cardinality(InLoad) \in Nat /\ permits \in Nat
            /\ permits + Cardinality(InLoad) = MAX_PAGES
        BY <1>1, FS_CardinalityType DEF Inv, PermitInv
      <3>. QED
        BY <3>1, MaxPagesAssumption
    <2>. QED
      BY <1>1, <2>1, <2>2
      DEF Inv, RulesInv, TypeOK, CallState, Phases, Results
  <1>. QED
    BY <1>1, RequestsInvariant, PTL

\* The rules in force come from one document, whatever the Nacos server answers
\* and pushes, in whatever order.
THEOREM OneRuleSet == Spec => []RulesAreOneSet
  <1>1. Inv => RulesAreOneSet
    BY DEF Inv, RulesInv
  <1>. QED
    BY <1>1, RequestsInvariant, PTL

\* No interleaving of requests, answers and cancellations loses or doubles a
\* permit of GLOBAL_SEM, for every number of permits, calls and engines.
THEOREM PermitsKept == Spec => []PermitsConserved
  <1>1. Inv => PermitsConserved
    BY DEF Inv, PermitInv, QueueInv, InLoad, Queued, PagesIn, PermitsConserved
  <1>. QED
    BY <1>1, RequestsInvariant, PTL

\* A caller that validates gets the text of every page or an exception, for
\* every set of rules, also one that changes while the call runs.
THEOREM WholeContent == Spec => []ContentIsWhole
  <1>1. ASSUME Inv PROVE ContentIsWhole
    <2> SUFFICES ASSUME NEW k \in Call, call[k] = "content", Validates(k),
                        NEW f \in FetchesOf(k)
                 PROVE  Whole(fetch[f])
      BY DEF ContentIsWhole, Whole
    <2>1. f \in Fetch /\ f[1] = k
      BY DEF FetchesOf
    <2>2. Fetched(fetch[f], "content", TRUE)
      BY <1>1, <2>1 DEF Inv, FetchInv, Validates
    <2>3. fetch[f].result = "texts"
      BY <2>2 DEF Fetched, RecordType, CallFacts, ResultFacts, Results
    <2>. QED
      BY <2>2, <2>3 DEF Fetched, ResultFacts
  <1>. QED
    BY <1>1, RequestsInvariant, PTL
=============================================================================
