# Verification of aduib-mcp-server

A TLA+ development beside the Python code of `aduib-mcp-server`, a server that
offers crawling, web search, GitHub and memory tools over MCP, HTTP and RPC. It
models the parts of the server that keep state and run concurrently, checks
them with TLC on small instances, and proves their main safety properties with
TLAPS for every instance. Paths below are relative to `src/`.

## The system

All server code of a process runs on one asyncio event loop: coroutines
interleave at `await` and nowhere else. Several processes may share one Redis.
The parts, the state they keep and how they meet:

| part | state | operations | meets | hard because |
|---|---|---|---|---|
| crawler pool, `component/crawl4ai/crawler_pool.py` | `POOL`, `LAST_USED`, `LOCK`, a browser per entry | `get_crawler`, `check_memory_and_cleanup`, `janitor`, `close_all` | called by the crawl service, started and stopped by the life cycle | three kinds of task share two dictionaries; a `finally` writes them without the lock; browsers start and stop under the lock; any await may be cancelled |
| circuit breaker, `libs/exception_middleware.py` | failures, successes, open flag, time of the last failure | `dispatch`, `_record_failure` | around every HTTP request | answers of requests from before a change of state arrive after it |
| crawl jobs, `service/crawl4ai_service.py`, `service/notify.py` | a Redis hash per job | submit, `_runner`, poll | pool, Redis, notification client | commands of a job and of a poll interleave; crash between two commands |
| adaptive crawler, `component/crawl4ai/adaptive_crawler.py` | `CrawlState`, its file, the caches of a strategy | `digest`, `_crawl_batch`, `rank_links`, `update_state`, `save`, `load` | crawl service, pool crawler | failures inside a batch, limits looked at between batches, resuming from a file, caches that outlive a digest |
| crawl requests, `service/crawl4ai_service.py`, `mcp_service/crawl_tools.py`, `rpc/service/**`, `controllers/crawl4ai/**` | the permits of `GLOBAL_SEM`, a coroutine per request | `handle_crawl_request`, `handle_web_search_job`, `crawl_web`, `web_search` | pool, rules, adaptive crawler | pages of many calls wait for the same permits; searches under one `gather` outlive its answer; a cancelled call winds up in the background |
| crawl rules, `component/crawl4ai/config_loader/**`, `configs/crawl4ai/**`, `configs/remote/nacos/client.py` | `CRAWL_RULES`, the listener's cache | `init_crawler_env`, `change_crawl_rule`, `get_rule_by_url`, `get_rules_by_group` | Nacos, crawl requests | a push replaces the rules in the middle of a search; part of it may not validate |
| application life cycle, `app_factory.py`, `app.py` | session manager, janitor task, registration task | `lifespan`, `run_mcp_server` | uvicorn, pool, MCP server, Nacos | an error while serving is handled by the code that starts up; a dozen ways to end |
| settings, `configs/app_config.py`, `configs/remote/base.py` | the configuration | `get_field_value` | Nacos, life cycle | every field is a read of its own |
| MCP server, `fast_mcp.py`, `mcp_factory.py`, `nacos_mcp.py` | tool, resource and prompt registries, session manager | constructors, plugins, `sse_app`, `streamable_http_app`, `call_tool`, `read_resource` | life cycle, tools | a subclass replaces the low-level server its superclass has set up; several objects must mean the same server |
| MCP tools, `mcp_service/*` | background tasks | `retrieve_qa_kb`, `qa_record_hit`, the GitHub and knowledge tools | RPC client, GitHub client, crawl service | work that goes on after the answer |
| RPC client, `rpc/client/*` | none | stubs | QA memory, knowledge base | a call that failed may have been executed |
| GitHub client, `service/github_graphql_client.py` | an HTTP client per call | `_execute` and a method per query | GitHub tools | the order of the error cases; nulls on the way to the data |
| authorization, `libs/api_key_auth.py` | codes and tokens in the database | register, authorize, exchange, refresh, revoke | not wired into the server | |
| rate limiter, `utils/rate_limit.py` | a Redis hash of active requests | `enter`, `exit`, `flush_cache` | not used | |
| the rest | | Redis wrapper, utilities, parsers, logging, migrations | | wiring and data conversion |

What makes each part correct:

- **pool**: the two dictionaries agree at every await; only the holder of `LOCK`
  changes `POOL`; an open browser is in `POOL` once, one that starts or closes is
  there or with the holder of `LOCK`; one browser per signature; nobody is handed
  a browser that is being closed; an idle browser is closed in the end, a fresh
  one is not; when `close_all` returns every `close()` is over; every call comes
  back.
- **breaker**: opens after `failure_threshold` failures in a row under every
  interleaving, stays open only for `reset_timeout` after the last failed
  answer, lets a request through again.
- **jobs**: a poll never reads a half written record, the status never goes
  back, a finished job's result can be fetched, every job ends with its end on
  record, every record disappears.
- **adaptive crawler**: limits hold although they are checked between batches;
  the statistics belong to the pages they were computed from, also after a
  failure or a resume; every digest ends.
- **requests**: at most `MAX_PAGES` pages load at once, and every permit comes
  back, whoever failed or was cancelled; an answer has the text of every page
  asked for or is an error; every call ends, and what it leaves behind.
- **rules**: those in force come from one document, whatever is pushed.
- **life cycle**: no browser of the pool outlives the process on any way out; the
  process comes to rest.
- **MCP server**: the low-level server that answers clients is the one Nacos
  lists, with its handlers and all plugins, in every configuration.
- **tools**: a GitHub answer says what GitHub said; the QA memory counts an
  entry as shown only for an item of an answer, or a report.

`PROJECT.json` lists all components with what is modelled of each, and the
hazards at their lines with the properties that cover them.

## The modules

Each component has a module with its state, actions and properties, an `MC`
module with the values of a small instance, one or more `.cfg` files, and a
`Proofs` module. The text above each definition says what it stands for;
`PROJECT.json` "map" names the lines.

### CrawlerPool

A step is the code between two suspension points: a wait for `LOCK`, the await
of a browser's `start()` or `close()`, the janitor's sleep. The variables are
the two dictionaries, the lock (`owner` and the first-come-first-served queue
`waiters` of `asyncio.Lock`), where each task, the janitor and the closer are
suspended (`pc`), their locals (`sig`, `crawler`, `now`, `todo`, `reap`), the
browser process behind each crawler object, and the clock. `since` only
observes when a task was given its crawler.

| code | actions |
|---|---|
| `get_crawler`, 232-297 | `GetCrawler`, `Hit` (both checks), `Miss`, `Create`, `StartOk`, `StartFail`; `Finally` is part of every way out |
| `check_memory_and_cleanup`, 184-230 | `EvictBegin`, `EvictEnd`, `EvictNothing` |
| `janitor`, 307-320 | `JanitorWake`, `JanitorLock`, `JanitorReaped`; `Scan` is the loop over the snapshot |
| `close_all`, 300-305 | `CloseAll`, `CloseAllBegin`, `CloseAllEnd` |
| cancellation | `CancelWaiting`, `CancelInBrowser`, `JanitorCancel` |

Whether memory is critical is a choice in `Miss`. A `close()` or `start()` that
raises is folded into its end, because the code treats both alike. What becomes
of the browser is a choice in `Ended`: "closed", or "abandoned" when it may still
run although nothing refers to it; likewise after a cancellation in `start()` or
`close()`. No property is about abandoned browsers, as the code has forgotten
them: `NoOrphanBrowser` says that every other one is in `POOL` or with the holder
of `LOCK`, and that `POOL` has no entry of a browser whose end is over. A
`get_crawler` that returns `None` after a failed start is one that fails: its
caller raises at once. `close_all`'s own cancellation is left out (the process
is ending then).

`LeaseService` is the abstract specification: what callers rely on. A call is
answered at one moment with the browser shared under its signature, with a new
one, or with a failure. There is no lock, no clock and no `close()` in progress
in it. `CrawlerPool` implements it (`ImplementsLeases`) under the mapping
`Shared` (the open browsers of `POOL`), `Held`, `Phase`; `tended` says that the
janitor was not cancelled. The abstract specification promises what the code
keeps and no more: a browser may be withdrawn while it is held (see
`crawler_pool_reaps_busy`), and once the janitor was cancelled in the middle of
a `close()` a call may be lent the browser it left half closed.

### CircuitBreaker

A request has two steps, before and after `await call_next(request)`; it keeps
the `now` it read in the first one (`age`) and records a failure under that
time in the second. Times are ages that saturate at `reset_timeout + 1` and
counters saturate at their limits. The code compares them with exactly these
limits, so this loses nothing and the module needs no bounds. The inner
`GlobalExceptionMiddleware` is the operator `GlobalException`. `streak`,
`since_answer` and `since_open` only observe.

### CrawlTask

The hash `aduib_task:{id}` with its fields and its time to live, and the
commands that touch it, one action per Redis command. `_runner` is `Start`,
`CrawlOk` or `CrawlError`, `Expire`, `Notify`, `MarkFailed`; any command may
raise (`RedisError`) and the process may die between two (`Die`). A job ends in
`pc` "done", in "lost" if Redis failed its last write, or "dead"; `JobEnds` asks
of the first that the record, if it is still there, says how the job ended.
`RecordIsWhole` is about one process; with several, a poll may delete a record
between two commands of another process's job.
`handle_task_status` is `Poll` and `Delete`. Redis calls are synchronous: in one
process nothing runs between two of them. The variable `shared`, chosen in
`Init`, says whether several processes use the Redis; if not, `LoopFree` keeps
commands of two coroutines from interleaving.

### AdaptiveCrawl, StatisticalStrategy, EmbeddingStrategy, AdaptiveCrawler

`AdaptiveCrawl` is the loop of `digest` for any strategy, one action per stretch
between two awaits: `Digest` or `Resume`, `StartLoaded` or `StartFailed`,
`Select`, `BatchDone`, `Save`, `Stop`; `Die` is cancellation, an exception or a
crash, also in the middle of writing the file. `ZipCrawled` and `ZipPending` are
the loop over `zip(new_results, to_crawl)`, `Loaded` the results that
`_crawl_batch` keeps. What ranks first, when a strategy has
enough and whether it raises are choices. Pages are URLs with given links and
terms. The crawl service builds the crawler without a state file; saving and
resuming are what the class offers.

The two strategies extend the loop: each of their actions is one of the loop
together with what the strategy keeps and decides in it.

| strategy | state | code |
|---|---|---|
| `StatisticalStrategy` | `stats`: the term statistics in `CrawlState` | `UpdateOne` is the body of `update_state`; `MayStop` restricts `Stop` where the code fixes the answer (no confidence without pages, no saturation with less than two entries, a link's least score against `min_gain_threshold`) |
| `EmbeddingStrategy` | `semantic`: queries and embeddings in `CrawlState`; `embedder`: the strategy object with its caches, which outlives a digest | `EmbDigest` is `map_query_semantic_space`, `Embed` and `Invalidated` are `update_state`, `Ranking` the cached distance matrix of `find_coverage_gaps`, `Validating` the cache of `validate_coverage` |

The embedding of a text stands for the text; texts count as too similar when
they are equal. The thresholds are taken to be positive. `AdaptiveCrawler` puts
loop and strategies together, with the strategy of the configuration in the
variable `strategy`.

### CrawlRules, RemoteRules, CrawlRequests

`CrawlRules` has the rules and their lookups as operators: the default groups of
`configs/crawl4ai/crawl_rule.py`, `get_rule_by_url` (the last group with a match
wins; without a match the rule of "default"; `NoRule` is the recursion that
finds neither), `get_rules_by_group`, and `Text`, what
`create_processed_result` makes of a page. `RemoteRules` is where the rules come
from: `LoadFile` or `LoadNacos` at start-up, `Register`, and `ConfigWatcher`,
the call of the listener, which clears and appends in one step because neither
awaits. Documents are JSON lists of groups, `null`, text that is no JSON, or
nothing.

`CrawlRequests` extends it with calls and their fetches. A call of `crawl_web`,
of the RPC crawl service or of an HTTP handler is one fetch, a web search one
fetch per engine under `asyncio.gather`. `Request` chooses the rule and asks for
a browser; `BrowserLent` or `BrowserRefused` is all this module knows of the
pool, which is what `LeaseService` promises. `TakePermit` and `EndLoad` are
`capped_arun`; `Answers`, `EndRequest` and `Reply` make texts, messages and
exceptions of the pages and hand the first exception of a `gather` out while the
other searches run on. Two kinds of rule load more pages than the module has:
one with `deep_crawl`, whose strategy finds further pages, and an adaptive one,
which digests its URLs one after another with many pages each and is here one
page for each URL, answered by a message or an exception. `Cancel` and `EndCancelled` are a withdrawn call,
whose pages leave the queue at once (`LeaveQueue`).

### GitHubClient, FastMCP, McpCalls, Application

| module | state | code |
|---|---|---|
| `GitHubClient` | none: operators | `Cases` are the error cases of `_execute` in their order, `_execute` takes the first, `Outcome` adds the searches' AttributeError for a null `search`, `Nodes` digs along `Path` and keeps what is not null |
| `FastMCP` | none: a server is a record that operators build | `InitFastMCP`, `InitNacosMCP`, `init_fast_mcp`, one operator per plugin and decorator, `sse_app`, `streamable_http_app`, `mount_mcp_app`, `register_service`; `Serves` is the low-level server that answers a client |
| `McpCalls` | `call`, `clients`, `hits`, `shown` | `CallGitHub` to `CloseClient` are a GitHub tool with its HTTP client; `RetrieveReplies` and `RecordShown` are `retrieve_qa_kb` and its hook, one hit for each item of the list (`Listing`); `RecordReplies`, `RpcReplies`, `CallLocal` the others; `Withdraw`, `CancelCalls`, `CancelTasks` the three ways calls are cancelled |
| `Application` | settings, `mcp`, `main` (where `run_mcp_server` and uvicorn are), `life` (where `lifespan` is), `janitor`, `rpc`, `pool` | `ReadDiscovery` to `RegisterService` up to `serve()`; `LifespanBegins` to `LifespanEnds`; `Bind`, `StopServing`, `Drained` are uvicorn; `Finally` is the end |

`Application` composes the others: calls run only while the transport serves,
a failing session or the end of the process cancels them, hooks outlive both.
Of the pool it keeps whether some browser is open, as `CrawlerPool` proves what
is needed: `close_all` leaves none open, `get_crawler` and the janitor come back.
`ExitClosesPool` is about the browsers of `POOL`; abandoned ones are outside it.
A request that still waits for `LOCK` when the last `close_all` returns could only
begin to start a browser: the event loop ends and cancels it at its first await.

What is assumed of libraries, which are not part of the repository: the session
manager of mcp 1.9.2 runs once per instance and refuses a second `run()`, and a
resource template's function runs inside `get_resource`; uvicorn 0.34.2 starts
the lifespan before it binds, skips the lifespan's end if a signal came during
start-up or twice, ends the lifespan and exits if it cannot bind, and raises its
signals again after `serve()`; a cancelled anyio task group cancels its tasks;
`asyncio.run` cancels what is left.

Two things the model makes visible that no comment of the code contradicts: the
retries of the session manager cannot succeed, so that after one failure every
MCP request of a streamable HTTP server fails while the process lives on; and
`RESOURCE_READ_TIMEOUT` never covers the only resource's RPC.

## What is checked

| run | instance | shows |
|---|---|---|
| `crawler_pool` | 2 tasks, 2 signatures, 3 crawler objects, TTL 1, clock up to 3 | `TypeOK`, `BookkeepingAgrees`, `NoOrphanBrowser`, `OneBrowserPerSig`, `HandsOutOpen`, `ReapRespectsTTL`, `PoolChangesUnderLock`, `CloseAllLeavesNoneOpen`, and the refinement `ImplementsLeases` |
| `crawler_pool_liveness` | 2 tasks, 1 signature, TTL 0, clock up to 1 | `GetCrawlerReturns`, `IdleIsReaped` |
| `crawler_pool_reaps_busy` | 1 task | **violated**: `ReapsOnlyIdle` |
| `circuit_breaker` | 3 requests, threshold 2, timeout 2, 2 trials | `TypeOK`, `OpenNeedsThreshold`, `TrialStartsFresh`, `StreakOpens`, `RejectsOnlyAfterFailure`, `StaysReachable` |
| `circuit_breaker_resets` | the same | **violated**: `ResetsAfterTimeout` |
| `crawl_task` | 2 jobs, 1 client, one process or several | `TypeOK`, `RecordIsWhole`, `StatusHasItsPayload`, `StatusOnlyAdvances`, `JobEnds`, `WeekEnds` |
| `crawl_task_result` | 2 jobs, 2 clients | **violated**: `PollFetchesResult` |
| `adaptive_crawl` | a site of 4 pages, 2 start pages, 2 digests, depth 3, batches of 2, either strategy, 3 query variations | `CrawlerTypeOK`, `TermsAgree`, `HistoriesAgree`, `PagesBounded`, `KbFollowsPages`, `GapsOfTheseQueries`, `DigestEnds` |
| `adaptive_crawl_skips` | the same site, 1 digest | **violated**: `SkipsCrawled` |
| `adaptive_crawl_held_out` | the same site, 2 digests | **violated**: `ValidatesHeldOut` |
| `crawl_requests` | a search of 2 engines, a crawl or stream of 2 URLs, 1 permit, 5 rule documents, 1 push | `TypeOK`, `RulesAreOneSet`, `PermitsConserved`, `ContentIsWhole`, `CallsEnd` |
| `mcp_server` | every transport and discovery, settings edited at any moment, 2 calls, 2 QA entries in lists of up to 2 items, 3 queries with some 40 replies each | `ExitClosesPool`, `ServedServerIsWhole`, `HitsWereShown`, `GitHubAnswerIsTrue`, `ComesToRest` |

The violated properties restate a comment or docstring that the code does not
keep; `PROJECT.json` "findings" quotes each:

- a crawl longer than `IDLE_TTL_SEC` has its browser closed by the janitor that
  "cleans up idle browsers", since `LAST_USED` is written on hand-out only;
- the circuit "resets after 60s", but the failure that opens it is dated back to
  the arrival of its request, so after slow failures it resets sooner;
- a job whose crawl succeeded is turned into a failed one by the notification
  that follows, so polling never fetches its result;
- after a failure inside a batch, `zip(new_results, to_crawl)` marks the failed
  link as crawled and not the loaded one, which is crawled again although
  crawled URLs are skipped;
- the second digest of a crawler is validated with the queries held out in the
  first, because the cache of their embeddings is never reset.

**Bounds.** Two pool tasks, the janitor and the closer are enough for a holder,
a waiter and two more actors around one entry; a third crawler object lets a
new browser start while one is used and one closes. `MaxTime` 3 with
TTL 1 lets an entry expire, be used again and expire again. In the liveness run
one tick suffices to expire an entry with TTL 0. `circuit_breaker` needs one
request more than the threshold: a late answer beside the failures that open
the circuit. `crawl_task` has two jobs so that one polls into another; `WEEK` is
2 so that an expiry takes more than one tick and can run while a job fails.
The site of `adaptive_crawl` has a page linked twice, a page without text, a
cycle and a dead end; a depth of 3 exceeds `max_pages`, so both limits end
digests; a second digest resumes or starts anew, from another page too. "d" has
the text of "a", so that an embedding is left out; of three variations two are
held out, so that two splits overlap and differ.
`crawl_requests` has one permit, so that three fetches contend for it, one of
which loads two pages (or is asked for none); the documents have no "default",
two rules for one engine, an adaptive rule, a group that does not validate, and
a rule set whose search group is missing. One push suffices to change the rules at any moment of
a search. `mcp_server` enumerates the configurations; two calls let a hook of
one run while the other searches, reports or is withdrawn, and a search lists
nothing, two entries or one of them twice; the replies of GitHub combine each
status, each kind of error and a zero limit with no data, a null at the first key
or further on and data with a null element, for a query of each shape (a search,
a list behind a nullable path, one text).
`MaxTime`, `MaxDigests` and `MaxPush` are the only bounds that are not the
code's own.

**Fairness.** `CrawlerPool`: weak fairness for each task's own steps, the
janitor's and the closer's, as the event loop runs whatever is ready, `LOCK` is
first come first served, and a browser's start and close end. No fairness for
new requests, cancellation or shutdown. `CircuitBreaker`: only time passes;
`StaysReachable` is conditional on requests that keep arriving. `CrawlTask`:
strong fairness for a job's steps, because `LoopFree` is turned off and on by
the others while the event loop, first come first served, does reach the job;
weak fairness for a begun deletion and for time. `AdaptiveCrawler`: weak fairness
for the digest, whose awaits end by the timeouts of pages and of the embedding
service. `CrawlRequests`: weak fairness for fetches, replies and permits, since
`get_crawler` comes back and a page ends at the latest with its timeout; nobody
has to call, cancel or push. `Application`: weak fairness for the internal steps;
GitHub need not ever answer (the timeout of the HTTP client ends the call), an
RPC is answered or fails, and clients, signals, edits, crawls, failures of the
session manager and the registration task are free.

## What is proved

Each theorem holds for every value of the constants (any number of tasks,
requests, jobs, any site, any limits) under the assumptions named in the module:
actors are distinct, times and limits are naturals (limits positive where the
code divides or counts by them).

- **CrawlerPoolProofs.** The invariants of the run are not inductive: to keep
  `POOL` and `LAST_USED` together through a step one has to know who is inside
  the critical section (`LockHeld`: an actor suspended in a browser's start or
  close is the owner), where the janitor is in its snapshot (`JanitorPlace`),
  which crawler a suspended task refers to (`CrawlerPlace`), and what state a
  pooled, an open and a starting browser are in (`PooledBrowser`, `LiveBrowser`,
  `StartingBrowser`). Their conjunction `Inv` is inductive (one lemma per
  action), and gives `TypeCorrect`, `Bookkeeping`, `NoOrphan`, `OneBrowser`, and
  the action properties `HandOut`, `ReapTTL`, `PoolUnderLock` and `CloseAllCloses`.
  `FinallyFacts` says why
  the block that runs without `LOCK` is harmless: it touches `LAST_USED` only,
  and only under a key of `POOL`.
  `PoolImplementsLeases` is the refinement: every step of the pool is one of
  `LeaseService` or leaves its variables alone. It rests on the same invariant;
  the step that needs most of it is a hit (the browser found in `POOL` is open
  unless the janitor was cancelled) and a start that succeeds (nobody else
  refers to the new browser).
- **CircuitBreakerProofs.** `Inv` adds that the failure counter covers the
  observed streak (`CountCoversStreak`) and that the recorded time of the last
  failure is never later than the answer (`FailureIsDatedBack`). The first gives
  `StreakOpensCircuit`, the second `RejectionIsRecent`.
- **CrawlTaskProofs.** `Inv` says which phases a job can be in with which record
  (`Phases`), that only finished records are about to be dropped (`Drops`), and
  that in one process at most one coroutine is between two commands
  (`OneAtATime`). The last one is what makes `RecordIsWhole` inductive.
- **AdaptiveCrawlProofs.** `CountedPagesBounded`: the bound of `PagesBounded`
  with a term for each place in the digest (a start page or a batch still to be
  counted), and the cardinality lemmas it rests on. It is proved of the loop;
  `StrategiesImplementLoop` shows that a crawler with either strategy implements
  the loop, and so `CrawlerPagesBounded` and `LoopTypeCorrect` follow for it.
  `LoopType` is the type with what makes it inductive (there is depth left while
  a batch is crawled), and says that a torn file has nothing to resume from.
  `PickedFacts`: the pages picked from a batch are those at the positions that
  loaded, each once.
- **EmbeddingProofs.** `EmbInv` adds to the types that embeddings follow the
  pages (`Followed`, inductive with the torn file of `LoopType` and with
  `KeptFacts`: a text is only left out if the base has it) and what lies behind
  `GapsFollowQueries` (`Found`): while a digest that was not resumed runs, a
  cached matrix that would be found by its key is the matrix of this digest's
  queries, because the base is empty when the queries change and every text that
  might go into it drops the matrix.
- **StatisticalProofs.** `TermsKept` and `HistoriesKept`. The update for one page
  keeps both (`UpdateOneOK`) because the id a page is filed under is new, which
  needs that the ids in use are below `total_documents`, and because the terms
  known are finitely many. `UpdateStateLoops` unfolds `update_state` into the
  states after each page, and `UpdateStateOK` carries the facts through them;
  `TotalFacts` does the same for the sum of the history.
- **CrawlRequestsProofs.** `Inv` says of each fetch what its phase, its pages, its
  result and the state of its call allow (`Fetched`), that the queue holds each
  waiting page once and nothing else (`QueueInv`), and that permits and loading
  pages add up (`PermitInv`); a cancelled call takes its pages out of the queue
  in the same step, which is what `QueueInv` needs. `PermitsKept`,
  `WholeContent` and `RequestsTypeCorrect` follow. For `OneRuleSet` the
  invariant adds that the listener exists after start-up only and that start-up
  finds no pushed document in the cache (`RulesInv`).
- **ApplicationProofs.** Four invariants, each inductive by itself. `LifeInv`: a
  browser can only be open while the process is past `mount` and has not ended,
  and the warm-up runs in start-up only; it gives `ExitCloses`. `ServerInv`: the
  server object is the one that the settings make, listed or not; `MadeFacts`
  computes it for every transport and discovery; it gives `ServedWhole`.
  `HitInv` counts, for each entry, the hits recorded and those still to be
  recorded (by a hook or by a report under way) against the items of answers that
  list it and the reports that say so; a step that lists more adds the same items
  to both sides (`ListsMore`), one that counts takes one away (`CountsOne`). It
  gives `HitsShown`. `ReplyInv` ties a call's answer to the reply it got; with
  `OutcomeIsTrue` (what the first case that applies, and a null `search`, say of
  the reply) it gives `GitHubAnswered`.

So every invariant, every action property and the refinement that a run checks
is also proved, for these components' every instance. Assumptions that go
beyond ranges of numbers: a page's terms are finitely many (`PagesAssumption`),
the URLs of a call and the results of a QA search are sequences
(`UrlsAssumption`, `ResultsAssumption`), and GitHub's replies are of the form
`ReplyType` (`RepliesAssumption`), in which every key that a query asks for is
there, if null.

Two conventions of the modules serve the proofs. `Picked` (and likewise
`LeaveQueue`, `ZipLinks` and the count of nodes in `Nodes`) says with
cardinalities what a filter or a loop over a sequence selects, since the provers
know nothing of `SelectSeq` and of folds. And a loop that has to be followed is
a recursive function; where a proof needs induction over its rounds it takes
the least round that fails (`LeastNumber`, from the well-foundedness of `<`).

Only model-checked are the liveness properties `GetCrawlerReturns`,
`IdleIsReaped`, `StaysReachable`, `JobEnds`, `WeekEnds`, `DigestEnds`, `CallsEnd`
and `ComesToRest`: they need fairness and `ENABLED`, which are out of the
prover's reach. `GapsOfTheseQueries` leaves out a digest resumed from a file:
its queries are those of the file, and the matrix cached for the same embeddings
may be of other queries.

## What is not modelled, and the plan

Not modelled, with the reason:

- browsers, pages and their parsing, the contents of results, prompts and
  queries, logging, the database engine and its migrations, routing, static
  pages and scripts: data without control of the server's own;
- `libs/api_key_auth.py`: `MCPFactory` passes no provider, so nothing constructs
  it and no scope is ever required;
- `utils/rate_limit.py`, `utils/snowflake_id.py`, `utils/async_utils.py`,
  `with_timeout_and_retry`, the asynchronous and naming halves of `NacosClient`,
  `redis_fallback`: nothing in the server calls them, so how they would be used
  concurrently would be made up;
- the `run_*` methods of `FastMCP` and `NacosMCP`, custom routes and the helpers
  of `Context`: `app.py` mounts the app and no tool uses the context;
- what `stream_results` yields: its only reader validates the generator as an
  answer, which raises first.

Next: that the pool as `Application` and `CrawlRequests` see it (one flag, and
requests that are lent a browser or refused) is implemented by `LeaseService` or
`CrawlerPool`, so that the composition rests on a theorem instead of an argument
in this text.

## Running

    tlc -workers 2 -config CrawlerPool.cfg MCCrawlerPool
    tlapm CrawlerPoolProofs.tla

and likewise for the other configurations and `Proofs` modules.
