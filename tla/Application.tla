---------------------------- MODULE Application ----------------------------
(***************************************************************************)
(* The process: app.run_mcp_server, the lifespan of app_factory.py under   *)
(* uvicorn, and the calls of McpCalls that are served meanwhile.           *)
(*                                                                         *)
(* uvicorn and starlette are external: serve() starts the lifespan, binds, *)
(* serves until a signal, asks the lifespan to end, and raises if it could *)
(* not bind.  Of the crawler pool this module knows what CrawlerPool       *)
(* proves: get_crawler opens browsers, the janitor closes idle ones, and   *)
(* none is open when close_all returns.                                    *)
(***************************************************************************)
EXTENDS McpCalls

VARIABLES
    remote,     \* the settings Nacos holds, NoSettings if none or read already
    transport,  \* config.TRANSPORT_TYPE
    discovery,  \* "off", or config.DISCOVERY_SERVICE_TYPE if enabled
    mcp,        \* the server of MCPFactory, see FastMCP
    main,       \* where run_mcp_server and uvicorn are, see MainStates
    raised,     \* whether serve() ends with SystemExit
    signals,    \* signals received; a second one forces the exit
    life,       \* where the lifespan is, see LifeStates
    attempt,    \* its attempts to run the session manager
    janitor,    \* whether the janitor's task runs
    rpc,        \* the registration task: "none", "registering" or "serving"
    pool        \* "open" when some browser is

pvars == <<remote, transport, discovery, mcp, main, raised, signals, life, attempt,
           janitor, rpc, pool>>
vars == <<mvars, pvars>>

MainStates == {"settings", "transport", "boot", "mount", "register", "startup", "bind",
               "serving", "draining", "lifespan", "finally", "ended", "crashed"}
LifeStates == {"none", "warming", "session", "plain", "failing", "dead", "done"}

MAX_SESSION_RETRIES == 3

AllSettings == [transport : Transports, discovery : Discoveries]
NoSettings == [transport |-> "none", discovery |-> "none"]

\* The settings are the local ones until they are read from Nacos.
Init ==
    /\ CallsInit
    /\ transport \in Transports /\ discovery \in Discoveries
    /\ remote \in AllSettings \cup {NoSettings}
    /\ mcp = NoServer
    /\ main = "settings" /\ raised = FALSE /\ signals = 0
    /\ life = "none" /\ attempt = 0 /\ janitor = FALSE /\ rpc = "none"
    /\ pool = "empty"

-----------------------------------------------------------------------------
(* configs/: the settings are read when the modules are imported *)

\* get_field_value asks Nacos for the whole document again for each field; if
\* there is none it publishes the local settings and goes on with those.  A
\* field that the environment sets keeps its value.
Document == IF remote = NoSettings
            THEN [transport |-> transport, discovery |-> discovery] ELSE remote

\* The two fields of discovery, whether and which, are one read here: as any
\* document may be there before, in the environment and in Nacos, two reads give
\* no value that one does not.
ReadDiscovery ==
    /\ main = "settings" /\ main' = "transport"
    /\ discovery' \in {discovery, Document.discovery}
    /\ remote' = Document
    /\ UNCHANGED <<mvars, transport, mcp, raised, signals, life, attempt, janitor, rpc, pool>>

\* The last field; what Nacos holds matters no more.
ReadTransport ==
    /\ main = "transport" /\ main' = "boot"
    /\ transport' \in {transport, Document.transport}
    /\ remote' = NoSettings
    /\ UNCHANGED <<mvars, discovery, mcp, raised, signals, life, attempt, janitor, rpc, pool>>

\* No source is configured, or Nacos fails, which ends the import.
NoSource ==
    /\ main \in {"settings", "transport"}
    /\ \/ main = "settings" /\ main' = "boot"
       \/ main' = "crashed"
    /\ remote' = NoSettings
    /\ UNCHANGED <<mvars, transport, discovery, mcp, raised, signals, life, attempt,
                   janitor, rpc, pool>>

\* Somebody edits the settings in between.
EditSettings ==
    /\ main = "transport"
    /\ remote' \in AllSettings
    /\ UNCHANGED <<mvars, transport, discovery, mcp, main, raised, signals, life, attempt,
                   janitor, rpc, pool>>

-----------------------------------------------------------------------------
(* run_mcp_server up to serve(): what raises here ends the process *)

\* No playground files, or a rules document that makes init_crawler_env raise.
InitCrawlerPool ==
    /\ main = "boot"
    /\ main' \in {"mount", "crashed"}
    /\ UNCHANGED <<mvars, remote, transport, discovery, mcp, raised, signals, life, attempt,
                   janitor, rpc, pool>>

MountMcp ==
    LET server == init_fast_mcp(discovery) IN
    /\ main = "mount"
    /\ IF MountRaises(server, transport) THEN main' = "crashed" /\ UNCHANGED mcp
       ELSE /\ mcp' = mount_mcp_app(load_mcp_plugins(server), transport)
            /\ main' = IF server.low = "nacos" THEN "register" ELSE "startup"
    /\ UNCHANGED <<mvars, remote, transport, discovery, raised, signals, life, attempt,
                   janitor, rpc, pool>>

\* Nacos lists the server before anything listens.
RegisterService ==
    /\ main = "register"
    /\ \/ main' = "crashed" /\ UNCHANGED mcp
       \/ main' = "startup" /\ mcp' = register_service(mcp, transport)
    /\ UNCHANGED <<mvars, remote, transport, discovery, raised, signals, life, attempt,
                   janitor, rpc, pool>>

-----------------------------------------------------------------------------
(* lifespan *)

\* The registration task is started and nobody keeps it.
LifespanBegins ==
    /\ main = "startup" /\ life = "none"
    /\ life' = "warming" /\ rpc' = "registering"
    /\ UNCHANGED <<mvars, remote, transport, discovery, mcp, main, raised, signals, attempt,
                   janitor, pool>>

\* The first get_crawler.  If it raises, start-up has failed and serve()
\* returns; it may also come back without a browser, which nobody looks at.
WarmUp ==
    /\ life = "warming"
    /\ \/ /\ life' = "dead" /\ main' = "finally"
          /\ pool' \in {pool, "empty"} /\ UNCHANGED <<attempt, janitor>>
       \/ /\ pool' \in {"empty", "open"}
          /\ janitor' = TRUE
          /\ life' = IF transport = "streamable-http" THEN "session" ELSE "plain"
          /\ attempt' = IF transport = "streamable-http" THEN 1 ELSE 0
          /\ main' = "bind"
    /\ UNCHANGED <<mvars, remote, transport, discovery, mcp, raised, signals, rpc>>

\* A task of the session manager raises: the others are cancelled, and the
\* exception group surfaces at the yield.
SessionFails ==
    /\ life = "session" /\ main \in {"serving", "draining", "lifespan"}
    /\ life' = "failing"
    /\ CancelCalls
    /\ UNCHANGED <<kind, clients, hits, shown, remote, transport, discovery, mcp, main, raised,
                   signals, attempt, janitor, rpc, pool>>

\* Mutant: the attempts are not counted.
RetryForever ==
    /\ life = "failing"
    /\ UNCHANGED vars

\* After a pause the session manager is run again, which it refuses: one
\* instance runs once.  After the last attempt the generator yields a second
\* time, which is an error of its own, so nothing below that yield is run.
Retry ==
    /\ life = "failing"
    /\ IF attempt < MAX_SESSION_RETRIES
       THEN attempt' = attempt + 1 /\ UNCHANGED life
       ELSE life' = "dead" /\ UNCHANGED attempt
    /\ UNCHANGED <<mvars, remote, transport, discovery, mcp, main, raised, signals, janitor,
                   rpc, pool>>

\* The `return` inside the session skips the clean-up at the end of lifespan;
\* leaving the session cancels its calls.  A lifespan that is dead is not
\* asked, one that is failing is waited for.
LifespanEnds ==
    /\ main = "lifespan" /\ main' = "finally"
    /\ \/ /\ life = "session" /\ life' = "done"
          /\ CancelCalls /\ UNCHANGED <<clients, janitor, pool>>
       \/ /\ life = "plain" /\ life' = "done"
          /\ janitor' = FALSE /\ pool' = "empty"
          /\ UNCHANGED <<call, clients>>
       \/ /\ life = "dead"
          /\ UNCHANGED <<life, call, clients, janitor, pool>>
    /\ UNCHANGED <<kind, hits, shown, remote, transport, discovery, mcp, raised, signals,
                   attempt, rpc>>

-----------------------------------------------------------------------------
(* uvicorn's serve() *)

Signal ==
    /\ main \in {"startup", "bind", "serving", "draining", "lifespan"} /\ signals < 2
    /\ signals' = signals + 1
    /\ UNCHANGED <<mvars, remote, transport, discovery, mcp, main, raised, life, attempt,
                   janitor, rpc, pool>>

\* An address in use ends the lifespan and exits; a signal during start-up
\* makes serve() return without asking the lifespan to end.
Bind ==
    /\ main = "bind"
    /\ \/ main' = "lifespan" /\ raised' = TRUE
       \/ main' = (IF signals > 0 THEN "finally" ELSE "serving") /\ UNCHANGED raised
    /\ UNCHANGED <<mvars, remote, transport, discovery, mcp, signals, life, attempt, janitor,
                   rpc, pool>>

StopServing ==
    /\ main = "serving" /\ signals > 0
    /\ main' = "draining"
    /\ UNCHANGED <<mvars, remote, transport, discovery, mcp, raised, signals, life, attempt,
                   janitor, rpc, pool>>

\* Over SSE the calls belong to requests that are waited for; over streamable
\* HTTP they belong to the session manager.
Drained ==
    /\ main = "draining"
    /\ (transport = "sse" /\ signals = 1) => \A c \in Call : ~Running(c)
    /\ main' = IF signals = 2 \/ life = "dead" THEN "finally" ELSE "lifespan"
    /\ UNCHANGED <<mvars, remote, transport, discovery, mcp, raised, signals, life, attempt,
                   janitor, rpc, pool>>

\* Mutant: close_all follows serve() without a `finally`.
CloseAfterServe ==
    /\ main = "finally" /\ main' = "ended"
    /\ pool' = IF raised THEN pool ELSE "empty"
    /\ janitor' = FALSE /\ rpc' = "none"
    /\ CancelTasks
    /\ UNCHANGED <<kind, shown, remote, transport, discovery, mcp, raised, signals, life, attempt>>

\* The `finally` of run_mcp_server, and asyncio.run after it.  uvicorn raises
\* its signals again when serve() ends; handle_shutdown only logs them.
\* A crawl that waited for LOCK during close_all gets it for one step of the
\* loop: asyncio.run cancels it at its first await, with no browser launched.
Finally ==
    /\ main = "finally" /\ main' = "ended"
    /\ pool' = "empty"
    /\ janitor' = FALSE /\ rpc' = "none"
    /\ CancelTasks
    /\ UNCHANGED <<kind, shown, remote, transport, discovery, mcp, raised, signals, life, attempt>>

-----------------------------------------------------------------------------
(* while the process runs *)

Alive == main \notin {"ended", "crashed"}

\* A session that ended leaves MCP requests without a task group, while the
\* rest of the application is served on.
Serving == main = "serving" /\ mcp.mounted # "none"
           /\ (mcp.mounted = "streamable-http" => life = "session")

ClientStep ==
    /\ Serving /\ \E c \in Call : Begin(c) \/ Withdraw(c)
    /\ UNCHANGED pvars

CallStep ==
    /\ Alive
    /\ (\E c \in Call : Progress(c)) \/ (\E h \in hits : RecordShown(h))
    /\ UNCHANGED pvars

GitHubStep ==
    /\ Alive /\ \E c \in Call : GitHubReplies(c)
    /\ UNCHANGED pvars

RegistrationServes ==
    /\ rpc = "registering" /\ rpc' = "serving"
    /\ UNCHANGED <<mvars, remote, transport, discovery, mcp, main, raised, signals, life,
                   attempt, janitor, pool>>

\* A crawl over HTTP or MCP, or over RPC, which nothing stops before the end; one
\* refused for memory evicts the oldest browser and starts none.
Crawl ==
    /\ Alive /\ (main = "serving" \/ rpc = "serving")
    /\ pool' \in {"empty", "open"}
    /\ UNCHANGED <<mvars, remote, transport, discovery, mcp, main, raised, signals, life,
                   attempt, janitor, rpc>>

Reap ==
    /\ janitor /\ pool' = "empty"
    /\ UNCHANGED <<mvars, remote, transport, discovery, mcp, main, raised, signals, life,
                   attempt, janitor, rpc>>

Internal ==
    \/ ReadTransport \/ ReadDiscovery \/ NoSource
    \/ InitCrawlerPool \/ MountMcp \/ RegisterService
    \/ LifespanBegins \/ WarmUp \/ Retry \/ LifespanEnds
    \/ Bind \/ StopServing \/ Drained \/ Finally
    \/ CallStep

Next ==
    \/ Internal
    \/ EditSettings \/ SessionFails \/ Signal \/ RegistrationServes \/ Crawl \/ Reap
    \/ ClientStep \/ GitHubStep

Spec == Init /\ [][Next]_vars

\* The event loop runs what is ready; Nacos, get_crawler (CrawlerPool) and RPCs
\* come back, and httpx times out.  GitHub need not answer, nobody has to call,
\* and the registration task need not get anywhere.
FairSpec == Spec /\ WF_vars(Internal)

-----------------------------------------------------------------------------
\* No browser of the pool outlives the process, however it ends: start-up fails, the
\* address is in use, a signal comes during start-up, twice, or after the
\* session manager failed, and although the lifespan's own clean-up is skipped
\* on most of these and RPC crawls may open a browser after it.  The pool is
\* that of CrawlerPool's POOL: crawls that still wait for its LOCK when the
\* process ends, and browsers whose start() or close() raised or was cancelled,
\* are not in it.
ExitClosesPool == main \in {"ended", "crashed"} => pool = "empty"

\* From the moment Nacos lists the server or clients reach it, the low-level
\* server that answers them is the listed one, it has the protocol's handlers,
\* and every plugin has registered.
ServedServerIsWhole ==
    (Serving \/ mcp.listed # "none") =>
        /\ Serves(mcp) \in mcp.handlers
        /\ Serves(mcp) = mcp.low
        /\ mcp.listed # "none" => (mcp.low = "nacos" /\ mcp.listed = mcp.mounted)
        /\ mcp = load_mcp_plugins(mcp)

\* The process always comes to rest: it ends once a signal has come, and else
\* serves with every call over, its HTTP client closed, every shown hit dealt
\* with and the lifespan settled, whether or not GitHub ever answers.
ComesToRest ==
    []<>(\/ ~Alive
         \/ /\ main = "serving" /\ signals = 0 /\ life # "failing"
            /\ \A c \in Call : ~Running(c)
            /\ clients = {} /\ hits = {})
=============================================================================
