------------------------- MODULE ApplicationProofs -------------------------
(***************************************************************************)
(* The safety invariants of Application and McpCalls for every set of      *)
(* calls, of queries, of replies and of entries of the QA memory.  Four    *)
(* invariants, each inductive by itself: one about the life of the process *)
(* and its pool, one about the server object, one about the hits, one      *)
(* about GitHub's replies.                                                 *)
(***************************************************************************)
EXTENDS Application, FiniteSetTheorems, TLAPS

(***************************************************************************)
(* The life of the process.  A browser can be opened by the lifespan's     *)
(* warm-up, which belongs to start-up, and by crawls over RPC, which the   *)
(* registration task makes possible and only the end of the process stops. *)
(***************************************************************************)
BeforeStartup == {"settings", "transport", "boot", "mount", "register"}

LifeInv ==
    /\ main \in MainStates
    /\ main \in BeforeStartup \cup {"crashed"} => rpc = "none" /\ pool = "empty"
    /\ life = "warming" => main = "startup"
    /\ main = "ended" => pool = "empty"

\* The initial state satisfies it.
LEMMA LifeInit == Init => LifeInv
  BY DEF Init, LifeInv, MainStates

\* Every step of the process preserves it.
LEMMA LifeNext == LifeInv /\ [Next]_vars => LifeInv'
  <1> SUFFICES ASSUME LifeInv, [Next]_vars PROVE LifeInv'
    OBVIOUS
  <1> USE DEF LifeInv, MainStates, BeforeStartup
  <1>1. CASE ReadTransport \/ ReadDiscovery \/ NoSource \/ EditSettings
    BY <1>1 DEF ReadTransport, ReadDiscovery, NoSource, EditSettings
  <1>2. CASE InitCrawlerPool
    BY <1>2 DEF InitCrawlerPool
  <1>3. CASE MountMcp
    <2>1. main = "mount" /\ main' \in {"crashed", "register", "startup"}
          /\ UNCHANGED <<life, rpc, pool>>
      BY <1>3 DEF MountMcp
    <2>. QED
      BY <2>1
  <1>4. CASE RegisterService
    <2>1. main = "register" /\ main' \in {"crashed", "startup"}
          /\ UNCHANGED <<life, rpc, pool>>
      BY <1>4 DEF RegisterService
    <2>. QED
      BY <2>1
  <1>5. CASE LifespanBegins \/ WarmUp
    BY <1>5 DEF LifespanBegins, WarmUp
  <1>6. CASE SessionFails \/ Retry
    BY <1>6 DEF SessionFails, Retry, vars, pvars
  <1>7. CASE LifespanEnds
    BY <1>7 DEF LifespanEnds
  <1>8. CASE Signal \/ Bind \/ StopServing \/ Drained
    BY <1>8 DEF Signal, Bind, StopServing, Drained
  <1>9. CASE Finally
    BY <1>9 DEF Finally
  <1>10. CASE ClientStep \/ CallStep \/ GitHubStep
    BY <1>10 DEF ClientStep, CallStep, GitHubStep, pvars
  <1>11. CASE RegistrationServes \/ Crawl \/ Reap
    BY <1>11 DEF RegistrationServes, Crawl, Reap, Alive
  <1>12. CASE UNCHANGED vars
    BY <1>12 DEF vars, pvars
  <1>. QED
    BY <1>1, <1>2, <1>3, <1>4, <1>5, <1>6, <1>7, <1>8, <1>9, <1>10, <1>11, <1>12
    DEF Next, Internal

\* However the process ends, no browser outlives it.
THEOREM ExitCloses == Spec => []ExitClosesPool
  <1>1. LifeInv => ExitClosesPool
    BY DEF LifeInv, ExitClosesPool
  <1>. QED
    BY <1>1, LifeInit, LifeNext, PTL DEF Spec

(***************************************************************************)
(* The server object.  The settings are fixed when it is made, so at any   *)
(* later time it is the one that these settings make, listed or not.       *)
(***************************************************************************)
ServerFields == {"low", "handlers", "manager", "tools", "resources", "templates",
                 "prompts", "mounted", "listed"}

\* What the plugins leave alone, and that they all are registered.
Untouched(s, t) ==
    /\ t = [x \in ServerFields |-> t[x]]
    /\ t.low = s.low /\ t.handlers = s.handlers /\ t.manager = s.manager
    /\ t.resources = s.resources /\ t.mounted = s.mounted /\ t.listed = s.listed

AllTools == {"retrieval_from_paragraph", "retrieval_from_qa",
             "retrieval_from_browser_history"} \cup {"crawl_web", "web_search"}
            \cup GitHubTools
            \cup {"retrieve_qa_kb", "qa_record_hit", "qa_upsert_candidate",
                  "qa_validate_and_update"}
AllPrompts == {"crawl_web", "retrieval_from_paragraph", "retrieval_from_qa",
               "retrieval_from_browser_history"}

\* Importing the plugins adds their functions to whatever server there is.
LEMMA PluginsFacts ==
    ASSUME NEW s, DOMAIN s = ServerFields
    PROVE  LET t == load_mcp_plugins(s) IN
           /\ Untouched(s, t)
           /\ t.tools = s.tools \cup AllTools
           /\ t.templates = s.templates \cup {"read_knowledge_document"}
           /\ t.prompts = s.prompts \cup AllPrompts
  <1> DEFINE a == aduib_ai_tool(s)
             b == crawl_tools(a)
             c == github_tools(b)
             d == prompts(c)
             e == qa_memory_tools(d)
  <1>1. /\ Untouched(s, a) /\ a.prompts = s.prompts
        /\ a.tools = s.tools \cup {"retrieval_from_paragraph", "retrieval_from_qa",
                                   "retrieval_from_browser_history"}
        /\ a.templates = s.templates \cup {"read_knowledge_document"}
    BY DEF aduib_ai_tool, resource, tool, Untouched, ServerFields
  <1>2. /\ Untouched(a, b) /\ b.prompts = a.prompts /\ b.templates = a.templates
        /\ b.tools = a.tools \cup {"crawl_web", "web_search"}
    <2> HIDE DEF a
    <2>. QED
      BY <1>1 DEF crawl_tools, tool, Untouched, ServerFields
  <1>3. /\ Untouched(b, c) /\ c.prompts = b.prompts /\ c.templates = b.templates
        /\ c.tools = b.tools \cup GitHubTools
    <2> HIDE DEF a, b
    <2>. QED
      BY <1>2 DEF github_tools, tool, Untouched, ServerFields
  <1>4. /\ Untouched(c, d) /\ d.tools = c.tools /\ d.templates = c.templates
        /\ d.prompts = c.prompts \cup AllPrompts
    <2> HIDE DEF a, b, c
    <2>. QED
      BY <1>3 DEF prompts, prompt, Untouched, ServerFields, AllPrompts
  <1>5. /\ Untouched(d, e) /\ e.prompts = d.prompts /\ e.templates = d.templates
        /\ e.tools = d.tools \cup {"retrieve_qa_kb", "qa_record_hit",
                                   "qa_upsert_candidate", "qa_validate_and_update"}
    <2> HIDE DEF a, b, c, d
    <2>. QED
      BY <1>4 DEF qa_memory_tools, tool, Untouched, ServerFields
  <1>6. load_mcp_plugins(s) = e
    BY DEF load_mcp_plugins
  <1> HIDE DEF a, b, c, d, e
  <1>7. Untouched(s, e)
    BY <1>1, <1>2, <1>3, <1>4, <1>5 DEF Untouched
  <1>8. /\ e.prompts = s.prompts \cup AllPrompts
        /\ e.templates = s.templates \cup {"read_knowledge_document"}
    BY <1>1, <1>2, <1>3, <1>4, <1>5
  <1>9. e.tools = s.tools \cup AllTools
    BY <1>1, <1>2, <1>3, <1>4, <1>5 DEF AllTools
  <1>. QED
    BY <1>6, <1>7, <1>8, <1>9

\* The server that the settings make, mounted but not listed.
Made == mount_mcp_app(load_mcp_plugins(init_fast_mcp(discovery)), transport)

\* Its fields, for every setting under which it is mounted at all.
LEMMA MadeFacts ==
    ASSUME transport \in {"sse", "streamable-http", "other"},
           discovery \in {"off", "nacos"}
    PROVE  LET low == IF discovery = "nacos" THEN "nacos" ELSE "base" IN
           /\ Made = [x \in ServerFields |-> Made[x]]
           /\ Made.low = low /\ low \in Made.handlers /\ Made.listed = "none"
           /\ Made.mounted = IF transport = "other" THEN "none" ELSE transport
           /\ Made.manager = IF transport = "streamable-http" THEN low ELSE "none"
           /\ AllTools \subseteq Made.tools /\ AllPrompts \subseteq Made.prompts
           /\ "read_knowledge_document" \in Made.templates
  <1> DEFINE low == IF discovery = "nacos" THEN "nacos" ELSE "base"
             s == init_fast_mcp(discovery)
             t == load_mcp_plugins(s)
  <1>1. /\ DOMAIN s = ServerFields /\ s.low = low /\ low \in s.handlers
        /\ s.manager = "none" /\ s.mounted = "none" /\ s.listed = "none"
    <2>1. CASE discovery = "off"
      BY <2>1 DEF init_fast_mcp, InitFastMCP, _setup_handlers, NoServer, ServerFields
    <2>2. CASE discovery = "nacos"
      BY <2>2
      DEF init_fast_mcp, InitNacosMCP, InitFastMCP, _setup_handlers, NoServer,
          ServerFields
    <2>. QED
      BY <2>1, <2>2
  <1> HIDE DEF s
  <1>2. /\ Untouched(s, t) /\ AllTools \subseteq t.tools
        /\ AllPrompts \subseteq t.prompts
        /\ "read_knowledge_document" \in t.templates
    BY <1>1, PluginsFacts
  <1>3. Made = mount_mcp_app(t, transport)
    BY DEF Made, s
  <1> HIDE DEF t
  <1>4. CASE transport = "sse"
    BY <1>1, <1>2, <1>3, <1>4 DEF mount_mcp_app, sse_app, Untouched, ServerFields
  <1>5. CASE transport = "other"
    BY <1>1, <1>2, <1>3, <1>5 DEF mount_mcp_app, Untouched, ServerFields
  <1>6. CASE transport = "streamable-http"
    BY <1>1, <1>2, <1>3, <1>6
    DEF mount_mcp_app, streamable_http_app, EnsureManager, Untouched, ServerFields
  <1>. QED
    BY <1>4, <1>5, <1>6

ServerInv ==
    /\ transport \in Transports /\ discovery \in Discoveries
    /\ remote \in AllSettings \cup {NoSettings}
    /\ main \in {"settings", "transport", "boot", "mount"} => mcp = NoServer
    /\ mcp # NoServer =>
          /\ transport # "stdio" /\ discovery # "other"
          /\ \/ mcp = Made
             \/ discovery = "nacos" /\ mcp = register_service(Made, transport)
    /\ main = "register" => /\ mcp = Made /\ discovery = "nacos"
                            /\ transport # "stdio"

\* Nothing is made yet, and the settings are some settings.
LEMMA ServerInit == Init => ServerInv
  BY DEF Init, ServerInv

\* Making it raises, or makes the server of these settings.
LEMMA MountMcpServer ==
    ASSUME ServerInv, MountMcp
    PROVE  ServerInv'
  <1> DEFINE server == init_fast_mcp(discovery)
  <1>1. /\ main = "mount" /\ mcp = NoServer
        /\ UNCHANGED <<remote, transport, discovery>>
        /\ transport \in Transports /\ discovery \in Discoveries
    BY DEF ServerInv, MountMcp
  <1>2. CASE MountRaises(server, transport)
    <2>1. main' = "crashed" /\ mcp' = mcp
      BY <1>2 DEF MountMcp
    <2>. QED
      BY <1>1, <2>1 DEF ServerInv
  <1>3. CASE ~MountRaises(server, transport)
    <2>1. /\ mcp' = Made /\ main' \in {"register", "startup"}
          /\ main' = "register" => server.low = "nacos"
      BY <1>3 DEF MountMcp, Made
    <2>2. Made' = Made
      BY <1>1 DEF Made
    <2>3. transport # "stdio" /\ server # NoServer
      BY <1>3 DEF MountRaises
    <2>4. discovery # "other"
      BY <2>3 DEF init_fast_mcp
    <2>5. server.low = "nacos" => discovery = "nacos"
      BY <1>1, <2>4
      DEF init_fast_mcp, InitFastMCP, _setup_handlers, NoServer, Discoveries
    <2>. QED
      BY <1>1, <2>1, <2>2, <2>3, <2>4, <2>5 DEF ServerInv
  <1>. QED
    BY <1>2, <1>3

\* No step takes the server away from its settings.
LEMMA ServerNext == ServerInv /\ [Next]_vars => ServerInv'
  <1> SUFFICES ASSUME ServerInv, [Next]_vars PROVE ServerInv'
    OBVIOUS
  <1>1. CASE ReadTransport \/ ReadDiscovery
    <2>1. Document \in AllSettings
      BY DEF ServerInv, Document, AllSettings
    <2>2. Document.transport \in Transports /\ Document.discovery \in Discoveries
      BY <2>1 DEF AllSettings
    <2>3. main \in {"settings", "transport"} /\ mcp = NoServer /\ mcp' = mcp
          /\ main' \in {"transport", "boot"}
      BY <1>1 DEF ReadTransport, ReadDiscovery, ServerInv
    <2>4. /\ transport' \in Transports /\ discovery' \in Discoveries
          /\ remote' \in AllSettings \cup {NoSettings}
      BY <1>1, <2>1, <2>2 DEF ReadTransport, ReadDiscovery, ServerInv
    <2>. QED
      BY <2>3, <2>4 DEF ServerInv
  <1>2. CASE NoSource \/ EditSettings \/ InitCrawlerPool
    <2>1. main \in {"settings", "transport", "boot"} /\ mcp = NoServer /\ mcp' = mcp
          /\ main' # "register" /\ UNCHANGED <<transport, discovery>>
          /\ remote' \in AllSettings \cup {NoSettings}
      BY <1>2 DEF NoSource, EditSettings, InitCrawlerPool, ServerInv
    <2>. QED
      BY <2>1 DEF ServerInv
  <1>3. CASE MountMcp
    BY <1>3, MountMcpServer
  <1>4. CASE RegisterService
    <2>1. /\ main = "register" /\ main' \in {"crashed", "startup"}
          /\ mcp' \in {mcp, register_service(mcp, transport)}
          /\ UNCHANGED <<remote, transport, discovery>>
      BY <1>4 DEF RegisterService
    <2>2. Made' = Made
      BY <2>1 DEF Made
    <2>3. \/ mcp' = mcp
          \/ mcp' = register_service(mcp, transport)
      BY <2>1
    <2>4. register_service(mcp, transport)
             = IF transport = "other" THEN mcp ELSE [mcp EXCEPT !.listed = transport]
      BY DEF register_service
    <2>5. mcp = Made /\ discovery = "nacos"
      BY <2>1 DEF ServerInv
    <2>6. register_service(Made, transport)' = register_service(Made, transport)
      BY <2>1, <2>2 DEF register_service
    <2>7. mcp # NoServer
      <3>1. transport \in {"sse", "streamable-http", "other"}
        BY <2>1 DEF ServerInv, Transports
      <3>2. Made.low = "nacos"
        BY <2>5, <3>1, MadeFacts
      <3>. QED
        BY <2>5, <3>2 DEF NoServer
    <2>. QED
      BY <2>1, <2>2, <2>3, <2>5, <2>6, <2>7 DEF ServerInv
  <1>5. ASSUME UNCHANGED <<remote, transport, discovery, mcp>>,
               main' = main \/ main' \notin {"settings", "transport", "boot", "mount",
                                            "register"}
        PROVE  ServerInv'
    <2>1. Made' = Made /\ register_service(Made, transport)' =
                           register_service(Made, transport)
      BY <1>5 DEF Made, register_service
    <2>. QED
      BY <1>5, <2>1 DEF ServerInv
  <1>6. CASE LifespanBegins \/ WarmUp \/ SessionFails \/ Retry \/ LifespanEnds
    BY <1>5, <1>6
    DEF LifespanBegins, WarmUp, SessionFails, Retry, LifespanEnds, vars, pvars
  <1>7. CASE Signal \/ Bind \/ StopServing \/ Drained \/ Finally
    BY <1>5, <1>7 DEF Signal, Bind, StopServing, Drained, Finally
  <1>8. CASE ClientStep \/ CallStep \/ GitHubStep \/ UNCHANGED vars
    BY <1>5, <1>8 DEF ClientStep, CallStep, GitHubStep, pvars, vars
  <1>9. CASE RegistrationServes \/ Crawl \/ Reap
    BY <1>5, <1>9 DEF RegistrationServes, Crawl, Reap
  <1>. QED
    BY <1>1, <1>2, <1>3, <1>4, <1>6, <1>7, <1>8, <1>9 DEF Next, Internal

\* Whatever clients reach and whatever Nacos lists is one whole server, in every
\* configuration and however the settings change while they are read.
THEOREM ServedWhole == Spec => []ServedServerIsWhole
  <1>1. ASSUME ServerInv PROVE ServedServerIsWhole
    <2>1. CASE mcp = NoServer
      BY <2>1 DEF ServedServerIsWhole, Serving, NoServer
    <2>2. CASE mcp # NoServer
      <3> DEFINE low == IF discovery = "nacos" THEN "nacos" ELSE "base"
      <3>1. transport \in {"sse", "streamable-http", "other"}
            /\ discovery \in {"off", "nacos"}
        BY <1>1, <2>2 DEF ServerInv, Transports, Discoveries
      <3>2. /\ Made = [x \in ServerFields |-> Made[x]]
            /\ Made.low = low /\ low \in Made.handlers /\ Made.listed = "none"
            /\ Made.mounted = IF transport = "other" THEN "none" ELSE transport
            /\ Made.manager = IF transport = "streamable-http" THEN low ELSE "none"
            /\ AllTools \subseteq Made.tools /\ AllPrompts \subseteq Made.prompts
            /\ "read_knowledge_document" \in Made.templates
        BY <3>1, MadeFacts
      <3>3. mcp = Made \/ (discovery = "nacos" /\ mcp = register_service(Made, transport))
        BY <1>1, <2>2 DEF ServerInv
      <3>4. /\ mcp = [x \in ServerFields |-> mcp[x]] /\ DOMAIN mcp = ServerFields
            /\ mcp.low = low /\ low \in mcp.handlers
            /\ mcp.mounted = IF transport = "other" THEN "none" ELSE transport
            /\ mcp.manager = IF transport = "streamable-http" THEN low ELSE "none"
            /\ AllTools \subseteq mcp.tools /\ AllPrompts \subseteq mcp.prompts
            /\ "read_knowledge_document" \in mcp.templates
            /\ mcp.listed # "none" => /\ discovery = "nacos" /\ transport # "other"
                                      /\ mcp.listed = transport
        BY <3>1, <3>2, <3>3 DEF register_service, ServerFields
      <3>5. (Serving \/ mcp.listed # "none") => Serves(mcp) = low
        BY <3>1, <3>4 DEF Serving, Serves
      <3>6. mcp = load_mcp_plugins(mcp)
        <4> DEFINE t == load_mcp_plugins(mcp)
        <4>1. /\ Untouched(mcp, t)
              /\ t.tools = mcp.tools \cup AllTools
              /\ t.templates = mcp.templates \cup {"read_knowledge_document"}
              /\ t.prompts = mcp.prompts \cup AllPrompts
          BY <3>4, PluginsFacts
        <4> HIDE DEF t
        <4>2. t.tools = mcp.tools /\ t.templates = mcp.templates
              /\ t.prompts = mcp.prompts
          BY <3>4, <4>1
        <4>3. \A x \in ServerFields : t[x] = mcp[x]
          BY <4>1, <4>2 DEF Untouched, ServerFields
        <4>4. t = [x \in ServerFields |-> mcp[x]]
          BY <4>1, <4>3 DEF Untouched
        <4>. QED
          BY <3>4, <4>4 DEF t
      <3>. QED
        BY <3>4, <3>5, <3>6 DEF ServedServerIsWhole
    <2>. QED
      BY <2>1, <2>2
  <1>. QED
    BY <1>1, ServerInit, ServerNext, PTL DEF Spec

(***************************************************************************)
(* The hits.  HitsWereShown is not inductive: it counts neither the        *)
(* explicit reports that are under way, each of which may be counted yet,  *)
(* nor does it say that a hook is left by an answer that lists its entry.  *)
(***************************************************************************)
CallFields == {"phase", "query", "reply", "items", "answer"}

\* What calls list, and what of it may still be counted; of these, entry q.
Listed == UNION {Listing(c, call[c].items) : c \in Call}
Reports(c) == kind[c] = "qa_record_hit" /\ call[c].phase = "asking"
Reported == UNION {Listing(c, call[c].items) : c \in {d \in Call : Reports(d)}}
Of(S, q) == {h \in S : h[3] = q}

CallsType ==
    /\ call = [c \in Call |-> call[c]]
    /\ \A c \in Call : DOMAIN call[c] = CallFields /\ call[c].items \in Seq(QA)
    /\ shown \in [QA -> Nat]

\* Who is about entries, and what is left in hits.
ItemsOf(c) ==
    call[c].items # <<>> =>
        \/ kind[c] = "qa_record_hit" /\ call[c].phase # "new"
        \/ kind[c] = "retrieve_qa_kb" /\ call[c].phase = "answered"
HitOf(h) ==
    \E c \in Call : /\ kind[c] = "retrieve_qa_kb" /\ call[c].phase = "answered"
                    /\ h \in Listing(c, call[c].items)

Counted(q) ==
    shown[q] + Cardinality(Of(hits \cup Reported, q)) <= Cardinality(Of(Listed, q))

HitInv ==
    /\ CallsType
    /\ IsFiniteSet(Listed)
    /\ \A c \in Call : ItemsOf(c)
    /\ \A h \in hits : HitOf(h)
    /\ \A q \in QA : Counted(q)

\* A part of a finite set.
LEMMA PartOfFinite ==
    ASSUME NEW S, NEW T, IsFiniteSet(S), T \subseteq S
    PROVE  /\ IsFiniteSet(T) /\ Cardinality(T) <= Cardinality(S)
           /\ Cardinality(T) \in Nat /\ Cardinality(S) \in Nat
  <1>1. T \in SUBSET S
    OBVIOUS
  <1>2. IsFiniteSet(T) /\ Cardinality(T) <= Cardinality(S)
    BY <1>1, FS_Subset
  <1>. QED
    BY <1>2, FS_CardinalityType

\* What may still be counted is listed, so the sets counted are finite.
LEMMA CountedSets ==
    ASSUME HitInv, NEW q
    PROVE  /\ hits \cup Reported \subseteq Listed
           /\ IsFiniteSet(Of(Listed, q)) /\ IsFiniteSet(Of(hits \cup Reported, q))
           /\ Cardinality(Of(Listed, q)) \in Nat
           /\ Cardinality(Of(hits \cup Reported, q)) \in Nat
  <1>1. hits \subseteq Listed
    BY DEF HitInv, HitOf, Listed
  <1>2. Reported \subseteq Listed
    BY DEF Reported, Listed
  <1>3. Of(Listed, q) \subseteq Listed /\ Of(hits \cup Reported, q) \subseteq Listed
    BY <1>1, <1>2 DEF Of
  <1>. QED
    BY <1>1, <1>2, <1>3, PartOfFinite DEF HitInv

\* A listing names its call, and a list of nothing has none.
LEMMA ListingFacts ==
    ASSUME NEW c, NEW items \in Seq(QA)
    PROVE  /\ IsFiniteSet(Listing(c, items))
           /\ \A h \in Listing(c, items) : h[1] = c /\ h[3] \in QA
           /\ items = <<>> => Listing(c, items) = {}
  <1>1. DOMAIN items = 1..Len(items) /\ Len(items) \in Nat
    OBVIOUS
  <1>2. IsFiniteSet(DOMAIN items)
    BY <1>1, FS_Interval
  <1>3. IsFiniteSet(Listing(c, items))
    <2> DEFINE f == [i \in DOMAIN items |-> <<c, i, items[i]>>]
    <2>1. f \in Surjection(DOMAIN items, Listing(c, items))
      BY DEF Surjection, Listing
    <2>. QED
      BY <1>2, <2>1, FS_Surjection
  <1>4. \A h \in Listing(c, items) : h[1] = c /\ h[3] \in QA
    BY DEF Listing
  <1>5. ASSUME items = <<>> PROVE Listing(c, items) = {}
    BY <1>1, <1>5 DEF Listing
  <1>. QED
    BY <1>3, <1>4, <1>5

\* More is listed, and at most that more may be counted, or less.
LEMMA ListsMore ==
    ASSUME HitInv, NEW N, IsFiniteSet(N), N \cap Listed = {}, shown' = shown,
           Listed' = Listed \cup N,
           (hits \cup Reported)' \subseteq hits \cup Reported \cup N
    PROVE  IsFiniteSet(Listed') /\ \A q \in QA : Counted(q)'
  <1>1. IsFiniteSet(Listed')
    BY FS_Union DEF HitInv
  <1>2. ASSUME NEW q \in QA PROVE Counted(q)'
    <2> DEFINE W == Of(hits \cup Reported, q)
               L == Of(Listed, q)
               M == Of(N, q)
               V == Of((hits \cup Reported)', q)
    <2>1. /\ IsFiniteSet(W) /\ IsFiniteSet(L) /\ W \subseteq L
          /\ Cardinality(W) \in Nat /\ Cardinality(L) \in Nat
      BY CountedSets DEF Of
    <2>2. IsFiniteSet(M) /\ M \cap L = {} /\ Cardinality(M) \in Nat
      <3>1. M \subseteq N /\ M \cap L = {}
        BY DEF Of
      <3>. QED
        BY <3>1, PartOfFinite
    <2>3. Of(Listed', q) = L \cup M /\ V \subseteq W \cup M
      BY DEF Of
    <2>4. shown'[q] = shown[q] /\ shown[q] \in Nat
          /\ shown[q] + Cardinality(W) <= Cardinality(L)
      BY DEF HitInv, CallsType, Counted
    <2> HIDE DEF W, L, M, V
    <2>5. M \cap W = {}
      BY <2>1, <2>2
    <2>6. /\ Cardinality(L \cup M) = Cardinality(L) + Cardinality(M)
          /\ Cardinality(W \cup M) = Cardinality(W) + Cardinality(M)
          /\ IsFiniteSet(W \cup M)
      <3>1. L \cap M = {} /\ W \cap M = {}
        BY <2>2, <2>5
      <3>2. /\ IsFiniteSet(W \cup M)
            /\ Cardinality(L \cup M) = Cardinality(L) + Cardinality(M) - Cardinality({})
            /\ Cardinality(W \cup M) = Cardinality(W) + Cardinality(M) - Cardinality({})
        BY <2>1, <2>2, <3>1, FS_Union
      <3>3. Cardinality({}) = 0
        BY FS_EmptySet
      <3>. QED
        BY <2>1, <2>2, <3>2, <3>3
    <2>7. Cardinality(V) <= Cardinality(W \cup M) /\ Cardinality(V) \in Nat
      BY <2>3, <2>6, PartOfFinite
    <2>8. shown'[q] + Cardinality(V) <= Cardinality(L) + Cardinality(M)
      BY <2>1, <2>2, <2>4, <2>6, <2>7
    <2>9. Cardinality(Of(Listed', q)) = Cardinality(L) + Cardinality(M)
      BY <2>3, <2>6
    <2>. QED
      BY <2>8, <2>9 DEF Counted, V
  <1>. QED
    BY <1>1, <1>2

\* One thing that may be counted is over: it was counted or not.
LEMMA CountsOne ==
    ASSUME HitInv, NEW h \in hits \cup Reported, h[3] \in QA, Listed' = Listed,
           (hits \cup Reported)' \subseteq (hits \cup Reported) \ {h},
           shown' = shown \/ shown' = [shown EXCEPT ![h[3]] = @ + 1]
    PROVE  \A q \in QA : Counted(q)'
  <1> SUFFICES ASSUME NEW q \in QA PROVE Counted(q)'
    OBVIOUS
  <1> DEFINE W == Of(hits \cup Reported, q)
             V == Of((hits \cup Reported)', q)
             L == Of(Listed, q)
  <1>1. /\ IsFiniteSet(W) /\ Cardinality(W) \in Nat /\ Cardinality(L) \in Nat
    BY CountedSets
  <1>2. Of(Listed', q) = L /\ V \subseteq W \ {h} /\ (h[3] = q => h \in W)
    BY DEF Of
  <1>3. shown[q] \in Nat /\ shown[q] + Cardinality(W) <= Cardinality(L)
    BY DEF HitInv, CallsType, Counted
  <1>4. shown'[q] = shown[q] \/ (h[3] = q /\ shown'[q] = shown[q] + 1)
    <2>1. shown \in [QA -> Nat]
      BY DEF HitInv, CallsType
    <2>. QED
      BY <2>1
  <1> HIDE DEF W, V, L
  <1>5. /\ Cardinality(V) \in Nat /\ Cardinality(V) <= Cardinality(W \ {h})
        /\ Cardinality(W \ {h}) \in Nat /\ Cardinality(W \ {h}) <= Cardinality(W)
    <2>1. IsFiniteSet(W \ {h}) /\ W \ {h} \subseteq W
      BY <1>1, PartOfFinite
    <2>. QED
      BY <1>1, <1>2, <2>1, PartOfFinite
  <1>6. h[3] = q => Cardinality(W \ {h}) = Cardinality(W) - 1
    BY <1>1, <1>2, FS_RemoveElement
  <1>7. shown'[q] + Cardinality(V) <= Cardinality(Of(Listed', q))
    BY <1>1, <1>2, <1>3, <1>4, <1>5, <1>6
  <1>. QED
    BY <1>7 DEF Counted, V

\* Calls go on without a report, an answer that lists entries or a count: what
\* is answered stays so, and reports may be over.
LEMMA QuietCalls ==
    ASSUME HitInv, kind' = kind, shown' = shown, hits' \subseteq hits,
           call' = [d \in Call |-> call'[d]],
           \A d \in Call :
              /\ DOMAIN call'[d] = CallFields
              /\ call'[d].items = call[d].items
              /\ call[d].phase = "answered" => call'[d].phase = "answered"
              /\ call'[d].phase = "new" => call[d].phase = "new"
              /\ call'[d].phase = "asking" /\ call[d].items # <<>> =>
                    call[d].phase = "asking"
    PROVE  HitInv'
  <1>1. CallsType'
    BY DEF HitInv, CallsType
  <1>2. \A d \in Call : ItemsOf(d)'
    BY DEF HitInv, ItemsOf
  <1>3. ASSUME NEW h \in hits' PROVE HitOf(h)'
    <2>1. PICK c \in Call : /\ kind[c] = "retrieve_qa_kb" /\ call[c].phase = "answered"
                            /\ h \in Listing(c, call[c].items)
      BY DEF HitInv, HitOf
    <2>. QED
      BY <2>1 DEF HitOf, Listing
  <1>4. Listed' = Listed
    BY DEF Listed, Listing
  <1>5. Reported' \subseteq Reported
    <2>1. ASSUME NEW d \in Call, Reports(d)', NEW h \in Listing(d, call[d].items)
          PROVE  h \in Reported
      <3>1. call[d].items # <<>>
        BY <2>1, ListingFacts DEF HitInv, CallsType
      <3>. QED
        BY <2>1, <3>1 DEF Reported, Reports
    <2>. QED
      BY <2>1 DEF Reported, Listing
  <1>6. IsFiniteSet({})
    BY FS_EmptySet
  <1>. QED
    BY <1>1, <1>2, <1>3, <1>4, <1>5, <1>6, ListsMore DEF HitInv

\* The record of one call is replaced, in such a step.
LEMMA QuietCall ==
    ASSUME HitInv, UNCHANGED <<kind, hits, shown>>, NEW c \in Call, NEW g,
           Update(c, g), DOMAIN g = CallFields, g.items = call[c].items,
           g.phase # "new", call[c].phase = "answered" => g.phase = "answered",
           g.phase = "asking" /\ g.items # <<>> => call[c].phase = "asking"
    PROVE  HitInv'
  <1>1. /\ call' = [d \in Call |-> call'[d]]
        /\ \A d \in Call : call'[d] = IF d = c THEN g ELSE call[d]
    BY DEF Update, HitInv, CallsType
  <1>2. \A d \in Call : DOMAIN call[d] = CallFields
    BY DEF HitInv, CallsType
  <1>. QED
    BY <1>1, <1>2, QuietCalls

\* A call that listed nothing lists its items, one hit or report for each.
LEMMA ListingCall ==
    ASSUME HitInv, UNCHANGED <<kind, shown>>, NEW c \in Call, NEW g,
           Update(c, g), DOMAIN g = CallFields, g.items \in Seq(QA),
           call[c].items = <<>>, call[c].phase # "answered",
           \/ kind[c] = "qa_record_hit" /\ g.phase # "new" /\ hits' = hits
           \/ /\ kind[c] = "retrieve_qa_kb" /\ g.phase = "answered"
              /\ hits' = hits \cup Listing(c, g.items)
    PROVE  HitInv'
  <1>1. /\ call' = [d \in Call |-> call'[d]]
        /\ \A d \in Call : call'[d] = IF d = c THEN g ELSE call[d]
    BY DEF Update, HitInv, CallsType
  <1>2. CallsType'
    BY <1>1 DEF HitInv, CallsType
  <1>3. \A d \in Call : ItemsOf(d)'
    BY <1>1 DEF HitInv, ItemsOf
  <1>4. ASSUME NEW h \in hits' PROVE HitOf(h)'
    <2>1. CASE h \in hits
      <3>1. PICK d \in Call : /\ kind[d] = "retrieve_qa_kb" /\ call[d].phase = "answered"
                              /\ h \in Listing(d, call[d].items)
        BY <2>1 DEF HitInv, HitOf
      <3>2. call'[d] = call[d]
        BY <1>1, <3>1
      <3>. QED
        BY <3>1, <3>2 DEF HitOf, Listing
    <2>2. CASE h \notin hits
      <3>1. kind[c] = "retrieve_qa_kb" /\ g.phase = "answered" /\ h \in Listing(c, g.items)
        BY <1>4, <2>2
      <3>. QED
        BY <1>1, <3>1 DEF HitOf, Listing
    <2>. QED
      BY <2>1, <2>2
  <1> DEFINE N == Listing(c, g.items)
  <1>5. Listing(c, call[c].items) = {} /\ IsFiniteSet(N) /\ \A h \in N : h[1] = c
    BY ListingFacts DEF HitInv, CallsType
  <1>6. ASSUME NEW h \in Listed PROVE h[1] # c
    <2>1. PICK d \in Call : h \in Listing(d, call[d].items)
      BY <1>6 DEF Listed
    <2>2. h[1] = d
      BY <2>1, ListingFacts DEF HitInv, CallsType
    <2>. QED
      BY <1>5, <2>1, <2>2
  <1>7. \A d \in Call : Listing(d, call'[d].items) =
                        IF d = c THEN N ELSE Listing(d, call[d].items)
    BY <1>1
  <1>8. \A d \in Call : d # c => (Reports(d)' <=> Reports(d))
    BY <1>1 DEF Reports
  <1>9. Listed' = UNION {Listing(d, call'[d].items) : d \in Call}
        /\ Reported' = UNION {Listing(d, call'[d].items) : d \in {e \in Call : Reports(e)'}}
    BY DEF Listed, Reported, Listing
  <1> HIDE DEF N
  <1>10. Listed' = Listed \cup N
    BY <1>5, <1>7, <1>9 DEF Listed
  <1>11. Reported' \subseteq Reported \cup N
    BY <1>7, <1>8, <1>9 DEF Reported
  <1>12. N \cap Listed = {}
    BY <1>5, <1>6
  <1>13. hits' \subseteq hits \cup N
    BY DEF N
  <1>. QED
    BY <1>2, <1>3, <1>4, <1>5, <1>10, <1>11, <1>12, <1>13, ListsMore DEF HitInv

\* An answer, or an exception, of a call that is not answered yet.
LEMMA AnsweredQuiet ==
    ASSUME HitInv, UNCHANGED <<kind, hits, shown>>, NEW c \in Call, NEW a,
           call[c].phase # "answered", Answered(c, a) \/ Failed(c, a)
    PROVE  HitInv'
  <1> DEFINE g == [call[c] EXCEPT !.phase = "answered", !.answer = a]
             h == [call[c] EXCEPT !.phase = "raised"]
             i == [call[c] EXCEPT !.phase = "answered", !.answer = <<a>>]
  <1>1. DOMAIN call[c] = CallFields
    BY DEF HitInv, CallsType
  <1>2. /\ DOMAIN g = CallFields /\ g.items = call[c].items /\ g.phase = "answered"
        /\ DOMAIN h = CallFields /\ h.items = call[c].items /\ h.phase = "raised"
        /\ DOMAIN i = CallFields /\ i.items = call[c].items /\ i.phase = "answered"
    BY <1>1 DEF CallFields
  <1>3. Update(c, g) \/ Update(c, i) \/ Update(c, h)
    BY DEF Answered, Failed
  <1> HIDE DEF g, h, i
  <1>4. CASE Update(c, g)
    BY <1>2, <1>4, QuietCall
  <1>5. CASE Update(c, i)
    BY <1>2, <1>5, QuietCall
  <1>6. CASE Update(c, h)
    BY <1>2, <1>6, QuietCall
  <1>. QED
    BY <1>3, <1>4, <1>5, <1>6

\* A client calls: of entries only an explicit report says anything yet, which
\* justifies one more count and may be counted.
LEMMA BeginHits ==
    ASSUME HitInv, NEW c \in Call, Begin(c)
    PROVE  HitInv'
  <1>1. /\ call[c].phase = "new" /\ UNCHANGED <<kind, hits, shown>>
        /\ DOMAIN call[c] = CallFields
    BY DEF Begin, CallGitHub, CallRpc, CallLocal, HitInv, CallsType
  <1>2. call[c].items = <<>>
    BY <1>1 DEF HitInv, ItemsOf
  <1>3. CASE CallLocal(c)
    BY <1>1, <1>3, AnsweredQuiet DEF CallLocal
  <1>4. CASE CallGitHub(c)
    <2>1. CASE Failed(c, "ValueError")
      BY <1>1, <2>1, AnsweredQuiet
    <2>2. ASSUME NEW q \in Queries,
                 Update(c, [NewCall EXCEPT !.phase = "asking", !.query = q])
          PROVE  HitInv'
      <3> DEFINE g == [NewCall EXCEPT !.phase = "asking", !.query = q]
      <3>1. DOMAIN g = CallFields /\ g.items = <<>> /\ g.phase = "asking"
        BY DEF NewCall, CallFields
      <3>2. Update(c, g)
        BY <2>2
      <3> HIDE DEF g
      <3>. QED
        BY <1>1, <1>2, <3>1, <3>2, QuietCall
    <2>. QED
      BY <1>4, <2>1, <2>2 DEF CallGitHub
  <1>5. CASE CallRpc(c)
    <2>1. PICK q \in QA :
             Update(c, [NewCall EXCEPT !.phase = "asking",
                           !.items = IF kind[c] = "qa_record_hit" THEN <<q>> ELSE <<>>])
      BY <1>5 DEF CallRpc
    <2> DEFINE items == IF kind[c] = "qa_record_hit" THEN <<q>> ELSE <<>>
               g == [NewCall EXCEPT !.phase = "asking", !.items = items]
    <2>2. DOMAIN g = CallFields /\ g.items = items /\ g.phase = "asking"
      BY DEF NewCall, CallFields
    <2>3. Update(c, g)
      BY <2>1
    <2> HIDE DEF g
    <2>4. CASE kind[c] # "qa_record_hit"
      BY <1>1, <1>2, <2>2, <2>3, <2>4, QuietCall
    <2>5. CASE kind[c] = "qa_record_hit"
      <3>1. g.items \in Seq(QA)
        BY <2>2, <2>5
      <3>. QED
        BY <1>1, <1>2, <2>2, <2>3, <2>5, <3>1, ListingCall
    <2>. QED
      BY <2>4, <2>5
  <1>. QED
    BY <1>3, <1>4, <1>5 DEF Begin

\* A GitHub call goes on: it is about no entry.
LEMMA GitHubHits ==
    ASSUME HitInv, NEW c \in Call,
           GitHubReplies(c) \/ GitHubTimesOut(c) \/ CloseClient(c)
    PROVE  HitInv'
  <1>1. /\ kind[c] = "github" /\ call[c].phase \in {"asking", "closing"}
        /\ DOMAIN call[c] = CallFields /\ UNCHANGED <<kind, hits, shown>>
    BY DEF GitHubReplies, GitHubTimesOut, CloseClient, Asked, HitInv, CallsType
  <1>2. ASSUME NEW p \in {"closing", "cancelled"}, NEW r,
               Update(c, [call[c] EXCEPT !.phase = p, !.reply = r])
        PROVE  HitInv'
    <2> DEFINE g == [call[c] EXCEPT !.phase = p, !.reply = r]
    <2>1. DOMAIN g = CallFields /\ g.items = call[c].items /\ g.phase = p
      BY <1>1 DEF CallFields
    <2>2. Update(c, g)
      BY <1>2
    <2> HIDE DEF g
    <2>. QED
      BY <1>1, <2>1, <2>2, QuietCall
  <1>3. CASE GitHubReplies(c) \/ GitHubTimesOut(c)
    BY <1>2, <1>3 DEF GitHubReplies, GitHubTimesOut
  <1>4. CASE CloseClient(c)
    <2>1. CASE Update(c, [call[c] EXCEPT !.phase = "cancelled"])
      <3> DEFINE g == [call[c] EXCEPT !.phase = "cancelled"]
      <3>1. DOMAIN g = CallFields /\ g.items = call[c].items /\ g.phase = "cancelled"
        BY <1>1 DEF CallFields
      <3>2. Update(c, g)
        BY <2>1
      <3> HIDE DEF g
      <3>. QED
        BY <1>1, <3>1, <3>2, QuietCall
    <2>2. ASSUME NEW a, Answered(c, a) \/ Failed(c, a) PROVE HitInv'
      BY <1>1, <2>2, AnsweredQuiet
    <2>. QED
      BY <1>4, <2>1, <2>2 DEF CloseClient
  <1>. QED
    BY <1>3, <1>4

\* An answer with results shows them, and leaves a hook for each of them.
LEMMA RetrieveHits ==
    ASSUME HitInv, NEW c \in Call, RetrieveReplies(c)
    PROVE  HitInv'
  <1>1. /\ kind[c] = "retrieve_qa_kb" /\ call[c].phase = "asking"
        /\ DOMAIN call[c] = CallFields /\ UNCHANGED <<kind, shown>>
    BY DEF RetrieveReplies, Asked, HitInv, CallsType
  <1>2. call[c].items = <<>>
    BY <1>1 DEF HitInv, ItemsOf
  <1>3. ASSUME NEW a, Failed(c, a), UNCHANGED hits PROVE HitInv'
    BY <1>1, <1>3, AnsweredQuiet
  <1>4. ASSUME NEW items \in Results, hits' = hits \cup Listing(c, items),
               Update(c, [call[c] EXCEPT !.phase = "answered", !.items = items,
                                         !.answer = <<"text">>])
        PROVE  HitInv'
    <2> DEFINE g == [call[c] EXCEPT !.phase = "answered", !.items = items,
                                    !.answer = <<"text">>]
    <2>1. DOMAIN g = CallFields /\ g.items = items /\ g.phase = "answered"
      BY <1>1 DEF CallFields
    <2>2. Update(c, g)
      BY <1>4
    <2> HIDE DEF g
    <2>3. g.items \in Seq(QA)
      BY <2>1, ResultsAssumption
    <2>. QED
      BY <1>1, <1>2, <1>4, <2>1, <2>2, <2>3, ListingCall
  <1>. QED
    BY <1>3, <1>4 DEF RetrieveReplies, Retrieved

\* An explicit report is over: it was counted as shown or not.
LEMMA RecordHits ==
    ASSUME HitInv, NEW c \in Call, RecordReplies(c)
    PROVE  HitInv'
  <1>1. /\ kind[c] = "qa_record_hit" /\ call[c].phase = "asking"
        /\ DOMAIN call[c] = CallFields /\ UNCHANGED <<kind, hits>>
    BY DEF RecordReplies, Asked, HitInv, CallsType
  <1>2. PICK counted \in BOOLEAN :
           shown' = [q \in QA |-> shown[q] + IF counted /\ call[c].items = <<q>>
                                             THEN 1 ELSE 0]
    BY DEF RecordReplies
  <1>3. PICK g : Update(c, g) /\ DOMAIN g = CallFields /\ g.items = call[c].items
                 /\ g.phase = "answered"
    <2>1. \E a : Answered(c, a)
      <3>1. CASE Failed(c, "RpcError")
        BY <1>1, <3>1 DEF Failed
      <3>2. CASE Answered(c, <<"text">>)
        BY <3>2
      <3>. QED
        BY <3>1, <3>2 DEF RecordReplies
    <2>2. PICK a : Answered(c, a)
      BY <2>1
    <2> DEFINE g == [call[c] EXCEPT !.phase = "answered", !.answer = a]
    <2>3. DOMAIN g = CallFields /\ g.items = call[c].items /\ g.phase = "answered"
      BY <1>1 DEF CallFields
    <2>4. Update(c, g)
      BY <2>2 DEF Answered
    <2> HIDE DEF g
    <2>. QED
      BY <2>3, <2>4
  <1>4. shown \in [QA -> Nat] /\ shown' \in [QA -> Nat]
    BY <1>2 DEF HitInv, CallsType
  <1>5. CASE shown' = shown
    BY <1>1, <1>3, <1>5, QuietCall
  <1>6. CASE shown' # shown
    <2>1. PICK q \in QA : counted /\ call[c].items = <<q>>
      <3>1. PICK q \in QA : shown'[q] # shown[q]
        BY <1>4, <1>6
      <3>. QED
        BY <1>2, <1>4, <3>1
    <2>2. shown' = [shown EXCEPT ![q] = @ + 1]
      <3>1. \A r \in QA : call[c].items = <<r>> <=> r = q
        BY <2>1
      <3>2. \A r \in QA : shown'[r] = shown[r] + IF r = q THEN 1 ELSE 0
        BY <1>2, <2>1, <3>1
      <3>3. \A r \in QA : shown'[r] = [shown EXCEPT ![q] = @ + 1][r]
        BY <1>4, <3>2
      <3>. QED
        BY <1>4, <3>3
    <2> DEFINE h == <<c, 1, q>>
    <2>3. /\ call' = [d \in Call |-> call'[d]]
          /\ \A d \in Call : call'[d] = IF d = c THEN g ELSE call[d]
      BY <1>3 DEF Update, HitInv, CallsType
    <2>4. CallsType'
      BY <1>3, <1>4, <2>3 DEF HitInv, CallsType
    <2>5. \A d \in Call : ItemsOf(d)'
      BY <1>1, <1>3, <2>3 DEF HitInv, ItemsOf
    <2>6. ASSUME NEW i \in hits' PROVE HitOf(i)' /\ i # h
      <3>1. PICK d \in Call : /\ kind[d] = "retrieve_qa_kb" /\ call[d].phase = "answered"
                              /\ i \in Listing(d, call[d].items)
        BY <1>1, <2>6 DEF HitInv, HitOf
      <3>2. d # c /\ call'[d] = call[d] /\ i[1] = d
        BY <1>1, <2>3, <3>1, ListingFacts DEF HitInv, CallsType
      <3>. QED
        BY <1>1, <3>1, <3>2 DEF HitOf, Listing
    <2>7. \A d \in Call : call'[d].items = call[d].items
      BY <1>3, <2>3
    <2>8. Listed' = Listed
      BY <2>7 DEF Listed, Listing
    <2>9. h \in Reported
      <3>1. h \in Listing(c, call[c].items)
        BY <2>1 DEF Listing
      <3>. QED
        BY <1>1, <3>1 DEF Reported, Reports
    <2>10. ASSUME NEW i \in Reported' PROVE i \in Reported /\ i # h
      <3>1. PICK d \in Call : Reports(d)' /\ i \in Listing(d, call[d].items)
        BY <2>7, <2>10 DEF Reported, Listing
      <3>2. d # c /\ Reports(d) /\ i[1] = d
        BY <1>1, <1>3, <2>3, <3>1, ListingFacts DEF Reports, HitInv, CallsType
      <3>. QED
        BY <3>1, <3>2 DEF Reported
    <2>11. (hits \cup Reported)' \subseteq (hits \cup Reported) \ {h}
      BY <1>1, <2>6, <2>10
    <2>12. h[3] = q
      OBVIOUS
    <2> HIDE DEF h
    <2>13. \A r \in QA : Counted(r)'
      BY <2>2, <2>8, <2>9, <2>11, <2>12, CountsOne
    <2>14. IsFiniteSet(Listed')
      BY <2>8 DEF HitInv
    <2>. QED
      BY <2>4, <2>5, <2>6, <2>13, <2>14 DEF HitInv
  <1>. QED
    BY <1>5, <1>6

\* A call that is about no entry any more, or a resource, is answered.
LEMMA RpcHits ==
    ASSUME HitInv, NEW c \in Call, RpcReplies(c)
    PROVE  HitInv'
  <1>1. call[c].phase # "answered" /\ UNCHANGED <<kind, hits, shown>>
    BY DEF RpcReplies, Asked
  <1>. QED
    BY <1>1, AnsweredQuiet DEF RpcReplies

\* A hook is over: it was counted or not, and does not wait any more.
LEMMA RecordShownHits ==
    ASSUME HitInv, NEW h \in hits, RecordShown(h)
    PROVE  HitInv'
  <1>1. /\ UNCHANGED <<kind, call>> /\ hits' = hits \ {h}
        /\ \/ shown' = [shown EXCEPT ![h[3]] = @ + 1]
           \/ shown' = shown
    BY DEF RecordShown
  <1>2. PICK c \in Call : /\ kind[c] = "retrieve_qa_kb" /\ h \in Listing(c, call[c].items)
    BY DEF HitInv, HitOf
  <1>3. h[1] = c /\ h[3] \in QA
    BY <1>2, ListingFacts DEF HitInv, CallsType
  <1>4. CallsType'
    <2>1. shown' \in [QA -> Nat]
      BY <1>1, <1>3 DEF HitInv, CallsType
    <2>. QED
      BY <1>1, <2>1 DEF HitInv, CallsType
  <1>5. (\A d \in Call : ItemsOf(d)') /\ (\A i \in hits' : HitOf(i)')
    BY <1>1 DEF HitInv, ItemsOf, HitOf, Listing
  <1>6. Listed' = Listed /\ Reported' = Reported
    BY <1>1 DEF Listed, Reported, Reports, Listing
  <1>7. h \notin Reported
    <2>1. ASSUME NEW d \in Call, Reports(d), h \in Listing(d, call[d].items)
          PROVE  FALSE
      <3>1. h[1] = d
        BY <2>1, ListingFacts DEF HitInv, CallsType
      <3>. QED
        BY <1>2, <1>3, <2>1, <3>1 DEF Reports
    <2>. QED
      BY <2>1 DEF Reported
  <1>8. \A q \in QA : Counted(q)'
    <2>1. (hits \cup Reported)' \subseteq (hits \cup Reported) \ {h}
      BY <1>1, <1>6, <1>7
    <2>. QED
      BY <1>1, <1>3, <1>6, <2>1, CountsOne
  <1>. QED
    BY <1>4, <1>5, <1>6, <1>8 DEF HitInv

\* Some calls are cancelled, or all of them are with what they left behind.
LEMMA CancelHits ==
    ASSUME HitInv, kind' = kind, shown' = shown, hits' \subseteq hits,
           call' = [d \in Call |-> call'[d]],
           \A d \in Call : \/ call'[d] = call[d]
                           \/ /\ Running(d)
                              /\ \E p \in {"closing", "cancelled"} :
                                    call'[d] = [call[d] EXCEPT !.phase = p,
                                                               !.reply = NoReply]
    PROVE  HitInv'
  <1>1. ASSUME NEW d \in Call
        PROVE  /\ DOMAIN call'[d] = CallFields
               /\ call'[d].items = call[d].items
               /\ call[d].phase = "answered" => call'[d].phase = "answered"
               /\ call'[d].phase = "new" => call[d].phase = "new"
               /\ call'[d].phase = "asking" /\ call[d].items # <<>> =>
                     call[d].phase = "asking"
    <2>1. DOMAIN call[d] = CallFields
      BY DEF HitInv, CallsType
    <2>2. CASE call'[d] = call[d]
      BY <2>1, <2>2
    <2>3. ASSUME Running(d), NEW p \in {"closing", "cancelled"},
                 call'[d] = [call[d] EXCEPT !.phase = p, !.reply = NoReply]
          PROVE  /\ DOMAIN call'[d] = CallFields
                 /\ call'[d].items = call[d].items
                 /\ call'[d].phase = p /\ call[d].phase \in {"asking", "closing"}
      BY <2>1, <2>3 DEF Running, CallFields
    <2>. QED
      BY <2>1, <2>2, <2>3
  <1>. QED
    BY <1>1, QuietCalls

\* The initial state satisfies the invariant: no call has begun.
LEMMA HitInit == Init => HitInv
  <1> SUFFICES ASSUME CallsInit PROVE HitInv
    BY DEF Init
  <1>1. \A c \in Call : call[c] = NewCall
    BY DEF CallsInit
  <1>2. /\ DOMAIN NewCall = CallFields /\ NewCall.phase = "new" /\ NewCall.items = <<>>
    BY DEF NewCall, CallFields
  <1>3. CallsType
    <2>1. <<>> \in Seq(QA)
      OBVIOUS
    <2>2. \A c \in Call : DOMAIN call[c] = CallFields /\ call[c].items \in Seq(QA)
      BY <1>1, <1>2, <2>1
    <2>. QED
      BY <2>2 DEF CallsType, CallsInit
  <1>4. Listed = {} /\ Reported = {} /\ hits = {}
    <2>1. \A c \in Call : Listing(c, call[c].items) = {}
      BY <1>1, <1>2, <1>3, ListingFacts DEF CallsType
    <2>. QED
      BY <2>1 DEF Listed, Reported, CallsInit
  <1>5. ASSUME NEW q \in QA PROVE Counted(q)
    <2>1. Of(Listed, q) = {} /\ Of(hits \cup Reported, q) = {}
      BY <1>4 DEF Of
    <2>2. shown[q] = 0
      BY DEF CallsInit
    <2>. QED
      BY <2>1, <2>2, FS_EmptySet DEF Counted
  <1>6. IsFiniteSet(Listed)
    BY <1>4, FS_EmptySet
  <1>. QED
    BY <1>1, <1>2, <1>3, <1>4, <1>5, <1>6 DEF HitInv, ItemsOf

\* Every step of the process preserves it.
LEMMA HitNext == HitInv /\ [Next]_vars => HitInv'
  <1> SUFFICES ASSUME HitInv, [Next]_vars PROVE HitInv'
    OBVIOUS
  <1>0. call = [d \in Call |-> call[d]]
    BY DEF HitInv, CallsType
  <1>1. ASSUME UNCHANGED <<kind, call, hits, shown>> PROVE HitInv'
    BY <1>0, <1>1, CancelHits
  <1>2. ASSUME CancelCalls, UNCHANGED <<kind, hits, shown>> PROVE HitInv'
    <2>1. /\ call' = [d \in Call |-> call'[d]]
          /\ \A d \in Call : call'[d] = Cancelled(d)
      BY <1>2 DEF CancelCalls
    <2>2. ASSUME NEW d \in Call
          PROVE  \/ call'[d] = call[d]
                 \/ /\ Running(d)
                    /\ \E p \in {"closing", "cancelled"} :
                          call'[d] = [call[d] EXCEPT !.phase = p, !.reply = NoReply]
      BY <2>1 DEF Cancelled
    <2>. QED
      BY <1>2, <2>1, <2>2, CancelHits
  <1>3. ASSUME NEW c \in Call, Withdraw(c) PROVE HitInv'
    <2>1. /\ call' = [d \in Call |-> call'[d]] /\ UNCHANGED <<kind, hits, shown>>
          /\ \A d \in Call : call'[d] = IF d = c THEN Cancelled(c) ELSE call[d]
      BY <1>0, <1>3 DEF Withdraw, Update
    <2>2. ASSUME NEW d \in Call
          PROVE  \/ call'[d] = call[d]
                 \/ /\ Running(d)
                    /\ \E p \in {"closing", "cancelled"} :
                          call'[d] = [call[d] EXCEPT !.phase = p, !.reply = NoReply]
      BY <2>1 DEF Cancelled
    <2>. QED
      BY <2>1, <2>2, CancelHits
  <1>4. CASE Finally
    <2>1. /\ call' = [d \in Call |-> call'[d]] /\ UNCHANGED <<kind, shown>> /\ hits' = {}
          /\ \A d \in Call :
                call'[d] = IF Running(d) THEN [call[d] EXCEPT !.phase = "cancelled",
                                                              !.reply = NoReply]
                           ELSE call[d]
      BY <1>4 DEF Finally, CancelTasks
    <2>2. ASSUME NEW d \in Call
          PROVE  \/ call'[d] = call[d]
                 \/ /\ Running(d)
                    /\ \E p \in {"closing", "cancelled"} :
                          call'[d] = [call[d] EXCEPT !.phase = p, !.reply = NoReply]
      BY <2>1
    <2>. QED
      BY <2>1, <2>2, CancelHits
  <1>5. CASE ClientStep
    BY <1>3, <1>5, BeginHits DEF ClientStep
  <1>6. CASE CallStep \/ GitHubStep
    BY <1>6, GitHubHits, RetrieveHits, RecordHits, RpcHits, RecordShownHits
    DEF CallStep, GitHubStep, Progress
  <1>7. CASE SessionFails
    BY <1>2, <1>7 DEF SessionFails
  <1>8. CASE LifespanEnds
    <2>1. UNCHANGED <<kind, hits, shown>> /\ (CancelCalls \/ call' = call)
      BY <1>8 DEF LifespanEnds
    <2>. QED
      BY <1>1, <1>2, <2>1
  <1>9. CASE \/ ReadTransport \/ ReadDiscovery \/ NoSource \/ EditSettings
             \/ InitCrawlerPool \/ MountMcp \/ RegisterService
    BY <1>1, <1>9
    DEF ReadTransport, ReadDiscovery, NoSource, EditSettings, InitCrawlerPool, MountMcp,
        RegisterService, mvars
  <1>10. CASE LifespanBegins \/ WarmUp \/ Retry \/ Bind \/ StopServing \/ Drained
    BY <1>1, <1>10
    DEF LifespanBegins, WarmUp, Retry, Bind, StopServing, Drained, mvars
  <1>11. CASE Signal \/ RegistrationServes \/ Crawl \/ Reap \/ UNCHANGED vars
    BY <1>1, <1>11 DEF Signal, RegistrationServes, Crawl, Reap, vars, mvars
  <1>. QED
    BY <1>4, <1>5, <1>6, <1>7, <1>8, <1>9, <1>10, <1>11 DEF Next, Internal

\* However hooks outlive their calls and interleave with later ones, an entry is
\* not counted as shown more often than answers list it, an entry listed twice
\* being two items, and reports say so.
THEOREM HitsShown == Spec => []HitsWereShown
  <1>1. ASSUME HitInv PROVE HitsWereShown
    <2> DEFINE said == {d \in Call : kind[d] = "qa_record_hit" \/ call[d].phase = "answered"}
               listed == UNION {Listing(c, call[c].items) : c \in said}
    <2>1. listed = Listed
      <3>1. ASSUME NEW c \in Call, c \notin said PROVE Listing(c, call[c].items) = {}
        <4>1. call[c].items = <<>>
          BY <1>1, <3>1 DEF HitInv, ItemsOf
        <4>. QED
          BY <1>1, <4>1, ListingFacts DEF HitInv, CallsType
      <3>. QED
        BY <3>1 DEF Listed
    <2>2. ASSUME NEW q \in QA
          PROVE  shown[q] + Cardinality({h \in hits : h[3] = q})
                     <= Cardinality({h \in listed : h[3] = q})
      <3> DEFINE left == Of(hits, q)
                 W == Of(hits \cup Reported, q)
                 L == Of(Listed, q)
      <3>1. left \subseteq W
        BY DEF Of
      <3>2. IsFiniteSet(W) /\ Cardinality(W) \in Nat /\ Cardinality(L) \in Nat
        BY <1>1, CountedSets
      <3>3. shown[q] \in Nat /\ shown[q] + Cardinality(W) <= Cardinality(L)
        BY <1>1 DEF HitInv, CallsType, Counted
      <3> HIDE DEF left, W, L
      <3>4. Cardinality(left) \in Nat /\ Cardinality(left) <= Cardinality(W)
        BY <3>1, <3>2, PartOfFinite
      <3>5. shown[q] + Cardinality(left) <= Cardinality(L)
        BY <3>2, <3>3, <3>4
      <3>. QED
        BY <2>1, <3>5 DEF left, L, Of
    <2>. QED
      BY <2>2 DEF HitsWereShown
  <1>. QED
    BY <1>1, HitInit, HitNext, PTL DEF Spec

(***************************************************************************)
(* What GitHub tools answer.  GitHubAnswerIsTrue is about a reply and an   *)
(* answer that stand beside each other in the record of a call; that they  *)
(* belong together is the invariant, the rest is what _execute and Nodes   *)
(* make of any one reply.                                                  *)
(***************************************************************************)
Exceptions == {"NetworkTimeoutError", "GitHubGraphQLError", "AuthenticationError",
               "RateLimitError"}

\* Nothing in the reply speaks against it.
Fine(r) == /\ r.sent = "answered" /\ r.status = "ok" /\ r.json
           /\ r.errors = {} /\ r.remaining # "zero" /\ r.depth > 0

\* Nor against the list or text that its query digs out of it.
Shown(query, r) == Fine(r) /\ ~NullSearch(query, r)

\* The first case that applies counts.
LEMMA FirstCase ==
    ASSUME NEW r, NEW k \in 1..9, Cases(r)[k][1],
           \A j \in 1..9 : j < k => ~Cases(r)[j][1]
    PROVE  _execute(r) = Cases(r)[k][2]
  <1> DEFINE applies == {i \in DOMAIN Cases(r) : Cases(r)[i][1]}
             least(i) == i \in applies /\ \A j \in applies : i <= j
  <1>1. DOMAIN Cases(r) = 1..9
    BY DEF Cases
  <1>2. least(k)
    BY <1>1
  <1>3. \A i : least(i) => i = k
    BY <1>1, <1>2
  <1>4. (CHOOSE i \in applies : \A j \in applies : i <= j) = k
    BY <1>2, <1>3
  <1>. QED
    BY <1>4 DEF _execute

\* What _execute makes of any reply: data exactly if nothing speaks against it,
\* and else an exception that blames what the reply says.
LEMMA ExecuteIsTrue ==
    ASSUME NEW r \in ReplyType
    PROVE  /\ _execute(r) \in Exceptions \cup {"data"}
           /\ _execute(r) = "data" <=> Fine(r)
           /\ _execute(r) = "RateLimitError" => r.remaining = "zero" \/ "rate" \in r.errors
           /\ _execute(r) = "NetworkTimeoutError" <=> r.sent = "timeout"
  <1> DEFINE case(k) == Cases(r)[k][1]
  <1>1. /\ case(1) = (r.sent = "timeout")
        /\ case(2) = (r.sent = "unreachable")
        /\ case(3) = (r.status = "401")
        /\ case(4) = (r.status = "403" /\ r.remaining = "zero")
        /\ case(5) = (r.status # "ok" \/ ~r.json)
        /\ case(6) = (r.remaining = "zero" \/ "rate" \in r.errors)
        /\ case(7) = ("auth" \in r.errors)
        /\ case(8) = (r.errors # {} \/ r.depth = 0)
        /\ case(9) = TRUE
    BY DEF Cases, _is_rate_limited, _contains_auth_error
  <1>2. /\ Cases(r)[1][2] = "NetworkTimeoutError" /\ Cases(r)[2][2] = "GitHubGraphQLError"
        /\ Cases(r)[3][2] = "AuthenticationError" /\ Cases(r)[4][2] = "RateLimitError"
        /\ Cases(r)[5][2] = "GitHubGraphQLError" /\ Cases(r)[6][2] = "RateLimitError"
        /\ Cases(r)[7][2] = "AuthenticationError" /\ Cases(r)[8][2] = "GitHubGraphQLError"
        /\ Cases(r)[9][2] = "data"
    BY DEF Cases
  <1>3. ASSUME NEW k \in 1..9, case(k), \A j \in 1..9 : j < k => ~case(j)
        PROVE  _execute(r) = Cases(r)[k][2]
    BY <1>3, FirstCase
  <1> HIDE DEF case
  <1>4. PICK k \in 1..9 : case(k) /\ \A j \in 1..9 : j < k => ~case(j)
    <2>1. case(9)
      BY <1>1
    <2>. QED
      BY <2>1, SMTT(30)
  <1>5. _execute(r) = Cases(r)[k][2]
    BY <1>3, <1>4
  <1>6. \A j \in 1..9 : j < k => ~case(j)
    BY <1>4
  <1>7. /\ r.sent \in {"timeout", "unreachable", "answered"}
        /\ r.errors \subseteq ErrorKind /\ r.depth \in Nat /\ r.json \in BOOLEAN
    BY DEF ReplyType
  <1>8. CASE k \in {1, 2, 3}
    <2>1. k = 1 => r.sent = "timeout"
      BY <1>1, <1>4
    <2>2. k = 2 => r.sent = "unreachable"
      BY <1>1, <1>4
    <2>3. k = 3 => r.status = "401" /\ ~case(1)
      BY <1>1, <1>4, <1>6
    <2>4. case(1) <=> r.sent = "timeout"
      BY <1>1
    <2>. QED
      BY <1>2, <1>5, <1>8, <2>1, <2>2, <2>3, <2>4 DEF Exceptions, Fine
  <1>9. CASE k \in {4, 5, 6}
    <2>1. ~case(1)
      BY <1>6, <1>9
    <2>. QED
      BY <1>1, <1>2, <1>4, <1>5, <1>7, <1>9, <2>1 DEF Exceptions, Fine
  <1>10. CASE k \in {7, 8}
    <2>1. ~case(1)
      BY <1>6, <1>10
    <2>. QED
      BY <1>1, <1>2, <1>4, <1>5, <1>7, <1>10, <2>1 DEF Exceptions, Fine
  <1>11. CASE k = 9
    <2>1. ~case(1) /\ ~case(2) /\ ~case(5) /\ ~case(6) /\ ~case(8)
      BY <1>6, <1>11
    <2>2. r.sent # "timeout" /\ r.sent # "unreachable"
      BY <1>1, <2>1
    <2>3. r.status = "ok" /\ r.json
      BY <1>1, <2>1
    <2>4. r.remaining # "zero" /\ r.errors = {} /\ r.depth # 0
      BY <1>1, <2>1
    <2>5. _execute(r) = "data" /\ Fine(r)
      BY <1>2, <1>5, <1>7, <1>11, <2>2, <2>3, <2>4 DEF Fine
    <2>. QED
      BY <2>5, <2>2
  <1>. QED
    BY <1>4, <1>8, <1>9, <1>10, <1>11

\* What becomes of a query: data exactly if nothing in the reply speaks against
\* it and a search has something to look in.
LEMMA OutcomeIsTrue ==
    ASSUME NEW r \in ReplyType, NEW query
    PROVE  /\ Outcome(query, r) \in Exceptions \cup {"data", "AttributeError"}
           /\ Outcome(query, r) = "data" <=> Shown(query, r)
           /\ Outcome(query, r) = "RateLimitError" => r.remaining = "zero"
                                                    \/ "rate" \in r.errors
           /\ Outcome(query, r) = "NetworkTimeoutError" <=> r.sent = "timeout"
  <1>1. CASE _execute(r) = "data" /\ NullSearch(query, r)
    <2>1. Outcome(query, r) = "AttributeError"
      BY <1>1 DEF Outcome
    <2>. QED
      BY <1>1, <2>1, ExecuteIsTrue DEF Shown
  <1>2. CASE ~(_execute(r) = "data" /\ NullSearch(query, r))
    <2>1. Outcome(query, r) = _execute(r)
      BY <1>2 DEF Outcome
    <2>. QED
      BY <1>2, <2>1, ExecuteIsTrue DEF Shown
  <1>. QED
    BY <1>1, <1>2

\* What a query digs out of data: as many nodes as are not null, and `empty`
\* only in place of the one that is not there.
LEMMA NodesAreShown ==
    ASSUME NEW r \in ReplyType, NEW query
    PROVE  LET a == Nodes(query, r) IN
           /\ \A i \in DOMAIN a : a[i] \in {"node", "empty"}
           /\ Cardinality({i \in DOMAIN a : a[i] = "node"}) =
                 IF r.depth = Len(Path[query]) + 1
                 THEN Cardinality({i \in DOMAIN r.nodes : r.nodes[i] = "node"})
                 ELSE 0
  <1> DEFINE found == IF r.depth = Len(Path[query]) + 1 THEN r.nodes ELSE <<>>
             there == {j \in DOMAIN found : found[j] # "null"}
             n == Cardinality(there)
             some == [i \in 1..n |-> "node"]
             a == Nodes(query, r)
  <1>1. found \in Seq({"node", "null"})
    BY DEF ReplyType
  <1> HIDE DEF found
  <1>2. n \in Nat
    <2>1. IsFiniteSet(DOMAIN found)
      <3>1. DOMAIN found = 1..Len(found) /\ Len(found) \in Nat
        BY <1>1
      <3>. QED
        BY <3>1, FS_Interval
    <2>2. IsFiniteSet(there)
      BY <2>1, PartOfFinite
    <2>. QED
      BY <2>2, FS_CardinalityType
  <1>3. n = IF r.depth = Len(Path[query]) + 1
            THEN Cardinality({i \in DOMAIN r.nodes : r.nodes[i] = "node"}) ELSE 0
    <2>1. there = {j \in DOMAIN found : found[j] = "node"}
      BY <1>1
    <2>2. CASE r.depth = Len(Path[query]) + 1
      BY <2>1, <2>2 DEF found
    <2>3. CASE r.depth # Len(Path[query]) + 1
      <3>1. there = {}
        BY <2>3 DEF found
      <3>. QED
        BY <2>3, <3>1, FS_EmptySet
    <2>. QED
      BY <2>2, <2>3
  <1>4. a = IF ReturnsOne(query) /\ some = <<>> THEN <<"empty">> ELSE some
    BY DEF Nodes, found
  <1> HIDE DEF n, a
  <1>5. CASE ReturnsOne(query) /\ some = <<>>
    <2>1. n = 0
      BY <1>2, <1>5
    <2>2. a = <<"empty">>
      BY <1>4, <1>5
    <2>3. /\ {i \in DOMAIN a : a[i] = "node"} = {}
          /\ \A i \in DOMAIN a : a[i] \in {"node", "empty"}
      BY <2>2
    <2>4. Cardinality({i \in DOMAIN a : a[i] = "node"}) = n
      BY <2>1, <2>3, FS_EmptySet
    <2>. QED
      BY <1>3, <2>3, <2>4 DEF a
  <1>6. CASE ~(ReturnsOne(query) /\ some = <<>>)
    <2>1. a = some
      BY <1>4, <1>6
    <2>2. {i \in DOMAIN a : a[i] = "node"} = 1..n
      BY <2>1
    <2>3. Cardinality(1..n) = n
      BY <1>2, FS_Interval
    <2>. QED
      BY <1>3, <2>1, <2>2, <2>3 DEF a
  <1>. QED
    BY <1>5, <1>6

\* The reply and the answer in the record of one call.
Replied(c) ==
    LET g == call[c] IN
    /\ g.phase = "new" => g.reply = NoReply
    /\ g.phase = "asking" => g.reply = NoReply /\ g.query \in Queries
    /\ g.phase = "closing" => g.reply \in ReplyType \cup {NoReply}
    /\ g.phase = "answered" /\ g.reply # NoReply =>
          /\ g.reply \in ReplyType
          /\ g.answer = IF Outcome(g.query, g.reply) = "data" THEN Nodes(g.query, g.reply)
                        ELSE <<Outcome(g.query, g.reply)>>

ReplyInv ==
    /\ call = [c \in Call |-> call[c]]
    /\ \A c \in Call : DOMAIN call[c] = CallFields
    /\ \A c \in Call : kind[c] = "github" => Replied(c)

\* No call has begun.
LEMMA ReplyInit == Init => ReplyInv
  <1>1. DOMAIN NewCall = CallFields /\ NewCall.phase = "new" /\ NewCall.reply = NoReply
    BY DEF NewCall, CallFields
  <1>. QED
    BY <1>1 DEF Init, CallsInit, ReplyInv, Replied

\* Every other call stays as it is.
LEMMA OneCallReplied ==
    ASSUME ReplyInv, UNCHANGED kind, NEW c \in Call, NEW g, Update(c, g),
           DOMAIN g = CallFields, kind[c] = "github" => Replied(c)'
    PROVE  ReplyInv'
  <1>1. /\ call' = [d \in Call |-> call'[d]]
        /\ \A d \in Call : call'[d] = IF d = c THEN g ELSE call[d]
    BY DEF ReplyInv, Update
  <1>2. ASSUME NEW d \in Call, kind[d] = "github" PROVE Replied(d)'
    BY <1>1, <1>2 DEF ReplyInv, Replied
  <1>. QED
    BY <1>1, <1>2 DEF ReplyInv

\* A call is answered or fails: as a call of GitHub, without a reply or with
\* the answer that its reply stands for.
LEMMA AnsweredReplied ==
    ASSUME ReplyInv, UNCHANGED kind, NEW c \in Call, NEW a,
           Answered(c, a) \/ (Failed(c, a) /\ kind[c] # "github")
                          \/ (Failed(c, a) /\ kind[c] = "github" /\ call[c].reply = NoReply),
           kind[c] = "github" /\ call[c].reply # NoReply =>
              /\ call[c].reply \in ReplyType
              /\ a = IF Outcome(call[c].query, call[c].reply) = "data"
                     THEN Nodes(call[c].query, call[c].reply)
                     ELSE <<Outcome(call[c].query, call[c].reply)>>
    PROVE  ReplyInv'
  <1>1. /\ DOMAIN call[c] = CallFields
        /\ \A g : Update(c, g) => call'[c] = g
    BY DEF ReplyInv, Update
  <1>2. ASSUME NEW b, Answered(c, b), kind[c] = "github" /\ call[c].reply # NoReply => b = a
        PROVE  ReplyInv'
    <2> DEFINE g == [call[c] EXCEPT !.phase = "answered", !.answer = b]
    <2>1. /\ DOMAIN g = CallFields /\ g.phase = "answered" /\ g.answer = b
          /\ g.query = call[c].query /\ g.reply = call[c].reply
      BY <1>1 DEF CallFields
    <2>2. Update(c, g) /\ call'[c] = g
      BY <1>1, <1>2 DEF Answered
    <2> HIDE DEF g
    <2>3. kind[c] = "github" => Replied(c)'
      BY <1>2, <2>1, <2>2 DEF Replied
    <2>. QED
      BY <2>1, <2>2, <2>3, OneCallReplied
  <1>3. CASE Answered(c, a)
    BY <1>2, <1>3
  <1>4. CASE Answered(c, <<a>>) /\ ~(kind[c] = "github" /\ call[c].reply # NoReply)
    BY <1>2, <1>4
  <1>5. CASE Update(c, [call[c] EXCEPT !.phase = "raised"])
    <2> DEFINE g == [call[c] EXCEPT !.phase = "raised"]
    <2>1. DOMAIN g = CallFields /\ g.phase = "raised"
      BY <1>1 DEF CallFields
    <2>2. Update(c, g) /\ call'[c] = g
      BY <1>1, <1>5
    <2> HIDE DEF g
    <2>3. kind[c] = "github" => Replied(c)'
      BY <2>1, <2>2 DEF Replied
    <2>. QED
      BY <2>1, <2>2, <2>3, OneCallReplied
  <1>. QED
    BY <1>3, <1>4, <1>5 DEF Failed

\* A client's call begins.
LEMMA BeginReplied ==
    ASSUME ReplyInv, NEW c \in Call, Begin(c)
    PROVE  ReplyInv'
  <1>1. /\ call[c].phase = "new" /\ UNCHANGED kind
        /\ kind[c] = "github" => call[c].reply = NoReply
    BY DEF Begin, CallGitHub, CallRpc, CallLocal, ReplyInv, Replied
  <1>2. ASSUME NEW g, Update(c, g), DOMAIN g = CallFields, g.phase = "asking",
               g.reply = NoReply, kind[c] = "github" => g.query \in Queries
        PROVE  ReplyInv'
    <2>1. call'[c] = g
      BY <1>2 DEF ReplyInv, Update
    <2>2. kind[c] = "github" => Replied(c)'
      BY <1>2, <2>1 DEF Replied
    <2>. QED
      BY <1>1, <1>2, <2>2, OneCallReplied
  <1>3. CASE CallGitHub(c)
    <2>1. CASE Failed(c, "ValueError")
      BY <1>1, <2>1, AnsweredReplied
    <2>2. ASSUME NEW q \in Queries,
                 Update(c, [NewCall EXCEPT !.phase = "asking", !.query = q])
          PROVE  ReplyInv'
      <3> DEFINE g == [NewCall EXCEPT !.phase = "asking", !.query = q]
      <3>1. /\ DOMAIN g = CallFields /\ g.phase = "asking" /\ g.query = q
            /\ g.reply = NoReply
        BY DEF NewCall, CallFields
      <3>2. Update(c, g)
        BY <2>2
      <3> HIDE DEF g
      <3>. QED
        BY <1>2, <3>1, <3>2
    <2>. QED
      BY <1>3, <2>1, <2>2 DEF CallGitHub
  <1>4. CASE CallRpc(c)
    <2>1. kind[c] # "github"
      BY <1>4 DEF CallRpc
    <2>2. PICK items :
             Update(c, [NewCall EXCEPT !.phase = "asking", !.items = items])
      BY <1>4 DEF CallRpc
    <2> DEFINE g == [NewCall EXCEPT !.phase = "asking", !.items = items]
    <2>3. DOMAIN g = CallFields /\ g.phase = "asking" /\ g.reply = NoReply
      BY DEF NewCall, CallFields
    <2>4. Update(c, g)
      BY <2>2
    <2> HIDE DEF g
    <2>. QED
      BY <1>2, <2>1, <2>3, <2>4
  <1>5. CASE CallLocal(c)
    <2>1. kind[c] # "github"
      BY <1>5 DEF CallLocal
    <2>. QED
      BY <1>1, <1>5, <2>1, AnsweredReplied DEF CallLocal
  <1>. QED
    BY <1>3, <1>4, <1>5 DEF Begin

\* GitHub replies with something it may say, or not in time; the call keeps that
\* until its client is closed, and answers by it.
LEMMA GitHubReplied ==
    ASSUME ReplyInv, NEW c \in Call,
           GitHubReplies(c) \/ GitHubTimesOut(c) \/ CloseClient(c)
    PROVE  ReplyInv'
  <1>1. /\ kind[c] = "github" /\ UNCHANGED kind /\ DOMAIN call[c] = CallFields
        /\ Replied(c)
        /\ \A g : Update(c, g) => call'[c] = g
    BY DEF GitHubReplies, GitHubTimesOut, CloseClient, Asked, ReplyInv, Update
  <1>2. ASSUME NEW r \in ReplyType,
               Update(c, [call[c] EXCEPT !.phase = "closing", !.reply = r])
        PROVE  ReplyInv'
    <2> DEFINE g == [call[c] EXCEPT !.phase = "closing", !.reply = r]
    <2>1. DOMAIN g = CallFields /\ g.phase = "closing" /\ g.reply = r
      BY <1>1 DEF CallFields
    <2>2. Update(c, g) /\ call'[c] = g
      BY <1>1, <1>2
    <2> HIDE DEF g
    <2>3. Replied(c)'
      BY <2>1, <2>2 DEF Replied
    <2>. QED
      BY <1>1, <2>1, <2>2, <2>3, OneCallReplied
  <1>3. CASE GitHubReplies(c)
    <2>1. call[c].query \in Queries
      BY <1>1, <1>3 DEF GitHubReplies, Asked, Replied
    <2>. QED
      BY <1>2, <1>3, <2>1, RepliesAssumption DEF GitHubReplies
  <1>4. CASE GitHubTimesOut(c)
    <2>1. [NoReply EXCEPT !.sent = "timeout"] \in ReplyType
      <3> DEFINE R(s, j, e, d, n) ==
                    [sent |-> s, status |-> "none", remaining |-> "none", json |-> j,
                     errors |-> e, depth |-> d, nodes |-> n]
      <3>1. PICK j \in BOOLEAN, e \in SUBSET ErrorKind, d \in Nat,
                 n \in Seq({"node", "null"}) : NoReply = R("none", j, e, d, n)
        <4>1. NoReply = R("none", FALSE, {}, 0, <<>>)
          BY Zenon DEF NoReply
        <4>2. /\ <<>> \in Seq({"node", "null"}) /\ {} \in SUBSET ErrorKind
              /\ FALSE \in BOOLEAN /\ 0 \in Nat
          OBVIOUS
        <4> HIDE DEF R
        <4>. QED
          BY <4>1, <4>2, Zenon
      <3>2. [NoReply EXCEPT !.sent = "timeout"] = R("timeout", j, e, d, n)
        BY <3>1
      <3>3. R("timeout", j, e, d, n) \in ReplyType
        BY DEF ReplyType
      <3>. QED
        BY <3>2, <3>3
    <2>. QED
      BY <1>2, <1>4, <2>1 DEF GitHubTimesOut
  <1>5. CASE CloseClient(c)
    <2> DEFINE r == call[c].reply
               query == call[c].query
    <2>1. r \in ReplyType \cup {NoReply}
      BY <1>1, <1>5 DEF CloseClient, Replied
    <2>2. CASE r = NoReply
      <3> DEFINE g == [call[c] EXCEPT !.phase = "cancelled"]
      <3>1. DOMAIN g = CallFields /\ g.phase = "cancelled"
        BY <1>1 DEF CallFields
      <3>2. Update(c, g) /\ call'[c] = g
        BY <1>1, <1>5, <2>2 DEF CloseClient
      <3> HIDE DEF g
      <3>3. Replied(c)'
        BY <3>1, <3>2 DEF Replied
      <3>. QED
        BY <1>1, <3>1, <3>2, <3>3, OneCallReplied
    <2>3. CASE r # NoReply /\ Outcome(query, r) = "data"
      <3>1. Answered(c, Nodes(query, r))
        BY <1>5, <2>3 DEF CloseClient
      <3>. QED
        BY <1>1, <2>1, <2>3, <3>1, AnsweredReplied
    <2>4. CASE r # NoReply /\ Outcome(query, r) # "data"
      <3>1. Answered(c, <<Outcome(query, r)>>)
        BY <1>1, <1>5, <2>4 DEF CloseClient, Failed
      <3>. QED
        BY <1>1, <2>1, <2>4, <3>1, AnsweredReplied
    <2>. QED
      BY <2>2, <2>3, <2>4
  <1>. QED
    BY <1>3, <1>4, <1>5

\* The calls of the other services go on.
LEMMA RpcReplied ==
    ASSUME ReplyInv, NEW c \in Call,
           RetrieveReplies(c) \/ RecordReplies(c) \/ RpcReplies(c)
    PROVE  ReplyInv'
  <1>1. kind[c] # "github" /\ UNCHANGED kind /\ DOMAIN call[c] = CallFields
    BY DEF RetrieveReplies, RecordReplies, RpcReplies, Asked, ReplyInv
  <1>2. ASSUME NEW a, Answered(c, a) \/ Failed(c, a) PROVE ReplyInv'
    BY <1>1, <1>2, AnsweredReplied
  <1>3. ASSUME NEW items, Update(c, [call[c] EXCEPT !.phase = "answered", !.items = items,
                                                   !.answer = <<"text">>])
        PROVE  ReplyInv'
    <2> DEFINE g == [call[c] EXCEPT !.phase = "answered", !.items = items,
                                    !.answer = <<"text">>]
    <2>1. DOMAIN g = CallFields
      BY <1>1 DEF CallFields
    <2>2. Update(c, g)
      BY <1>3
    <2> HIDE DEF g
    <2>. QED
      BY <1>1, <2>1, <2>2, OneCallReplied
  <1>. QED
    BY <1>2, <1>3 DEF RetrieveReplies, Retrieved, RecordReplies, RpcReplies

\* Calls are cancelled: what was said to them is forgotten.
LEMMA CancelReplied ==
    ASSUME ReplyInv, UNCHANGED kind, call' = [d \in Call |-> call'[d]],
           \A d \in Call : \/ call'[d] = call[d]
                           \/ \E p \in {"closing", "cancelled"} :
                                 call'[d] = [call[d] EXCEPT !.phase = p,
                                                            !.reply = NoReply]
    PROVE  ReplyInv'
  <1> SUFFICES ASSUME NEW d \in Call
               PROVE  /\ DOMAIN call'[d] = CallFields
                      /\ kind[d] = "github" => Replied(d)'
    BY DEF ReplyInv
  <1>1. DOMAIN call[d] = CallFields
    BY DEF ReplyInv
  <1>2. CASE call'[d] = call[d]
    BY <1>1, <1>2 DEF ReplyInv, Replied
  <1>3. ASSUME NEW p \in {"closing", "cancelled"},
               call'[d] = [call[d] EXCEPT !.phase = p, !.reply = NoReply]
        PROVE  DOMAIN call'[d] = CallFields /\ Replied(d)'
    <2>1. /\ DOMAIN call'[d] = CallFields /\ call'[d].phase = p
          /\ call'[d].reply = NoReply
      BY <1>1, <1>3 DEF CallFields
    <2>. QED
      BY <2>1 DEF Replied
  <1>. QED
    BY <1>2, <1>3

\* Every step of the process preserves the invariant.
LEMMA ReplyNext == ReplyInv /\ [Next]_vars => ReplyInv'
  <1> SUFFICES ASSUME ReplyInv, [Next]_vars PROVE ReplyInv'
    OBVIOUS
  <1>0. call = [d \in Call |-> call[d]]
    BY DEF ReplyInv
  <1>1. ASSUME UNCHANGED <<kind, call>> PROVE ReplyInv'
    BY <1>1 DEF ReplyInv, Replied
  <1>2. ASSUME CancelCalls, UNCHANGED kind PROVE ReplyInv'
    BY <1>2, CancelReplied DEF CancelCalls, Cancelled
  <1>3. ASSUME NEW c \in Call, Withdraw(c) PROVE ReplyInv'
    <2>1. /\ call' = [d \in Call |-> call'[d]] /\ UNCHANGED kind
          /\ \A d \in Call : call'[d] = IF d = c THEN Cancelled(c) ELSE call[d]
      BY <1>0, <1>3 DEF Withdraw, Update
    <2>. QED
      BY <2>1, CancelReplied DEF Cancelled
  <1>4. CASE Finally
    BY <1>4, CancelReplied DEF Finally, CancelTasks
  <1>5. CASE ClientStep
    BY <1>3, <1>5, BeginReplied DEF ClientStep
  <1>6. CASE CallStep \/ GitHubStep
    <2>1. ASSUME NEW h, RecordShown(h) PROVE ReplyInv'
      BY <1>1, <2>1 DEF RecordShown
    <2>. QED
      BY <1>6, <2>1, GitHubReplied, RpcReplied DEF CallStep, GitHubStep, Progress
  <1>7. CASE SessionFails
    BY <1>2, <1>7 DEF SessionFails
  <1>8. CASE LifespanEnds
    <2>1. UNCHANGED kind /\ (CancelCalls \/ call' = call)
      BY <1>8 DEF LifespanEnds
    <2>. QED
      BY <1>1, <1>2, <2>1
  <1>9. CASE \/ ReadTransport \/ ReadDiscovery \/ NoSource \/ EditSettings
             \/ InitCrawlerPool \/ MountMcp \/ RegisterService
    BY <1>1, <1>9
    DEF ReadTransport, ReadDiscovery, NoSource, EditSettings, InitCrawlerPool, MountMcp,
        RegisterService, mvars
  <1>10. CASE LifespanBegins \/ WarmUp \/ Retry \/ Bind \/ StopServing \/ Drained
    BY <1>1, <1>10
    DEF LifespanBegins, WarmUp, Retry, Bind, StopServing, Drained, mvars
  <1>11. CASE Signal \/ RegistrationServes \/ Crawl \/ Reap \/ UNCHANGED vars
    BY <1>1, <1>11 DEF Signal, RegistrationServes, Crawl, Reap, vars, mvars
  <1>. QED
    BY <1>4, <1>5, <1>6, <1>7, <1>8, <1>9, <1>10, <1>11 DEF Next, Internal

\* A GitHub tool shows items exactly if nothing in GitHub's reply speaks against
\* it, all that are not null, and else blames what the reply says: for every
\* query, every reply and every number of nodes.
THEOREM GitHubAnswered == Spec => []GitHubAnswerIsTrue
  <1>1. ASSUME ReplyInv PROVE GitHubAnswerIsTrue
    <2> SUFFICES ASSUME NEW c \in Call, kind[c] = "github",
                        call[c].phase = "answered", call[c].reply # NoReply
                 PROVE  LET r == call[c].reply
                            a == call[c].answer
                            items == {i \in DOMAIN a : a[i] \in {"node", "empty"}}
                        IN  /\ Shown(call[c].query, r) <=> items = DOMAIN a
                            /\ Shown(call[c].query, r) =>
                                  Cardinality({i \in DOMAIN a : a[i] = "node"}) =
                                  IF r.depth = Len(Path[call[c].query]) + 1
                                  THEN Cardinality({i \in DOMAIN r.nodes :
                                                        r.nodes[i] = "node"})
                                  ELSE 0
                            /\ ~Shown(call[c].query, r) => Len(a) = 1 /\ items = {}
                            /\ a = <<"RateLimitError">> => r.remaining = "zero"
                                                           \/ "rate" \in r.errors
                            /\ a = <<"NetworkTimeoutError">> <=> r.sent = "timeout"
      BY ZenonT(60) DEF GitHubAnswerIsTrue, Shown, Fine
    <2> DEFINE r == call[c].reply
               a == call[c].answer
               query == call[c].query
               items == {i \in DOMAIN a : a[i] \in {"node", "empty"}}
    <2>1. /\ r \in ReplyType
          /\ a = IF Outcome(query, r) = "data" THEN Nodes(query, r) ELSE <<Outcome(query, r)>>
      BY <1>1 DEF ReplyInv, Replied
    <2> HIDE DEF r, a, query
    <2>2. CASE Shown(query, r)
      <3>1. Outcome(query, r) = "data" /\ r.sent # "timeout"
        BY <2>1, <2>2, OutcomeIsTrue DEF Fine
      <3>2. /\ \A i \in DOMAIN a : a[i] \in {"node", "empty"}
            /\ Cardinality({i \in DOMAIN a : a[i] = "node"}) =
                  IF r.depth = Len(Path[query]) + 1
                  THEN Cardinality({i \in DOMAIN r.nodes : r.nodes[i] = "node"})
                  ELSE 0
        <4>1. a = Nodes(query, r) /\ r \in ReplyType
          BY <2>1, <3>1
        <4> DEFINE b == Nodes(query, r)
        <4>2. /\ \A i \in DOMAIN b : b[i] \in {"node", "empty"}
              /\ Cardinality({i \in DOMAIN b : b[i] = "node"}) =
                    IF r.depth = Len(Path[query]) + 1
                    THEN Cardinality({i \in DOMAIN r.nodes : r.nodes[i] = "node"})
                    ELSE 0
          BY <4>1, NodesAreShown, Zenon
        <4>3. a = b
          BY <4>1
        <4> HIDE DEF b
        <4>. QED
          BY <4>2, <4>3
      <3>3. items = DOMAIN a
        BY <3>2
      <3>4. a # <<"RateLimitError">> /\ a # <<"NetworkTimeoutError">>
        BY <3>2
      <3>. QED
        BY <2>2, <3>1, <3>2, <3>3, <3>4 DEF r, a, query
    <2>3. CASE ~Shown(query, r)
      <3>1. /\ Outcome(query, r) \in Exceptions \cup {"AttributeError"}
            /\ Outcome(query, r) = "RateLimitError" => r.remaining = "zero"
                                                 \/ "rate" \in r.errors
            /\ Outcome(query, r) = "NetworkTimeoutError" <=> r.sent = "timeout"
        BY <2>1, <2>3, OutcomeIsTrue
      <3>2. a = <<Outcome(query, r)>>
        BY <2>1, <3>1 DEF Exceptions
      <3>3. DOMAIN a = {1} /\ Len(a) = 1 /\ a[1] = Outcome(query, r)
        BY <3>2
      <3>4. items = {}
        BY <3>1, <3>3 DEF Exceptions
      <3>. QED
        BY <2>3, <3>1, <3>2, <3>3, <3>4 DEF r, a, query
    <2>. QED
      BY <2>2, <2>3
  <1>. QED
    BY <1>1, ReplyInit, ReplyNext, PTL DEF Spec
=============================================================================
