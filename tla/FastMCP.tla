------------------------------ MODULE FastMCP ------------------------------
(***************************************************************************)
(* The MCP server object: fast_mcp.FastMCP, its subclass nacos_mcp.NacosMCP *)
(* that Nacos lists, MCPFactory, which makes the one instance, and the     *)
(* plugins of mcp_service/ that register with it when they are imported.   *)
(*                                                                         *)
(* A server is a record:                                                   *)
(*   low       _mcp_server: "none", "base" (mcp's Server) or "nacos"       *)
(*             (NacosServer, which can be listed)                          *)
(*   handlers  the low-level servers with handlers for the protocol        *)
(*   manager   the low-level server the session manager runs, or "none"    *)
(*   tools, resources, templates, prompts                                  *)
(*             the functions in its managers                               *)
(*   mounted   the transport whose app is mounted at "/", or "none"        *)
(*   listed    the transport under which Nacos lists it, or "none"         *)
(***************************************************************************)

Transports == {"stdio", "sse", "streamable-http", "other"}
Discoveries == {"off", "nacos", "other"}

NoServer == [low |-> "none", handlers |-> {}, manager |-> "none",
             tools |-> {}, resources |-> {}, templates |-> {}, prompts |-> {},
             mounted |-> "none", listed |-> "none"]

_setup_handlers(s) == [s EXCEPT !.handlers = @ \cup {s.low}]

\* FastMCP.__init__; no provider is ever given, so settings.auth is None too.
InitFastMCP == _setup_handlers([NoServer EXCEPT !.low = "base"])

\* streamable_http_app makes the session manager on its first call, of the
\* low-level server of that moment.
EnsureManager(s) == IF s.manager = "none" THEN [s EXCEPT !.manager = s.low] ELSE s

\* Mutant: the session manager is made by FastMCP.__init__.
EagerManager == _setup_handlers([EnsureManager(InitFastMCP) EXCEPT !.low = "nacos"])

\* NacosMCP.__init__ replaces the low-level server of its superclass and sets
\* the handlers up once more.
InitNacosMCP == _setup_handlers([InitFastMCP EXCEPT !.low = "nacos"])

\* Discovery that is enabled with another type than "nacos" leaves None.
init_fast_mcp(discovery) == CASE discovery = "off"   -> InitFastMCP
                              [] discovery = "nacos" -> InitNacosMCP
                              [] discovery = "other" -> NoServer

\* The decorators, for the functions fs of a plugin.
tool(s, fs) == [s EXCEPT !.tools = @ \cup fs]
prompt(s, fs) == [s EXCEPT !.prompts = @ \cup fs]

\* A function with parameters, which must then be those of its URI, is a
\* template; what does not match raises and leaves no server to mount.
resource(s, f, uri_params, func_params) ==
    IF uri_params # func_params THEN NoServer
    ELSE IF uri_params = {} THEN [s EXCEPT !.resources = @ \cup {f}]
    ELSE [s EXCEPT !.templates = @ \cup {f}]

\* The plugins, each under the name of its file.
aduib_ai_tool(s) ==
    resource(tool(s, {"retrieval_from_paragraph", "retrieval_from_qa",
                      "retrieval_from_browser_history"}),
             "read_knowledge_document", {"doc_id"}, {"doc_id"})

crawl_tools(s) == tool(s, {"crawl_web", "web_search"})

GitHubTools == {"search_github_repositories", "search_github_issues",
                "search_github_code", "get_github_repository_details",
                "get_github_pull_requests", "get_github_commits",
                "get_github_releases", "get_github_readme"}

github_tools(s) == tool(s, GitHubTools)

qa_memory_tools(s) == tool(s, {"retrieve_qa_kb", "qa_record_hit",
                               "qa_upsert_candidate", "qa_validate_and_update"})

\* Of the prompts the first four; the others are one for each tool.
prompts(s) == prompt(s, {"crawl_web", "retrieval_from_paragraph", "retrieval_from_qa",
                         "retrieval_from_browser_history"})

\* Imported in the order of pkgutil.
load_mcp_plugins(s) ==
    qa_memory_tools(prompts(github_tools(crawl_tools(aduib_ai_tool(s)))))

\* The first plugin asks get_mcp() for a decorator; on stdio run() starts an
\* event loop inside the running one.  Either raises.
MountRaises(s, transport) == s = NoServer \/ transport = "stdio"

\* The apps to mount; without a provider they have no authentication.  The
\* handler of SSE reads _mcp_server when a client connects.
sse_app(s) == [s EXCEPT !.mounted = "sse"]
streamable_http_app(s) == [EnsureManager(s) EXCEPT !.mounted = "streamable-http"]

mount_mcp_app(s, transport) ==
    CASE transport = "sse"             -> sse_app(s)
      [] transport = "streamable-http" -> streamable_http_app(s)
      [] OTHER                         -> s

\* register_service knows the transports that can be mounted, and stdio.
register_service(s, transport) ==
    IF transport = "other" THEN s ELSE [s EXCEPT !.listed = transport]

\* The low-level server that answers a client.
Serves(s) == CASE s.mounted = "sse"             -> s.low
               [] s.mounted = "streamable-http" -> s.manager
               [] OTHER                         -> "none"
=============================================================================
