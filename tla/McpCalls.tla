------------------------------ MODULE McpCalls ------------------------------
(***************************************************************************)
(* Calls of MCP clients, from FastMCP.call_tool, read_resource and         *)
(* get_prompt to the services behind the tools: GitHub over one HTTP       *)
(* client for each call, and the QA memory and the knowledge base over     *)
(* RPC.  retrieve_qa_kb leaves a background task behind, the hook that     *)
(* records what it showed.  GitHub may never answer; an RPC is answered or *)
(* fails, and may have been executed either way.                           *)
(***************************************************************************)
EXTENDS FastMCP, GitHubClient

CONSTANTS
    Call,       \* calls of clients
    Scenarios,  \* what the calls may be: functions from Call to CallKind
    Queries,    \* GitHub queries: a subset of DOMAIN Path
    Replies,    \* Replies[query]: what GitHub may answer to it
    QA,         \* entries of the QA memory
    Results     \* what a search of the QA memory may list, an entry perhaps twice

ASSUME RepliesAssumption == \A query \in Queries : Replies[query] \subseteq ReplyType
ASSUME ResultsAssumption == Results \subseteq Seq(QA)

\* "rpc_tool": retrieval_from_*, qa_upsert_candidate, qa_validate_and_update,
\* which pass one RPC through; "local": the lists, a tool nobody registered.
CallKind == {"github", "retrieve_qa_kb", "qa_record_hit", "rpc_tool",
             "read_resource", "get_prompt", "local"}

VARIABLES
    kind,     \* what each call is
    call,     \* call -> its coroutine, see NewCall
    clients,  \* calls whose httpx client is open
    hits,     \* <<call, i, entry>>: shown hits still to be recorded, one for
              \* each item of an answer
    shown     \* entry -> how often the QA memory counted it as shown

mvars == <<kind, call, clients, hits, shown>>

(***************************************************************************)
(* phase:  "new", "asking" (a service), "closing" (its httpx client),      *)
(*         "answered", "raised" or "cancelled"                             *)
(* query:  of a GitHub call; reply: what GitHub said, NoReply if cancelled *)
(* items:  the QA entry it is about, or the list of those it shows         *)
(* answer: the content, one element for each TextContent                   *)
(***************************************************************************)
NewCall == [phase |-> "new", query |-> "none", reply |-> NoReply,
            items |-> <<>>, answer |-> <<>>]

CallsInit ==
    /\ kind \in Scenarios
    /\ call = [c \in Call |-> NewCall]
    /\ clients = {} /\ hits = {}
    /\ shown = [q \in QA |-> 0]

Running(c) == call[c].phase \in {"asking", "closing"}

-----------------------------------------------------------------------------
Update(c, record) == call' = [call EXCEPT ![c] = record]

\* call_tool returns the result as content: a list item by item, anything
\* else as one text.
Answered(c, content) ==
    Update(c, [call[c] EXCEPT !.phase = "answered", !.answer = content])

\* call_tool answers an exception of a tool as text; of a resource or prompt
\* it is raised.
Failed(c, exception) ==
    IF kind[c] \in {"read_resource", "get_prompt"}
    THEN Update(c, [call[c] EXCEPT !.phase = "raised"])
    ELSE Answered(c, <<exception>>)

\* Without a token the constructor raises before there is a client.
CallGitHub(c) ==
    /\ kind[c] = "github" /\ call[c].phase = "new"
    /\ \/ Failed(c, "ValueError") /\ UNCHANGED clients
       \/ \E q \in Queries :
             /\ Update(c, [NewCall EXCEPT !.phase = "asking", !.query = q])
             /\ clients' = clients \cup {c}
    /\ UNCHANGED <<kind, hits, shown>>

CallRpc(c) ==
    /\ kind[c] \notin {"github", "get_prompt", "local"} /\ call[c].phase = "new"
    /\ \E q \in QA :
          Update(c, [NewCall EXCEPT !.phase = "asking",
                        !.items = IF kind[c] = "qa_record_hit" THEN <<q>> ELSE <<>>])
    /\ UNCHANGED <<kind, clients, hits, shown>>

\* A prompt is rendered or its arguments do not fit, a document number that is
\* none refused, a list made and an unknown tool answered, all at once.
CallLocal(c) ==
    /\ kind[c] \in {"get_prompt", "read_resource", "local"} /\ call[c].phase = "new"
    /\ \/ Answered(c, <<"text">>)
       \/ kind[c] # "read_resource" /\ Failed(c, "ToolError")
    /\ UNCHANGED <<kind, clients, hits, shown>>

Begin(c) == CallGitHub(c) \/ CallRpc(c) \/ CallLocal(c)

-----------------------------------------------------------------------------
(* GitHub *)

Asked(c, k) == kind[c] = k /\ call[c].phase = "asking"

GitHubReplies(c) ==
    /\ Asked(c, "github")
    /\ \E r \in Replies[call[c].query] :
          Update(c, [call[c] EXCEPT !.phase = "closing", !.reply = r])
    /\ UNCHANGED <<kind, clients, hits, shown>>

\* Mutant: the httpx client is made without a timeout.
NeverTimesOut(c) == FALSE

\* httpx.Timeout(GITHUB_API_TIMEOUT)
GitHubTimesOut(c) ==
    /\ Asked(c, "github")
    /\ Update(c, [call[c] EXCEPT !.phase = "closing",
                                 !.reply = [NoReply EXCEPT !.sent = "timeout"]])
    /\ UNCHANGED <<kind, clients, hits, shown>>

\* `async with` closes the client, then the call is over.
CloseClient(c) ==
    LET r == call[c].reply
        result == Outcome(call[c].query, r)
    IN
    /\ kind[c] = "github" /\ call[c].phase = "closing"
    /\ clients' = clients \ {c}
    /\ IF r = NoReply THEN Update(c, [call[c] EXCEPT !.phase = "cancelled"])
       ELSE IF result = "data" THEN Answered(c, Nodes(call[c].query, r))
       ELSE Failed(c, result)
    /\ UNCHANGED <<kind, hits, shown>>

-----------------------------------------------------------------------------
(* RPC *)

\* One hit for each item, repeated entries not left out.
Listing(c, items) == {<<c, i, items[i]>> : i \in DOMAIN items}

\* Mutant: the hook is started from the raw results, before _format_result_item.
HookBeforeFormat(c, items, malformed) ==
    /\ hits' = hits \cup Listing(c, items)
    /\ IF malformed THEN Failed(c, "KeyError")
       ELSE Update(c, [call[c] EXCEPT !.phase = "answered", !.items = items,
                                      !.answer = <<"text">>])

\* retrieve_qa_kb once the results are there: a result without qa_id raises
\* before the hook is started; the hook does not delay the answer.
Retrieved(c, items, malformed) ==
    IF malformed THEN Failed(c, "KeyError") /\ UNCHANGED hits
    ELSE /\ hits' = hits \cup Listing(c, items)
         /\ Update(c, [call[c] EXCEPT !.phase = "answered", !.items = items,
                                      !.answer = <<"text">>])

RetrieveReplies(c) ==
    /\ Asked(c, "retrieve_qa_kb")
    /\ \/ Failed(c, "RpcError") /\ UNCHANGED hits
       \/ \E items \in Results, malformed \in BOOLEAN : Retrieved(c, items, malformed)
    /\ UNCHANGED <<kind, clients, shown>>

\* An explicit hit is also a shown one, unless the caller says otherwise.
RecordReplies(c) ==
    /\ Asked(c, "qa_record_hit")
    /\ \E counted \in BOOLEAN :
          shown' = [q \in QA |-> shown[q] + IF counted /\ call[c].items = <<q>> THEN 1 ELSE 0]
    /\ Answered(c, <<"text">>) \/ Failed(c, "RpcError")
    /\ UNCHANGED <<kind, clients, hits>>

\* The one resource is a template: the library runs its function, and so the
\* RPC, within get_resource, which read_resource awaits before wait_for; what
\* RESOURCE_READ_TIMEOUT bounds is over at once.
RpcReplies(c) ==
    /\ Asked(c, "rpc_tool") \/ Asked(c, "read_resource")
    /\ Answered(c, <<"text">>) \/ Failed(c, "RpcError")
    /\ UNCHANGED <<kind, clients, hits, shown>>

\* The hook's RPC for one entry, with the exceptions gathered and dropped.
RecordShown(h) ==
    /\ h \in hits
    /\ hits' = hits \ {h}
    /\ \/ shown' = [shown EXCEPT ![h[3]] = @ + 1]
       \/ UNCHANGED shown
    /\ UNCHANGED <<kind, call, clients>>

-----------------------------------------------------------------------------
\* What a cancellation makes of a call: an open client is still closed.
Cancelled(c) ==
    IF ~Running(c) THEN call[c]
    ELSE [call[c] EXCEPT !.phase = IF c \in clients THEN "closing" ELSE "cancelled",
                         !.reply = NoReply]

Withdraw(c) ==
    /\ Running(c) /\ call[c] # Cancelled(c)
    /\ Update(c, Cancelled(c))
    /\ UNCHANGED <<kind, clients, hits, shown>>

\* The session is over: its task group is cancelled, hooks are no part of it.
CancelCalls == call' = [c \in Call |-> Cancelled(c)]

\* asyncio.run cancels every task that is left and waits for it.
CancelTasks ==
    /\ call' = [c \in Call |-> IF Running(c) THEN [call[c] EXCEPT !.phase = "cancelled",
                                                                  !.reply = NoReply]
                               ELSE call[c]]
    /\ clients' = {} /\ hits' = {}

Progress(c) ==
    \/ GitHubTimesOut(c) \/ CloseClient(c)
    \/ RetrieveReplies(c) \/ RecordReplies(c) \/ RpcReplies(c)

-----------------------------------------------------------------------------
\* A GitHub tool shows items exactly if nothing in the reply speaks against
\* it: then all that are not null, and else it names the failure.  The last
\* permitted call of a window counts as a failure (remaining is zero), an
\* empty result is told from a failed one, and a limit is only blamed when
\* GitHub named it.
GitHubAnswerIsTrue ==
    \A c \in Call : kind[c] = "github" /\ call[c].phase = "answered"
                    /\ call[c].reply # NoReply =>
        LET r == call[c].reply
            a == call[c].answer
            fine == /\ r.sent = "answered" /\ r.status = "ok" /\ r.json
                    /\ r.errors = {} /\ r.remaining # "zero" /\ r.depth > 0
                    /\ ~NullSearch(call[c].query, r)
            items == {i \in DOMAIN a : a[i] \in {"node", "empty"}}
        IN  /\ fine <=> items = DOMAIN a
            /\ fine => Cardinality({i \in DOMAIN a : a[i] = "node"}) =
                       IF r.depth = Len(Path[call[c].query]) + 1
                       THEN Cardinality({i \in DOMAIN r.nodes : r.nodes[i] = "node"})
                       ELSE 0
            /\ ~fine => Len(a) = 1 /\ items = {}
            /\ a = <<"RateLimitError">> => r.remaining = "zero" \/ "rate" \in r.errors
            /\ a = <<"NetworkTimeoutError">> <=> r.sent = "timeout"

\* The QA memory counts an entry as shown at most once for each place in an
\* answer that lists it (an entry that a search returns twice counts twice),
\* and once for each explicit report: not for a call that failed after the
\* search or was withdrawn, however the hooks, which outlive their call, and
\* later calls interleave.
HitsWereShown ==
    LET listed == UNION {Listing(c, call[c].items) : c \in
                            {d \in Call : \/ kind[d] = "qa_record_hit"
                                          \/ call[d].phase = "answered"}}
    IN  \A q \in QA : shown[q] + Cardinality({h \in hits : h[3] = q})
                          <= Cardinality({h \in listed : h[3] = q})
=============================================================================
