--------------------------- MODULE MCApplication ---------------------------
(***************************************************************************)
(* A small instance of Application for TLC: two calls, of GitHub or of the *)
(* QA memory, in every configuration.                                      *)
(***************************************************************************)
EXTENDS Application, TLC

CONSTANTS c1, c2, q1, q2

MCScenarios ==
    {c1 :> "github" @@ c2 :> k : k \in {"get_prompt", "local"}} \cup
    {c1 :> "retrieve_qa_kb" @@ c2 :> k :
        k \in {"retrieve_qa_kb", "qa_record_hit", "rpc_tool", "read_resource"}}

MCQueries == {"search_repositories", "get_commits", "get_readme"}

Reply(status, remaining, errors, depth, nodes) ==
    [sent |-> "answered", status |-> status, remaining |-> remaining, json |-> TRUE,
     errors |-> errors, depth |-> depth, nodes |-> nodes]

\* A search of the QA memory finds nothing, two entries, or one of them twice.
MCResults == {<<>>, <<q1>>, <<q1, q2>>, <<q2, q2>>}

\* For each query no data, a null at the first key or on the way, and data with
\* or without a null element; beside each every error.
MCReplies == [q \in MCQueries |->
    {[NoReply EXCEPT !.sent = "unreachable"],
     [Reply("ok", "some", {}, 0, <<>>) EXCEPT !.json = FALSE]}
    \cup {Reply(s, r, {}, 0, <<>>) : s \in {"401", "403", "other"}, r \in {"zero", "none"}}
    \cup {Reply("ok", r, e, d[1], d[2]) :
            r \in {"zero", "some"}, e \in {{}, {"rate", "auth"}, {"auth", "other"}, {"other"}},
            d \in {<<0, <<>>>>, <<1, <<>>>>, <<2, <<>>>>,
                   <<Len(Path[q]) + 1, IF ReturnsOne(q) THEN <<"node">>
                                       ELSE <<"node", "null", "node">>>>}}]
=============================================================================
