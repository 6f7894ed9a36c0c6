---------------------------- MODULE GitHubClient ----------------------------
(***************************************************************************)
(* What service/github_graphql_client.py makes of a reply of GitHub: the   *)
(* error cases of _execute in their order, and the list, dictionary or     *)
(* text that a query digs out of the data.  A reply is a record            *)
(*   sent       "timeout", "unreachable" or "answered"                     *)
(*   status     "ok", "401", "403" or "other"                              *)
(*   remaining  X-RateLimit-Remaining: "zero", "some", or "none" when the  *)
(*              header is absent or no number                              *)
(*   json       whether the body is JSON, then an object as GraphQL says   *)
(*   errors     what its errors are: a subset of ErrorKind                 *)
(*   depth      how many keys on the query's Path, counting `data`, are    *)
(*              not null; a key a query asks for is always there           *)
(*   nodes      what is at the end of the Path; list elements may be null  *)
(***************************************************************************)
EXTENDS Naturals, Sequences, FiniteSets

ErrorKind == {"rate", "auth", "other"}

ReplyType == [sent : {"timeout", "unreachable", "answered"},
              status : {"none", "ok", "401", "403", "other"},
              remaining : {"none", "zero", "some"}, json : BOOLEAN,
              errors : SUBSET ErrorKind, depth : Nat, nodes : Seq({"node", "null"})]

NoReply == [sent |-> "none", status |-> "none", remaining |-> "none", json |-> FALSE,
            errors |-> {}, depth |-> 0, nodes |-> <<>>]

\* The keys from the data of a query down to what it returns.
Path == [search_repositories |-> <<"search", "nodes">>,
         search_issues       |-> <<"search", "nodes">>,
         search_code         |-> <<"search", "nodes">>,
         get_repository      |-> <<"repository">>,
         get_pull_requests   |-> <<"repository", "pullRequests", "nodes">>,
         get_commits         |-> <<"repository", "defaultBranchRef", "target",
                                   "history", "nodes">>,
         get_releases        |-> <<"repository", "releases", "nodes">>,
         get_readme          |-> <<"repository", "object", "text">>]

\* These return one dictionary or text, the others a list.
ReturnsOne(query) == query \in {"get_repository", "get_readme"}

_is_rate_limited(reply, errors) == reply.remaining = "zero" \/ "rate" \in errors

_contains_auth_error(errors) == "auth" \in errors

\* Mutant: partial data is shown, and the errors beside it are not.
CasesWithoutErrors(reply) == <<
    <<reply.sent = "timeout", "NetworkTimeoutError">>,
    <<reply.sent = "unreachable", "GitHubGraphQLError">>,
    <<reply.status = "401", "AuthenticationError">>,
    <<reply.status = "403" /\ _is_rate_limited(reply, {}), "RateLimitError">>,
    <<reply.status # "ok" \/ ~reply.json, "GitHubGraphQLError">>,
    <<_is_rate_limited(reply, reply.errors), "RateLimitError">>,
    <<_contains_auth_error(reply.errors), "AuthenticationError">>,
    <<reply.depth = 0, "GitHubGraphQLError">>,
    <<TRUE, "data">> >>

\* The cases of _execute in the order of the code; the first that applies
\* counts.  Of the HTTP errors only a 403 can be a rate limit, a 429 never is,
\* and the header is looked at even beside data.
Cases(reply) == <<
    <<reply.sent = "timeout", "NetworkTimeoutError">>,
    <<reply.sent = "unreachable", "GitHubGraphQLError">>,
    <<reply.status = "401", "AuthenticationError">>,
    <<reply.status = "403" /\ _is_rate_limited(reply, {}), "RateLimitError">>,
    <<reply.status # "ok" \/ ~reply.json, "GitHubGraphQLError">>,
    <<_is_rate_limited(reply, reply.errors), "RateLimitError">>,
    <<_contains_auth_error(reply.errors), "AuthenticationError">>,
    <<reply.errors # {} \/ reply.depth = 0, "GitHubGraphQLError">>,
    <<TRUE, "data">> >>

_execute(reply) ==
    LET applies == {i \in DOMAIN Cases(reply) : Cases(reply)[i][1]}
        first == CHOOSE i \in applies : \A j \in applies : i <= j
    IN  Cases(reply)[first][2]

\* The three searches have no `or {}` behind data.get("search", {}): of a null
\* there, the next .get raises.
NullSearch(query, reply) == Path[query][1] = "search" /\ reply.depth = 1

\* What becomes of a query: "data", or the exception its tool answers with.
Outcome(query, reply) ==
    IF _execute(reply) = "data" /\ NullSearch(query, reply) THEN "AttributeError"
    ELSE _execute(reply)

\* `or {}` and `or []` at every other key: a null there is an empty result.
\* The list comprehension drops null elements; what is left are nodes alike.
Nodes(query, reply) ==
    LET found == IF reply.depth = Len(Path[query]) + 1 THEN reply.nodes ELSE <<>>
        some == [i \in 1..Cardinality({j \in DOMAIN found : found[j] # "null"}) |-> "node"]
    IN  IF ReturnsOne(query) /\ some = <<>> THEN <<"empty">> ELSE some
=============================================================================
