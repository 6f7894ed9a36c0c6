--------------------------- MODULE RemoteRules ---------------------------
(***************************************************************************)
(* Where CRAWL_RULES comes from: init_crawler_env, the two ConfigLoaders   *)
(* and the listener half of configs/remote/nacos/client.py.  The Nacos     *)
(* server, not part of the repository, answers a read with any document    *)
(* and calls a registered listener with any document at any time.          *)
(***************************************************************************)
EXTENDS CrawlRules, FiniteSets, Naturals

CONSTANTS
    FileDocs,    \* what the rules file may hold; NoDoc: it does not exist
    RemoteDocs,  \* what the Nacos server may hold; NoDoc: nothing published
    MaxPush      \* bound on the number of calls of the listener

ASSUME MaxPushAssumption == MaxPush \in Nat

VARIABLES
    CRAWL_RULES,
    config_cache,  \* NacosClient.config_cache[data_id], NoDoc when absent
    listener,      \* "none", "pending" (its task is to run) or "registered"
    pushes,        \* how often the listener was called
    up             \* "starting", "up" or "crashed"

rvars == <<CRAWL_RULES, config_cache, listener, pushes, up>>

RulesInit ==
    /\ CRAWL_RULES = <<>>
    /\ config_cache = NoDoc
    /\ listener = "none"
    /\ pushes = 0
    /\ up = "starting"

\* init_crawler_env, once load() has given a document or raised (NoDoc).
\* json.loads and the loop over its result are outside the try.
AppendRules(doc) ==
    IF doc.kind \in {"text", "null"}
    THEN up' = "crashed" /\ UNCHANGED CRAWL_RULES
    ELSE /\ up' = "up"
         /\ CRAWL_RULES' = ValidPart(IF doc = NoDoc THEN Defaults ELSE doc)

LoadFile ==
    /\ up = "starting"
    /\ \E doc \in FileDocs : AppendRules(doc)
    /\ UNCHANGED <<config_cache, listener, pushes>>

\* load() itself parses what the server answers, so text that is not JSON
\* raises in it, as a server out of reach does, while nothing published
\* becomes the string "null".
NacosAnswer(doc) == CASE doc = NotJson -> NoDoc
                      [] doc = NoDoc   -> Null
                      [] OTHER         -> doc

\* The constructor leaves a task behind that will register the listener; it
\* cannot run before init_crawler_env is over.
LoadNacos ==
    /\ up = "starting"
    /\ listener' = "pending"
    /\ \E answer \in RemoteDocs \cup {NotJson} : AppendRules(NacosAnswer(answer))
    /\ UNCHANGED <<config_cache, pushes>>

Load == LoadFile \/ LoadNacos

\* register_config_listener logs an error and gives up: no push will ever
\* reach this process then.
Register ==
    /\ listener = "pending" /\ up = "up"
    /\ listener' \in {"registered", "none"}
    /\ UNCHANGED <<CRAWL_RULES, config_cache, pushes, up>>

\* Mutant: the new groups are appended to the old ones.
ChangeWithoutClear(doc) == CRAWL_RULES' = CRAWL_RULES \o ValidPart(doc)

\* clear(), then append what validates.  The loop over None raises after the
\* clear, and ConfigWatcher logs that.
change_crawl_rule(doc) == CRAWL_RULES' = ValidPart(doc)

\* ConfigWatcher: text that is not JSON raises before anything is written.
ConfigWatcher ==
    /\ listener = "registered" /\ pushes < MaxPush
    /\ pushes' = pushes + 1
    /\ \E doc \in (RemoteDocs \cup {NotJson}) \ {NoDoc} :
          IF doc = NotJson THEN UNCHANGED <<CRAWL_RULES, config_cache>>
          ELSE config_cache' = doc /\ change_crawl_rule(doc)
    /\ UNCHANGED <<listener, up>>

RulesNext == Load \/ Register \/ ConfigWatcher

-----------------------------------------------------------------------------
\* The rules in force are the valid part of one document: of the one the
\* listener last accepted, which is also what config_cache holds, and before
\* that of what start-up read or of the defaults.  A push that is rejected or
\* fails halfway never leaves groups of two documents in force.
RulesAreOneSet ==
    up = "up" =>
        IF config_cache # NoDoc THEN CRAWL_RULES = ValidPart(config_cache)
        ELSE \E doc \in FileDocs \cup RemoteDocs \cup {Defaults} :
                 CRAWL_RULES = ValidPart(doc)
=============================================================================
