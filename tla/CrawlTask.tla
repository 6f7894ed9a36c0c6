----------------------------- MODULE CrawlTask -----------------------------
(***************************************************************************)
(* Background crawl jobs: the Redis hash `aduib_task:{task_id}` that       *)
(* handle_crawl_job and its _runner write and handle_task_status reads and *)
(* deletes (service/crawl4ai_service.py), with the notification handler of *)
(* service/notify.py that _runner calls.                                   *)
(*                                                                         *)
(* Redis commands are synchronous: in one process no other coroutine runs  *)
(* between two of them.  If several server processes share the Redis, the  *)
(* commands of different processes interleave.  A process may die between  *)
(* two commands; Redis keeps the hash.                                     *)
(***************************************************************************)
EXTENDS Naturals, Functions

CONSTANTS
    Task,      \* task ids, fresh for every job
    Client,    \* who polls /crawl/job/{task_id}
    NoTask,
    CLEANUP,   \* ttl_seconds = 3600 of should_cleanup_task, in ticks
    WEEK       \* timedelta(days=7), in ticks

ASSUME TimesAssumption == CLEANUP \in Nat /\ WEEK \in Nat /\ WEEK > 0
ASSUME ConstantsAssumption == NoTask \notin Task

VARIABLES
    record,    \* task -> the hash in Redis; no fields: no such key
    ttl,       \* task -> ticks until Redis drops the key; WEEK + 1: never
    age,       \* task -> now - created_at, saturating at CLEANUP + 1
    pc,        \* task -> where its job is
    crawled,   \* task -> result stored, and no Redis error so far? (observed)
    polling,   \* client -> the task whose key it is about to delete
    answer,    \* task -> the answer to the last poll of it (observed)
    shared     \* do several server processes use this Redis?

vars == <<record, ttl, age, pc, crawled, polling, answer, shared>>

Field == {"status", "created_at", "url", "result", "error"}
TaskStatus == {"processing", "completed", "failed"}
Terminal == {"completed", "failed"}
Answer == {"none", "404", "500", "processing", "completed", "failed"}
PC == {"none", "queued", "crawling", "completed", "expiring", "failing", "done",
       "lost", "dead"}

Absent == [f \in {} |-> ""]
Exists(t) == record[t] # Absent
Never == WEEK + 1
Older(n) == IF n <= CLEANUP THEN n + 1 ELSE n

Init ==
    /\ record = [t \in Task |-> Absent]
    /\ ttl = [t \in Task |-> Never]
    /\ age = [t \in Task |-> 0]
    /\ pc = [t \in Task |-> "none"]
    /\ crawled = [t \in Task |-> FALSE]
    /\ polling = [c \in Client |-> NoTask]
    /\ answer = [t \in Task |-> "none"]
    /\ shared \in BOOLEAN

-----------------------------------------------------------------------------
(* Redis *)

\* HSET sets the given fields of a hash, creates the key if it is absent and
\* leaves a time to live alone.
Merge(h, fields) ==
    [f \in DOMAIN h \cup DOMAIN fields |->
        IF f \in DOMAIN fields THEN fields[f] ELSE h[f]]
\* Mutant: the hash is replaced, which drops its other fields and its TTL.
SetInstead(t, fields) ==
    /\ record' = [record EXCEPT ![t] = fields]
    /\ ttl' = [ttl EXCEPT ![t] = Never]
HSet(t, fields) ==
    /\ record' = [record EXCEPT ![t] = Merge(@, fields)]
    /\ UNCHANGED ttl

\* Between two commands of one process nothing else runs in it.
InLoop == {"completed", "expiring", "failing"}
LoopFree == \/ shared
            \/ /\ \A t \in Task : pc[t] \notin InLoop
               /\ \A c \in Client : polling[c] = NoTask

-----------------------------------------------------------------------------
(* handle_crawl_job *)

NewRecord ==
    [f \in Field |-> CASE f = "status" -> "processing"
                       [] f = "created_at" -> "time"
                       [] f = "url" -> "urls"
                       [] OTHER -> ""]

Submit(t) ==
    /\ LoopFree
    /\ pc[t] = "none"
    /\ HSet(t, NewRecord)
    /\ pc' = [pc EXCEPT ![t] = "queued"]
    /\ age' = [age EXCEPT ![t] = 0]
    /\ UNCHANGED <<crawled, polling, answer, shared>>

(* _runner *)

\* The background task starts once the response is out.
Start(t) ==
    /\ LoopFree
    /\ pc[t] = "queued"
    /\ pc' = [pc EXCEPT ![t] = "crawling"]
    /\ UNCHANGED <<record, ttl, age, crawled, polling, answer, shared>>

Completed == [f \in {"status", "result"} |->
                 IF f = "status" THEN "completed" ELSE "content"]
Failed == [f \in {"status", "error"} |->
              IF f = "status" THEN "failed" ELSE "message"]

\* Mutant: the result is stored by a command of its own, later.
CompletedEarly == [f \in {"status"} |-> "completed"]
CrawlOkStatusFirst(t) ==
    /\ LoopFree
    /\ pc[t] = "crawling"
    /\ crawled' = [crawled EXCEPT ![t] = TRUE]
    /\ HSet(t, CompletedEarly)
    /\ pc' = [pc EXCEPT ![t] = "completed"]
    /\ UNCHANGED <<age, polling, answer, shared>>

\* handle_crawl_request returns a dict, success or not: json.dumps and HSET.
CrawlOk(t) ==
    /\ LoopFree
    /\ pc[t] = "crawling"
    /\ crawled' = [crawled EXCEPT ![t] = TRUE]
    /\ HSet(t, Completed)
    /\ pc' = [pc EXCEPT ![t] = "completed"]
    /\ UNCHANGED <<age, polling, answer, shared>>

\* Mutant: the error is logged and not recorded.
CrawlErrorUnrecorded(t) ==
    /\ LoopFree
    /\ pc[t] = "crawling"
    /\ pc' = [pc EXCEPT ![t] = "done"]
    /\ UNCHANGED <<record, ttl, age, crawled, polling, answer, shared>>

\* handle_crawl_request raises, or stream = True made it return a generator,
\* which json.dumps refuses.
CrawlError(t) ==
    /\ LoopFree
    /\ pc[t] = "crawling"
    /\ pc' = [pc EXCEPT ![t] = "failing"]
    /\ UNCHANGED <<record, ttl, age, crawled, polling, answer, shared>>

\* Mutant: a time to live of nothing.
ExpireAtOnce(t) ==
    /\ pc[t] = "completed"
    /\ ttl' = [ttl EXCEPT ![t] = 0]
    /\ pc' = [pc EXCEPT ![t] = "expiring"]
    /\ UNCHANGED <<record, age, crawled, polling, answer, shared>>

\* EXPIRE does nothing if the key is gone.
Expire(t) ==
    /\ pc[t] = "completed"
    /\ ttl' = IF Exists(t) THEN [ttl EXCEPT ![t] = WEEK] ELSE ttl
    /\ pc' = [pc EXCEPT ![t] = "expiring"]
    /\ UNCHANGED <<record, age, crawled, polling, answer, shared>>

\* notify_handler is always there, because the controller passes
\* str(payload.notify_url), at least "None".  notify reads result.notify_url
\* of the dict that was crawled: AttributeError, caught by _runner.
Notify(t) ==
    /\ pc[t] = "expiring"
    /\ pc' = [pc EXCEPT ![t] = "failing"]
    /\ UNCHANGED <<record, ttl, age, crawled, polling, answer, shared>>

\* Mutants: a failed job starts over; its record is dropped first.
MarkFailedRetries(t) ==
    /\ pc[t] = "failing"
    /\ HSet(t, NewRecord)
    /\ pc' = [pc EXCEPT ![t] = "queued"]
    /\ UNCHANGED <<age, crawled, polling, answer, shared>>
MarkFailedReplaces(t) ==
    /\ pc[t] = "failing"
    /\ SetInstead(t, Failed)
    /\ pc' = [pc EXCEPT ![t] = "done"]
    /\ UNCHANGED <<age, crawled, polling, answer, shared>>

\* except Exception
MarkFailed(t) ==
    /\ pc[t] = "failing"
    /\ HSet(t, Failed)
    /\ pc' = [pc EXCEPT ![t] = "done"]
    /\ UNCHANGED <<age, crawled, polling, answer, shared>>

\* A command of _runner raises: the first ones lead to `except`; an error of
\* the HSET there leaves _runner, and the end of the job is lost.
RedisError(t) ==
    /\ \/ LoopFree /\ pc[t] = "crawling"
       \/ pc[t] \in {"completed", "failing"}
    /\ pc' = [pc EXCEPT ![t] = IF pc[t] = "failing" THEN "lost" ELSE "failing"]
    /\ crawled' = [crawled EXCEPT ![t] = FALSE]
    /\ UNCHANGED <<record, ttl, age, polling, answer, shared>>

\* The process dies, or the loop is torn down: CancelledError is no Exception.
Die(t) ==
    /\ pc[t] \in {"queued", "crawling"} \cup InLoop
    /\ pc' = [pc EXCEPT ![t] = "dead"]
    /\ UNCHANGED <<record, ttl, age, crawled, polling, answer, shared>>

-----------------------------------------------------------------------------
(* handle_task_status *)

\* create_task_response: `result` and `error` are read under their status
\* only; a missing field is a KeyError, answered 500.
Response(h) ==
    IF h = Absent THEN "404"
    ELSE IF \/ ~({"status", "created_at", "url"} \subseteq DOMAIN h)
            \/ h["status"] = "completed" /\ "result" \notin DOMAIN h
            \/ h["status"] = "failed" /\ "error" \notin DOMAIN h
         THEN "500"
         ELSE h["status"]

\* Mutant: the status is not looked at.
CleanupAnyStatus(t) == Response(record[t]) \in TaskStatus /\ age[t] > CLEANUP
Cleanup(t) == Response(record[t]) \in Terminal /\ age[t] > CLEANUP

\* HGETALL, and the answer; an old finished record is deleted next.
Poll(c, t) ==
    /\ LoopFree
    /\ polling[c] = NoTask
    /\ pc[t] # "none"
    /\ answer' = [answer EXCEPT ![t] = Response(record[t])]
    /\ polling' = [polling EXCEPT ![c] = IF Cleanup(t) THEN t ELSE NoTask]
    /\ UNCHANGED <<record, ttl, age, pc, crawled, shared>>

Gone(t) ==
    /\ record' = [record EXCEPT ![t] = Absent]
    /\ ttl' = [ttl EXCEPT ![t] = Never]

Delete(c) ==
    /\ polling[c] # NoTask
    /\ Gone(polling[c])
    /\ polling' = [polling EXCEPT ![c] = NoTask]
    /\ UNCHANGED <<age, pc, crawled, answer, shared>>

-----------------------------------------------------------------------------
\* Time passes for created_at; Redis counts down and drops expired keys.  The
\* commands of one process follow each other within a tick.
Tick ==
    /\ LoopFree
    /\ age' = [t \in Task |-> IF pc[t] = "none" THEN 0 ELSE Older(age[t])]
    /\ ttl' = [t \in Task |-> IF ttl[t] \in {Never, 1} THEN Never
                              ELSE ttl[t] - 1]
    /\ record' = [t \in Task |-> IF ttl[t] = 1 THEN Absent ELSE record[t]]
    /\ UNCHANGED <<pc, crawled, polling, answer, shared>>

Runner(t) ==
    \/ Start(t) \/ CrawlOk(t) \/ CrawlError(t) \/ Expire(t) \/ Notify(t)
    \/ MarkFailed(t) \/ RedisError(t)

Next ==
    \/ \E t \in Task : Submit(t) \/ Runner(t) \/ Die(t)
    \/ \E c \in Client : (\E t \in Task : Poll(c, t)) \/ Delete(c)
    \/ Tick

Spec == Init /\ [][Next]_vars

\* The event loop runs the background task, a crawl ends (its page timeouts
\* see to that), and time passes.  Nobody is obliged to poll.
Fairness ==
    /\ \A t \in Task : SF_vars(Runner(t))
    /\ \A c \in Client : WF_vars(Delete(c))
    /\ WF_vars(Tick)

FairSpec == Spec /\ Fairness

-----------------------------------------------------------------------------
(* Properties *)

\* Each variable stays in its range.
TypeOK ==
    /\ \A t \in Task : /\ DOMAIN record[t] \subseteq Field
                       /\ "status" \in DOMAIN record[t] =>
                             record[t]["status"] \in TaskStatus
    /\ ttl \in [Task -> 1..Never]
    /\ age \in [Task -> 0..(CLEANUP + 1)]
    /\ pc \in [Task -> PC]
    /\ crawled \in [Task -> BOOLEAN]
    /\ polling \in [Client -> Task \cup {NoTask}]
    /\ answer \in [Task -> Answer]
    /\ shared \in BOOLEAN

\* A whole record: every field handle_task_status may read.
Whole(h) == DOMAIN h = Field

\* With one process the record is whole as long as it exists: no poll deletes
\* it between two commands of _runner, whose next HSET would bring it back
\* without created_at and url.  So no poll of a job ends in KeyError.
RecordIsWhole == ~shared => \A t \in Task : Exists(t) => Whole(record[t])

\* A stored status never goes back, whoever writes it: processing, completed,
\* failed.  In particular no record that says "processing" is deleted; one that
\* says "completed" may be, in several processes also before its job has written
\* its last status.
Rank(h) ==
    IF h = Absent THEN 3
    ELSE CASE h["status"] = "processing" -> 0
           [] h["status"] = "completed" -> 1
           [] h["status"] = "failed" -> 2
StatusOnlyAdvances ==
    [][\A t \in Task : Exists(t) =>
          /\ Rank(record[t]) <= Rank(record'[t])
          /\ Rank(record[t]) = 0 => record'[t] # Absent]_vars

\* A record that says "completed" has the content, and one that says "failed"
\* has the message, at every moment a poll of any process can read it.
StatusHasItsPayload ==
    \A t \in Task : Exists(t) =>
        LET h == record[t]
        IN  /\ h["status"] = "completed" =>
                  "result" \in DOMAIN h /\ h["result"] = "content"
            /\ h["status"] = "failed" =>
                  "error" \in DOMAIN h /\ h["error"] = "message"

\* Every job ends with its end on record, unless its process dies or Redis fails
\* the last write: then the record, if it still exists, says "completed" or
\* "failed", so that no poll waits for the job for good.
JobEnds ==
    \A t \in Task :
        pc[t] = "queued" ~> \/ pc[t] \in {"lost", "dead"}
                            \/ /\ pc[t] = "done"
                               /\ Exists(t) => record[t]["status"] \in Terminal

\* A record that was given its week disappears, also when it is marked failed
\* after that.
WeekEnds == \A t \in Task : ttl[t] = WEEK ~> ~Exists(t)

\* handle_crawl_job: it "lets /crawl/job/{task_id} polling fetch the result".
\* No poll answers "failed" for a job whose result was stored.
PollFetchesResult ==
    [][\A t \in Task : crawled[t] /\ answer'[t] # answer[t] =>
          answer'[t] # "failed"]_vars
=============================================================================
