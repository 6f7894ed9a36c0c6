---------------------------- MODULE CrawlerPool ----------------------------
(***************************************************************************)
(* The pool of shared browsers of component/crawl4ai/crawler_pool.py.      *)
(*                                                                         *)
(* One asyncio event loop runs request tasks that call get_crawler, the    *)
(* janitor task and close_all.  They share the dictionaries POOL and       *)
(* LAST_USED and one asyncio.Lock, LOCK.  A step of this module is the     *)
(* code between two suspension points: a wait for LOCK, the await of a     *)
(* browser's start() or close(), the janitor's sleep.  The tail            *)
(*     finally: if sig in POOL: LAST_USED[sig] = time.time() else: pop     *)
(* of get_crawler runs after LOCK has been released, and also when the     *)
(* task is cancelled at one of those points.                               *)
(***************************************************************************)
EXTENDS Integers, Sequences, Functions

CONSTANTS
    Task,          \* request tasks that call get_crawler
    Janitor,       \* the task that runs janitor()
    Closer,        \* the task that runs close_all()
    NoActor,       \* LOCK is free
    Sig,           \* browser signatures, the values of _sig(cfg)
    Crawler,       \* AsyncWebCrawler objects
    NoCrawler,     \* a task holds no crawler
    IDLE_TTL_SEC,  \* config.IDLE_TTL_SEC, in ticks of the clock
    MaxTime        \* bound on the clock

Actor == Task \cup {Janitor, Closer}

ASSUME ActorsDistinct ==
    /\ Janitor \notin Task /\ Closer \notin Task /\ Janitor # Closer
    /\ NoActor \notin Actor
ASSUME CrawlerAssumption == NoCrawler \notin Crawler
ASSUME TimeAssumption == IDLE_TTL_SEC \in Nat /\ MaxTime \in Nat

VARIABLES
    POOL,       \* signature -> pooled crawler
    LAST_USED,  \* signature -> time of its last use
    owner,      \* the actor that holds LOCK, or NoActor
    waiters,    \* LOCK._waiters: who waits for LOCK, first come first served
    pc,         \* where each actor is suspended
    sig,        \* the signature each task asks for
    crawler,    \* the crawler each task starts, evicts or uses
    browser,    \* the browser process behind each crawler object
    clock,      \* time.time()
    now,        \* the janitor's local `now`
    todo,       \* what is left of the janitor's list(POOL.items())
    reap,       \* the signature whose crawler the janitor is closing
    since       \* when each task was handed its crawler (observation only)

vars == <<POOL, LAST_USED, owner, waiters, pc, sig, crawler, browser, clock,
          now, todo, reap, since>>

WaitingPC == {"lock1", "lockM", "lock2"}
TaskPC == {"idle", "evicting", "starting", "using"} \cup WaitingPC
JanitorPC == {"sleep", "lockJ", "reaping", "cancelled"}
CloserPC == {"idle", "lockC", "gathering"}

\* What a start() that did not succeed, or a close(), leaves of a browser: when
\* it raised or was cancelled the browser may still run, "abandoned".
Ended == {"closed", "abandoned"}
BrowserState == {"starting", "open", "closing"} \cup Ended

Put(f, k, v) == [x \in DOMAIN f \cup {k} |-> IF x = k THEN v ELSE f[x]]
Pop(f, k) == Restrict(f, DOMAIN f \ {k})
IsDict(f, K, V) == DOMAIN f \subseteq K /\ f \in [DOMAIN f -> V]
EmptyDict == [s \in {} |-> NoCrawler]

-----------------------------------------------------------------------------
Init ==
    /\ POOL = EmptyDict
    /\ LAST_USED = EmptyDict
    /\ owner = NoActor
    /\ waiters = <<>>
    /\ pc = [a \in Actor |-> IF a = Janitor THEN "sleep" ELSE "idle"]
    /\ sig \in [Task -> Sig]
    /\ crawler = [t \in Task |-> NoCrawler]
    /\ browser = [c \in Crawler |-> "closed"]
    /\ clock = 0
    /\ now = 0
    /\ todo = {}
    /\ reap \in Sig
    /\ since = [t \in Task |-> 0]

(***************************************************************************)
(* asyncio.Lock: a waiter queues up, the head of the queue gets a free     *)
(* lock, a cancelled waiter leaves the queue.                              *)
(***************************************************************************)
Enqueue(a) == waiters' = Append(waiters, a)

Granted(a) == owner = NoActor /\ waiters # <<>> /\ Head(waiters) = a

Leave(a) ==
    \E i \in 1..Len(waiters) :
        /\ waiters[i] = a
        /\ waiters' = [j \in 1..(Len(waiters) - 1) |->
                          IF j < i THEN waiters[j] ELSE waiters[j + 1]]

\* Mutants: `if sig in POOL` dropped, and the pool entry removed either way.
FinallyAlwaysTouches(t) ==
    /\ LAST_USED' = Put(LAST_USED, sig[t], clock)
    /\ UNCHANGED POOL
FinallyAlwaysPops(t) ==
    /\ LAST_USED' = Pop(LAST_USED, sig[t])
    /\ POOL' = Pop(POOL, sig[t])

\* The `finally` block of get_crawler, run without LOCK.  POOL.pop of an
\* absent signature changes nothing, so only LAST_USED can change.
Finally(t) ==
    /\ LAST_USED' = IF sig[t] \in DOMAIN POOL
                    THEN Put(LAST_USED, sig[t], clock)
                    ELSE Pop(LAST_USED, sig[t])
    /\ UNCHANGED POOL

-----------------------------------------------------------------------------
(* get_crawler *)

GetCrawler(t, s) ==
    /\ pc[t] = "idle"
    /\ pc' = [pc EXCEPT ![t] = "lock1"]
    /\ sig' = [sig EXCEPT ![t] = s]
    /\ Enqueue(t)
    /\ UNCHANGED <<POOL, LAST_USED, owner, crawler, browser, clock, now, todo,
                   reap, since>>

\* `if sig in POOL` under LOCK: hand out the pooled crawler.  The first check
\* and the check after the memory test have the same body.
Hit(t) ==
    /\ pc[t] \in {"lock1", "lock2"}
    /\ Granted(t)
    /\ sig[t] \in DOMAIN POOL
    /\ waiters' = Tail(waiters)
    /\ pc' = [pc EXCEPT ![t] = "using"]
    /\ crawler' = [crawler EXCEPT ![t] = POOL[sig[t]]]
    /\ since' = [since EXCEPT ![t] = clock]
    /\ Finally(t)
    /\ UNCHANGED <<owner, sig, browser, clock, now, todo, reap>>

\* Nothing pooled: psutil is read and the task queues for LOCK again, to evict
\* when memory is critical and to create otherwise.
Miss(t) ==
    /\ pc[t] = "lock1"
    /\ Granted(t)
    /\ sig[t] \notin DOMAIN POOL
    /\ waiters' = Append(Tail(waiters), t)
    /\ \E memory \in {"lockM", "lock2"} : pc' = [pc EXCEPT ![t] = memory]
    /\ UNCHANGED <<POOL, LAST_USED, owner, sig, crawler, browser, clock, now,
                   todo, reap, since>>

Oldest == {s \in DOMAIN LAST_USED :
              \A r \in DOMAIN LAST_USED : LAST_USED[s] <= LAST_USED[r]}

\* Mutant: the entry is not popped.
EvictBeginKeepsEntry(t) ==
    /\ pc[t] = "lockM"
    /\ Granted(t)
    /\ DOMAIN POOL # {}
    /\ \E s \in Oldest :
          /\ crawler' = [crawler EXCEPT ![t] = POOL[s]]
          /\ browser' = [browser EXCEPT ![POOL[s]] = "closing"]
    /\ owner' = t
    /\ waiters' = Tail(waiters)
    /\ pc' = [pc EXCEPT ![t] = "evicting"]
    /\ UNCHANGED <<POOL, LAST_USED, sig, clock, now, todo, reap, since>>

\* check_memory_and_cleanup drops the least recently used entry before it
\* awaits close(), and keeps LOCK until close() is over.
EvictBegin(t) ==
    /\ pc[t] = "lockM"
    /\ Granted(t)
    /\ DOMAIN POOL # {}
    /\ \E s \in Oldest :
          /\ POOL' = Pop(POOL, s)
          /\ LAST_USED' = Pop(LAST_USED, s)
          /\ crawler' = [crawler EXCEPT ![t] = POOL[s]]
          /\ browser' = [browser EXCEPT ![POOL[s]] = "closing"]
    /\ owner' = t
    /\ waiters' = Tail(waiters)
    /\ pc' = [pc EXCEPT ![t] = "evicting"]
    /\ UNCHANGED <<sig, clock, now, todo, reap, since>>

\* Mutant: LOCK taken with acquire() and not released on the way out.
EvictEndKeepsLock(t) ==
    /\ pc[t] = "evicting"
    /\ \E e \in Ended : browser' = [browser EXCEPT ![crawler[t]] = e]
    /\ crawler' = [crawler EXCEPT ![t] = NoCrawler]
    /\ pc' = [pc EXCEPT ![t] = "idle"]
    /\ Finally(t)
    /\ UNCHANGED <<owner, waiters, sig, clock, now, todo, reap, since>>

\* close() has returned, or raised, which is suppressed and forgotten;
\* MemoryError denies the new browser.
EvictEnd(t) ==
    /\ pc[t] = "evicting"
    /\ \E e \in Ended : browser' = [browser EXCEPT ![crawler[t]] = e]
    /\ crawler' = [crawler EXCEPT ![t] = NoCrawler]
    /\ owner' = NoActor
    /\ pc' = [pc EXCEPT ![t] = "idle"]
    /\ Finally(t)
    /\ UNCHANGED <<waiters, sig, clock, now, todo, reap, since>>

EvictNothing(t) ==
    /\ pc[t] = "lockM"
    /\ Granted(t)
    /\ DOMAIN POOL = {}
    /\ waiters' = Tail(waiters)
    /\ pc' = [pc EXCEPT ![t] = "idle"]
    /\ Finally(t)
    /\ UNCHANGED <<owner, sig, crawler, browser, clock, now, todo, reap, since>>

\* Objects nobody refers to: a new AsyncWebCrawler is one of them.
Unreferenced(c) ==
    /\ \A s \in DOMAIN POOL : POOL[s] # c
    /\ \A t \in Task : crawler[t] # c

\* The second `if sig in POOL`.  Mutant: it is left out.
NotChecked(t) == TRUE
StillMissing(t) == sig[t] \notin DOMAIN POOL

Create(t) ==
    /\ pc[t] = "lock2"
    /\ Granted(t)
    /\ StillMissing(t)
    /\ \E c \in Crawler :
          /\ Unreferenced(c)
          /\ crawler' = [crawler EXCEPT ![t] = c]
          /\ browser' = [browser EXCEPT ![c] = "starting"]
    /\ owner' = t
    /\ waiters' = Tail(waiters)
    /\ pc' = [pc EXCEPT ![t] = "starting"]
    /\ UNCHANGED <<POOL, LAST_USED, sig, clock, now, todo, reap, since>>

StartOk(t) ==
    /\ pc[t] = "starting"
    /\ POOL' = Put(POOL, sig[t], crawler[t])
    /\ LAST_USED' = Put(LAST_USED, sig[t], clock)
    /\ browser' = [browser EXCEPT ![crawler[t]] = "open"]
    /\ owner' = NoActor
    /\ pc' = [pc EXCEPT ![t] = "using"]
    /\ since' = [since EXCEPT ![t] = clock]
    /\ UNCHANGED <<waiters, sig, crawler, clock, now, todo, reap>>

\* Mutant: POOL[sig] is assigned also when start() has failed.
StartFailPoolsNone(t) ==
    /\ pc[t] = "starting"
    /\ POOL' = Put(POOL, sig[t], NoCrawler)
    /\ LAST_USED' = Put(LAST_USED, sig[t], clock)
    /\ \E e \in Ended : browser' = [browser EXCEPT ![crawler[t]] = e]
    /\ crawler' = [crawler EXCEPT ![t] = NoCrawler]
    /\ owner' = NoActor
    /\ pc' = [pc EXCEPT ![t] = "idle"]
    /\ UNCHANGED <<waiters, sig, clock, now, todo, reap, since>>

\* Mutant: POOL[sig] is assigned before start(), and an error leaves it there.
StartFailKeepsEntry(t) ==
    /\ pc[t] = "starting"
    /\ POOL' = Put(POOL, sig[t], crawler[t])
    /\ LAST_USED' = Put(LAST_USED, sig[t], clock)
    /\ \E e \in Ended : browser' = [browser EXCEPT ![crawler[t]] = e]
    /\ crawler' = [crawler EXCEPT ![t] = NoCrawler]
    /\ owner' = NoActor
    /\ pc' = [pc EXCEPT ![t] = "idle"]
    /\ UNCHANGED <<waiters, sig, clock, now, todo, reap, since>>

\* start() raises, perhaps with the browser launched: the exception is logged
\* and get_crawler returns None, on which its caller fails.
StartFail(t) ==
    /\ pc[t] = "starting"
    /\ \E e \in Ended : browser' = [browser EXCEPT ![crawler[t]] = e]
    /\ crawler' = [crawler EXCEPT ![t] = NoCrawler]
    /\ owner' = NoActor
    /\ pc' = [pc EXCEPT ![t] = "idle"]
    /\ Finally(t)
    /\ UNCHANGED <<waiters, sig, clock, now, todo, reap, since>>

\* The caller is done with arun() (or is cancelled in it) and forgets the
\* crawler; it does not tell the pool.
DoneUsing(t) ==
    /\ pc[t] = "using"
    /\ pc' = [pc EXCEPT ![t] = "idle"]
    /\ crawler' = [crawler EXCEPT ![t] = NoCrawler]
    /\ since' = [since EXCEPT ![t] = 0]
    /\ UNCHANGED <<POOL, LAST_USED, owner, waiters, sig, browser, clock, now,
                   todo, reap>>

\* CancelledError passes `except Exception` but not `finally`.
CancelWaiting(t) ==
    /\ pc[t] \in WaitingPC
    /\ Leave(t)
    /\ pc' = [pc EXCEPT ![t] = "idle"]
    /\ Finally(t)
    /\ UNCHANGED <<owner, sig, crawler, browser, clock, now, todo, reap, since>>

\* Cancelled in start() or close(): `async with` releases LOCK, and nothing
\* refers to the browser any more.
CancelInBrowser(t) ==
    /\ pc[t] \in {"starting", "evicting"}
    /\ \E e \in Ended : browser' = [browser EXCEPT ![crawler[t]] = e]
    /\ crawler' = [crawler EXCEPT ![t] = NoCrawler]
    /\ owner' = NoActor
    /\ pc' = [pc EXCEPT ![t] = "idle"]
    /\ Finally(t)
    /\ UNCHANGED <<waiters, sig, clock, now, todo, reap, since>>

-----------------------------------------------------------------------------
(* janitor *)

\* Mutant: `now` is read once, before the loop.
JanitorWakeStaleNow ==
    /\ pc[Janitor] = "sleep"
    /\ pc' = [pc EXCEPT ![Janitor] = "lockJ"]
    /\ Enqueue(Janitor)
    /\ UNCHANGED <<POOL, LAST_USED, owner, sig, crawler, browser, clock, now,
                   todo, reap, since>>

\* sleep(60) is over: `now` is read before LOCK is asked for.
JanitorWake ==
    /\ pc[Janitor] = "sleep"
    /\ now' = clock
    /\ pc' = [pc EXCEPT ![Janitor] = "lockJ"]
    /\ Enqueue(Janitor)
    /\ UNCHANGED <<POOL, LAST_USED, owner, sig, crawler, browser, clock, todo,
                   reap, since>>

\* Mutant: >= for >.
ExpiredTooEarly(S) == {s \in S : now - LAST_USED[s] >= IDLE_TTL_SEC}
Expired(S) == {s \in S : now - LAST_USED[s] > IDLE_TTL_SEC}

\* Mutant: the janitor collects under LOCK and closes after releasing it.
ScanUnlocked(S, b) ==
    \/ /\ Expired(S) = {}
       /\ pc' = [pc EXCEPT ![Janitor] = "sleep"]
       /\ owner' = NoActor
       /\ todo' = {}
       /\ browser' = b
       /\ UNCHANGED reap
    \/ \E s \in Expired(S) :
          /\ pc' = [pc EXCEPT ![Janitor] = "reaping"]
          /\ owner' = NoActor
          /\ todo' = S \ {s}
          /\ reap' = s
          /\ browser' = [b EXCEPT ![POOL[s]] = "closing"]

\* The loop over the snapshot from signature set S on: up to the next await of
\* close(), or to the end of `async with LOCK`.  b is the browsers' state.
Scan(S, b) ==
    \/ /\ Expired(S) = {}
       /\ pc' = [pc EXCEPT ![Janitor] = "sleep"]
       /\ owner' = NoActor
       /\ todo' = {}
       /\ browser' = b
       /\ UNCHANGED reap
    \/ \E s \in Expired(S) :
          /\ pc' = [pc EXCEPT ![Janitor] = "reaping"]
          /\ owner' = Janitor
          /\ todo' = S \ {s}
          /\ reap' = s
          /\ browser' = [b EXCEPT ![POOL[s]] = "closing"]

JanitorLock ==
    /\ pc[Janitor] = "lockJ"
    /\ Granted(Janitor)
    /\ waiters' = Tail(waiters)
    /\ Scan(DOMAIN POOL, browser)
    /\ UNCHANGED <<POOL, LAST_USED, sig, crawler, clock, now, since>>

\* close() has returned, or raised, which is suppressed.
JanitorReaped ==
    /\ pc[Janitor] = "reaping"
    /\ POOL' = Pop(POOL, reap)
    /\ LAST_USED' = Pop(LAST_USED, reap)
    /\ \E e \in Ended : Scan(todo, [browser EXCEPT ![POOL[reap]] = e])
    /\ UNCHANGED <<waiters, sig, crawler, clock, now, since>>

\* The lifespan's exit (or the loop's) cancels the janitor.  `suppress`
\* lets CancelledError through, so a crawler it was closing stays in POOL.
JanitorCancel ==
    /\ pc[Janitor] # "cancelled"
    /\ pc' = [pc EXCEPT ![Janitor] = "cancelled"]
    /\ IF pc[Janitor] = "lockJ" THEN Leave(Janitor) ELSE UNCHANGED waiters
    /\ owner' = IF owner = Janitor THEN NoActor ELSE owner
    /\ todo' = {}
    /\ UNCHANGED <<POOL, LAST_USED, sig, crawler, browser, clock, now, reap,
                   since>>

-----------------------------------------------------------------------------
(* close_all *)

CloseAll ==
    /\ pc[Closer] = "idle"
    /\ pc' = [pc EXCEPT ![Closer] = "lockC"]
    /\ Enqueue(Closer)
    /\ UNCHANGED <<POOL, LAST_USED, owner, sig, crawler, browser, clock, now,
                   todo, reap, since>>

\* Mutant: POOL.clear() before the closes are gathered.
PooledAfterClear == {}
Pooled == {POOL[s] : s \in DOMAIN POOL}

CloseAllBegin ==
    /\ pc[Closer] = "lockC"
    /\ Granted(Closer)
    /\ waiters' = Tail(waiters)
    /\ owner' = Closer
    /\ pc' = [pc EXCEPT ![Closer] = "gathering"]
    /\ browser' = [c \in Crawler |->
                      IF c \in Pooled THEN "closing" ELSE browser[c]]
    /\ UNCHANGED <<POOL, LAST_USED, sig, crawler, clock, now, todo, reap, since>>

\* gather(return_exceptions=True): nobody looks at which closes raised.
CloseAllEnd ==
    /\ pc[Closer] = "gathering"
    /\ \E raised \in SUBSET Pooled :
          browser' = [c \in Crawler |-> CASE c \in raised -> "abandoned"
                                         [] c \in Pooled \ raised -> "closed"
                                         [] OTHER -> browser[c]]
    /\ POOL' = EmptyDict
    /\ LAST_USED' = EmptyDict
    /\ owner' = NoActor
    /\ pc' = [pc EXCEPT ![Closer] = "idle"]
    /\ UNCHANGED <<waiters, sig, crawler, clock, now, todo, reap, since>>

Tick ==
    /\ clock < MaxTime
    /\ clock' = clock + 1
    /\ UNCHANGED <<POOL, LAST_USED, owner, waiters, pc, sig, crawler, browser,
                   now, todo, reap, since>>

-----------------------------------------------------------------------------
\* What a task inside get_crawler does on its own, without being cancelled.
TaskStep(t) ==
    \/ Hit(t) \/ Miss(t)
    \/ EvictBegin(t) \/ EvictEnd(t) \/ EvictNothing(t)
    \/ Create(t) \/ StartOk(t) \/ StartFail(t)

JanitorStep == JanitorWake \/ JanitorLock \/ JanitorReaped

CloserStep == CloseAllBegin \/ CloseAllEnd

Next ==
    \/ \E t \in Task :
          \/ TaskStep(t)
          \/ \E s \in Sig : GetCrawler(t, s)
          \/ DoneUsing(t) \/ CancelWaiting(t) \/ CancelInBrowser(t)
    \/ JanitorStep \/ JanitorCancel
    \/ CloseAll \/ CloserStep
    \/ Tick

Spec == Init /\ [][Next]_vars

\* The event loop runs every ready task, and a browser's start() and close()
\* end, with or without an error.  Nobody is obliged to ask for a crawler, to
\* cancel or to shut down.
Fairness ==
    /\ \A t \in Task : WF_vars(TaskStep(t))
    /\ WF_vars(JanitorStep)
    /\ WF_vars(CloserStep)

FairSpec == Spec /\ Fairness

-----------------------------------------------------------------------------
(* Properties *)

\* Each variable stays in its range.
TypeOK ==
    /\ IsDict(POOL, Sig, Crawler)
    /\ IsDict(LAST_USED, Sig, 0..MaxTime)
    /\ owner \in Actor \cup {NoActor}
    /\ waiters \in Seq(Actor)
    /\ pc \in [Actor -> TaskPC \cup JanitorPC \cup CloserPC]
    /\ \A t \in Task : pc[t] \in TaskPC
    /\ pc[Janitor] \in JanitorPC /\ pc[Closer] \in CloserPC
    /\ sig \in [Task -> Sig]
    /\ crawler \in [Task -> Crawler \cup {NoCrawler}]
    /\ \A t \in Task :
          pc[t] \in {"starting", "evicting", "using"} => crawler[t] \in Crawler
    /\ browser \in [Crawler -> BrowserState]
    /\ clock \in 0..MaxTime /\ now \in 0..MaxTime
    /\ todo \subseteq Sig /\ reap \in Sig
    /\ since \in [Task -> 0..MaxTime]

\* POOL and LAST_USED are written together everywhere, also by the `finally`
\* of get_crawler that runs without LOCK while another task is in the middle
\* of an eviction or a start, and what the janitor has left of its snapshot is
\* still in both: `LAST_USED[sig]` in janitor() never raises KeyError, which
\* would end the janitor for good.
BookkeepingAgrees ==
    /\ DOMAIN POOL = DOMAIN LAST_USED
    /\ todo \subseteq DOMAIN LAST_USED

\* The pool loses no browser that runs or is on its way: an open one is in POOL
\* under exactly one signature (no double start overwrites an entry), and one
\* that is being started or closed is in POOL or with the task that holds LOCK.
\* And POOL has no entry of a browser whose start() or close() is over.  What an
\* error or a cancellation in start() or close() leaves running ("abandoned")
\* is exactly what this does not cover: the code forgets it.
NoOrphanBrowser ==
    /\ \A c \in Crawler :
          /\ browser[c] = "open" =>
                \E s \in DOMAIN POOL :
                    /\ POOL[s] = c
                    /\ \A r \in DOMAIN POOL : POOL[r] = c => r = s
          /\ browser[c] \in {"starting", "closing"} =>
                \/ \E s \in DOMAIN POOL : POOL[s] = c
                \/ \E t \in Task : owner = t /\ crawler[t] = c
    /\ \A s \in DOMAIN POOL : browser[POOL[s]] \in {"open", "closing"}

\* Two requests that miss on the same signature at the same time start one
\* browser: while a start is in progress its signature is not in POOL and
\* nobody else starts one for it.
OneBrowserPerSig ==
    \A t \in Task : pc[t] = "starting" =>
        /\ sig[t] \notin DOMAIN POOL
        /\ \A u \in Task : pc[u] = "starting" /\ sig[u] = sig[t] => u = t

\* A step hands crawler c to task t.
HandedOut(t) == pc[t] # "using" /\ pc'[t] = "using"

\* As long as the janitor has not been cancelled, get_crawler never hands out a
\* crawler whose close() has begun: eviction, janitor and close_all race with a
\* hit on the same signature, and only LOCK keeps the hit out.  (A janitor that
\* is cancelled in close() leaves the entry in POOL.)
HandsOutOpen ==
    [][\A t \in Task : HandedOut(t) =>
          browser'[crawler'[t]] = "open" \/ pc'[Janitor] = "cancelled"]_vars

\* The janitor begins to close crawler c in this step.
ReapBegins(c) ==
    pc'[Janitor] = "reaping" /\ browser[c] # "closing" /\ browser'[c] = "closing"

\* A crawler handed to a task that still uses it is not reaped within
\* IDLE_TTL_SEC of that moment, although the janitor reads `now` before it
\* waits for LOCK and LAST_USED is refreshed while it waits.
ReapRespectsTTL ==
    [][\A t \in Task : pc[t] = "using" /\ ReapBegins(crawler[t]) =>
          clock - since[t] > IDLE_TTL_SEC]_vars

\* Actor a takes this step: it gets to another point, the janitor perhaps to
\* the same await for the next entry of its snapshot.
Moves(a) == pc'[a] # pc[a] \/ (a = Janitor /\ todo' # todo)

\* Only the actor that holds LOCK, before its step or after it, changes POOL:
\* the `finally` of a call that runs while somebody else is evicting, starting,
\* reaping or gathering under LOCK does not.
PoolChangesUnderLock ==
    [][POOL' # POOL => /\ \E a \in Actor : Moves(a)
                       /\ \A a \in Actor : Moves(a) => owner = a \/ owner' = a]_vars

\* When close_all returns every browser's close() is over, returned or raised:
\* also one that was started while close_all waited for LOCK is in POOL by the
\* time POOL is gathered.
CloseAllLeavesNoneOpen ==
    [][pc[Closer] = "gathering" /\ pc'[Closer] = "idle" =>
          \A c \in Crawler : browser'[c] \notin {"open", "starting", "closing"}]_vars

\* The pool seen by its callers: who asks for what, who holds what, and the
\* browsers in POOL that are open.
Phase ==
    [t \in Task |-> CASE pc[t] = "idle" -> "idle"
                      [] pc[t] = "using" -> "holding"
                      [] OTHER -> "asking"]
Held == [t \in Task |-> IF pc[t] = "using" THEN crawler[t] ELSE NoCrawler]
Shared == Restrict(POOL, {s \in DOMAIN POOL : browser[POOL[s]] = "open"})
Leases == INSTANCE LeaseService WITH
              asks <- sig, phase <- Phase, held <- Held, shared <- Shared,
              tended <- pc[Janitor] # "cancelled"

\* get_crawler looks atomic to its callers: although it gives LOCK up between
\* its two checks, starts browsers, and races with the janitor, eviction and
\* close_all, each call takes effect at one moment, on the open browser then
\* shared under its signature or on a new one.
ImplementsLeases == Leases!Spec

\* Every call of get_crawler comes back, with a crawler, an error or None.
GetCrawlerReturns ==
    \A t \in Task : pc[t] \in WaitingPC \cup {"evicting", "starting"} ~>
                        pc[t] \in {"idle", "using"}

\* A browser nobody asks for is closed by the janitor: once an entry is older
\* than IDLE_TTL_SEC it leaves POOL or is used again, unless the janitor has
\* been cancelled.
IdleIsReaped ==
    \A s \in Sig :
        (s \in DOMAIN POOL /\ clock - LAST_USED[s] > IDLE_TTL_SEC) ~>
            \/ s \notin DOMAIN POOL
            \/ clock - LAST_USED[s] <= IDLE_TTL_SEC
            \/ pc[Janitor] = "cancelled"

\* The janitor closes idle browsers only: app_factory.py says of it that it
\* "cleans up idle browsers".
ReapsOnlyIdle ==
    [][\A t \in Task : pc[t] = "using" => ~ReapBegins(crawler[t])]_vars
=============================================================================
