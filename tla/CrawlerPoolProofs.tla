------------------------- MODULE CrawlerPoolProofs -------------------------
(***************************************************************************)
(* The safety invariants of CrawlerPool for every number of tasks,         *)
(* signatures and crawlers and every value of IDLE_TTL_SEC and MaxTime.    *)
(***************************************************************************)
EXTENDS CrawlerPool, TLAPS

(***************************************************************************)
(* Dictionaries.                                                           *)
(***************************************************************************)

\* `d.clear()`: a dictionary of any kind with no keys.
LEMMA EmptyDictFacts ==
    ASSUME NEW K, NEW V
    PROVE  IsDict(EmptyDict, K, V) /\ DOMAIN EmptyDict = {}
  BY DEF IsDict, EmptyDict

(***************************************************************************)
(* The inductive invariant.  BookkeepingAgrees and NoOrphanBrowser are not *)
(* inductive: they hold because whoever is between two writes of the pool  *)
(* holds LOCK, so the invariant says what the holder of LOCK is doing.     *)
(***************************************************************************)

\* LOCK is held exactly by an actor suspended in a start() or a close().
LockHeld ==
    /\ \A t \in Task : pc[t] \in {"starting", "evicting"} <=> owner = t
    /\ pc[Janitor] = "reaping" <=> owner = Janitor
    /\ pc[Closer] = "gathering" <=> owner = Closer

\* The janitor's place in its loop.
JanitorPlace ==
    /\ pc[Janitor] # "reaping" => todo = {}
    /\ pc[Janitor] = "reaping" => reap \in DOMAIN POOL /\ reap \notin todo

\* No crawler is pooled under two signatures; one being started is not pooled
\* yet and known to its starter only, one being evicted is no longer pooled.
CrawlerPlace ==
    /\ \A r, s \in DOMAIN POOL : POOL[r] = POOL[s] => r = s
    /\ \A t \in Task : pc[t] \in {"starting", "evicting"} =>
          \A s \in DOMAIN POOL : POOL[s] # crawler[t]
    /\ \A t \in Task : pc[t] = "starting" =>
          /\ sig[t] \notin DOMAIN POOL
          /\ \A u \in Task : crawler[u] = crawler[t] => u = t

\* A pooled crawler is open, or whoever closes it holds LOCK, or the janitor
\* was cancelled while it closed it.
PooledBrowser ==
    \A s \in DOMAIN POOL :
        \/ browser[POOL[s]] = "open"
        \/ /\ browser[POOL[s]] = "closing"
           /\ \/ pc[Janitor] = "reaping" /\ s = reap
              \/ pc[Closer] = "gathering"
              \/ pc[Janitor] = "cancelled"

\* A live browser is pooled or held by the task that evicts it.
LiveBrowser ==
    \A c \in Crawler : browser[c] \in {"open", "closing"} =>
        \/ \E s \in DOMAIN POOL : POOL[s] = c
        \/ /\ browser[c] = "closing"
           /\ \E t \in Task : pc[t] = "evicting" /\ crawler[t] = c

\* A starting browser is held by the task that starts it.
StartingBrowser ==
    \A c \in Crawler : browser[c] = "starting" =>
        \E t \in Task : pc[t] = "starting" /\ crawler[t] = c

\* Time stamps lie in the past, and the pool's stamp of a crawler is at least
\* as recent as any hand-out of it.
Stamps ==
    /\ now <= clock
    /\ \A s \in DOMAIN LAST_USED : LAST_USED[s] <= clock
    /\ \A t \in Task : pc[t] = "using" =>
          /\ since[t] <= clock
          /\ \A s \in DOMAIN POOL : POOL[s] = crawler[t] =>
                since[t] <= LAST_USED[s]

Inv ==
    /\ TypeOK /\ LockHeld /\ BookkeepingAgrees /\ JanitorPlace
    /\ CrawlerPlace /\ PooledBrowser /\ LiveBrowser /\ StartingBrowser
    /\ Stamps

(***************************************************************************)
(* The shared steps.                                                       *)
(***************************************************************************)

\* The `finally` of get_crawler, whoever holds LOCK: it keeps the two
\* dictionaries in step and never moves a time stamp back.
LEMMA FinallyFacts ==
    ASSUME Inv, NEW t \in Task, Finally(t)
    PROVE  /\ POOL' = POOL
           /\ IsDict(LAST_USED', Sig, 0..MaxTime)
           /\ DOMAIN LAST_USED' = DOMAIN LAST_USED
           /\ \A s \in DOMAIN LAST_USED :
                 LAST_USED[s] <= LAST_USED'[s] /\ LAST_USED'[s] <= clock
           /\ sig[t] \in DOMAIN POOL => LAST_USED'[sig[t]] = clock
  <1>1. /\ IsDict(LAST_USED, Sig, 0..MaxTime)
        /\ sig[t] \in Sig /\ clock \in 0..MaxTime
        /\ DOMAIN POOL = DOMAIN LAST_USED
        /\ \A s \in DOMAIN LAST_USED : LAST_USED[s] <= clock
    BY DEF Inv, TypeOK, BookkeepingAgrees, Stamps
  <1>2. \A s \in DOMAIN LAST_USED : LAST_USED[s] \in 0..MaxTime
    BY <1>1 DEF IsDict
  <1>3. CASE sig[t] \in DOMAIN POOL
    <2>1. LAST_USED' = Put(LAST_USED, sig[t], clock) /\ POOL' = POOL
      BY <1>3 DEF Finally
    <2>2. /\ IsDict(LAST_USED', Sig, 0..MaxTime)
          /\ DOMAIN LAST_USED' = DOMAIN LAST_USED \cup {sig[t]}
          /\ LAST_USED'[sig[t]] = clock
          /\ \A x \in DOMAIN LAST_USED : x # sig[t] => LAST_USED'[x] = LAST_USED[x]
      BY <1>1, <2>1 DEF IsDict, Put
    <2>3. DOMAIN LAST_USED' = DOMAIN LAST_USED
      BY <1>1, <1>3, <2>2
    <2>4. \A s \in DOMAIN LAST_USED :
             LAST_USED[s] <= LAST_USED'[s] /\ LAST_USED'[s] <= clock
      <3> SUFFICES ASSUME NEW s \in DOMAIN LAST_USED
                   PROVE  LAST_USED[s] <= LAST_USED'[s] /\ LAST_USED'[s] <= clock
        OBVIOUS
      <3>1. LAST_USED'[s] = clock \/ LAST_USED'[s] = LAST_USED[s]
        BY <2>2
      <3>2. LAST_USED[s] \in Int /\ clock \in Int /\ LAST_USED[s] <= clock
        BY <1>1, <1>2, TimeAssumption
      <3>. QED
        BY <3>1, <3>2
    <2>. QED
      BY <2>1, <2>2, <2>3, <2>4
  <1>4. CASE sig[t] \notin DOMAIN POOL
    <2>1. LAST_USED' = Pop(LAST_USED, sig[t]) /\ POOL' = POOL
      BY <1>4 DEF Finally
    <2>2. /\ IsDict(LAST_USED', Sig, 0..MaxTime)
          /\ DOMAIN LAST_USED' = DOMAIN LAST_USED \ {sig[t]}
          /\ \A x \in DOMAIN LAST_USED : x # sig[t] => LAST_USED'[x] = LAST_USED[x]
      BY <1>1, <2>1 DEF IsDict, Pop, Restrict
    <2>3. DOMAIN LAST_USED' = DOMAIN LAST_USED
      BY <1>1, <1>4, <2>2
    <2>. QED
      BY <1>1, <1>2, <1>4, <2>1, <2>2, <2>3
  <1>. QED
    BY <1>3, <1>4

\* Leaving LOCK's queue keeps it a queue of actors.
LEMMA LeaveType ==
    ASSUME waiters \in Seq(Actor), NEW a, Leave(a)
    PROVE  waiters' \in Seq(Actor)
  BY DEF Leave

\* A call of get_crawler preserves the invariant.
LEMMA GetCrawlerInv ==
    ASSUME Inv, NEW t \in Task, NEW s \in Sig, GetCrawler(t, s)
    PROVE  Inv'
  <1> USE ActorsDistinct, CrawlerAssumption, TimeAssumption DEF Inv
  <1>1. TypeOK'
    BY DEF GetCrawler, Enqueue, TypeOK, Actor, TaskPC, JanitorPC, CloserPC,
           WaitingPC, BrowserState, Ended, IsDict
  <1>2. LockHeld'
    BY DEF GetCrawler, Enqueue, TypeOK, LockHeld, Actor, TaskPC, JanitorPC,
           CloserPC, WaitingPC
  <1>3. BookkeepingAgrees'
    BY DEF GetCrawler, Enqueue, BookkeepingAgrees, JanitorPlace, LockHeld,
           TypeOK, IsDict, Actor
  <1>4. JanitorPlace'
    BY DEF GetCrawler, Enqueue, BookkeepingAgrees, JanitorPlace, LockHeld,
           TypeOK, IsDict, Actor
  <1>5. CrawlerPlace'
    BY DEF GetCrawler, Enqueue, CrawlerPlace, LockHeld, TypeOK, IsDict, Actor
  <1>6. PooledBrowser'
    BY DEF GetCrawler, Enqueue, PooledBrowser, CrawlerPlace, LockHeld,
           JanitorPlace, TypeOK, IsDict, Actor
  <1>7. LiveBrowser'
    BY SMTT(30)
       DEF GetCrawler, Enqueue, LiveBrowser, CrawlerPlace, LockHeld,
           JanitorPlace, TypeOK, IsDict, Actor
  <1>8. StartingBrowser'
    BY DEF GetCrawler, Enqueue, StartingBrowser, CrawlerPlace, LockHeld,
           TypeOK, IsDict, Actor
  <1>9. Stamps'
    BY DEF GetCrawler, Enqueue, Stamps, CrawlerPlace, BookkeepingAgrees,
           LockHeld, TypeOK, IsDict, Actor
  <1>. QED
    BY <1>1, <1>2, <1>3, <1>4, <1>5, <1>6, <1>7, <1>8, <1>9

\* Handing out a pooled crawler preserves the invariant.
LEMMA HitInv ==
    ASSUME Inv, NEW t \in Task, Hit(t)
    PROVE  Inv'
  <1> USE ActorsDistinct, CrawlerAssumption, TimeAssumption DEF Inv
  <1>1. TypeOK'
    BY FinallyFacts
    DEF Hit, Granted, TypeOK, Actor, TaskPC, JanitorPC, CloserPC, WaitingPC,
        BrowserState, Ended, IsDict
  <1>2. LockHeld'
    BY FinallyFacts
    DEF Hit, Granted, TypeOK, LockHeld, Actor, TaskPC, JanitorPC, CloserPC,
        WaitingPC
  <1>3. BookkeepingAgrees'
    BY FinallyFacts
    DEF Hit, Granted, BookkeepingAgrees, JanitorPlace, LockHeld, TypeOK,
        IsDict, Actor
  <1>4. JanitorPlace'
    BY FinallyFacts
    DEF Hit, Granted, BookkeepingAgrees, JanitorPlace, LockHeld, TypeOK,
        IsDict, Actor
  <1>5. CrawlerPlace'
    BY FinallyFacts
    DEF Hit, Granted, CrawlerPlace, LockHeld, TypeOK, IsDict, Actor
  <1>6. PooledBrowser'
    BY FinallyFacts
    DEF Hit, Granted, PooledBrowser, CrawlerPlace, LockHeld, JanitorPlace,
        TypeOK, IsDict, Actor
  <1>7. LiveBrowser'
    BY FinallyFacts
    DEF Hit, Granted, LiveBrowser, CrawlerPlace, LockHeld, JanitorPlace,
        TypeOK, IsDict, Actor
  <1>8. StartingBrowser'
    BY FinallyFacts
    DEF Hit, Granted, StartingBrowser, CrawlerPlace, LockHeld, TypeOK, IsDict,
        Actor
  <1>9. Stamps'
    BY FinallyFacts
    DEF Hit, Granted, Stamps, CrawlerPlace, BookkeepingAgrees, LockHeld,
        TypeOK, IsDict, Actor
  <1>. QED
    BY <1>1, <1>2, <1>3, <1>4, <1>5, <1>6, <1>7, <1>8, <1>9

\* A miss preserves the invariant.
LEMMA MissInv ==
    ASSUME Inv, NEW t \in Task, Miss(t)
    PROVE  Inv'
  <1> USE ActorsDistinct, CrawlerAssumption, TimeAssumption DEF Inv
  <1>1. TypeOK'
    BY DEF Miss, Granted, TypeOK, Actor, TaskPC, JanitorPC, CloserPC,
           WaitingPC, BrowserState, Ended, IsDict
  <1>2. LockHeld'
    BY DEF Miss, Granted, TypeOK, LockHeld, Actor, TaskPC, JanitorPC, CloserPC,
           WaitingPC
  <1>3. BookkeepingAgrees'
    BY DEF Miss, Granted, BookkeepingAgrees, JanitorPlace, LockHeld, TypeOK,
           IsDict, Actor
  <1>4. JanitorPlace'
    BY DEF Miss, Granted, BookkeepingAgrees, JanitorPlace, LockHeld, TypeOK,
           IsDict, Actor
  <1>5. CrawlerPlace'
    BY DEF Miss, Granted, CrawlerPlace, LockHeld, TypeOK, IsDict, Actor
  <1>6. PooledBrowser'
    BY DEF Miss, Granted, PooledBrowser, CrawlerPlace, LockHeld, JanitorPlace,
           TypeOK, IsDict, Actor
  <1>7. LiveBrowser'
    BY DEF Miss, Granted, LiveBrowser, CrawlerPlace, LockHeld, JanitorPlace,
           TypeOK, IsDict, Actor
  <1>8. StartingBrowser'
    BY DEF Miss, Granted, StartingBrowser, CrawlerPlace, LockHeld, TypeOK,
           IsDict, Actor
  <1>9. Stamps'
    BY DEF Miss, Granted, Stamps, CrawlerPlace, BookkeepingAgrees, LockHeld,
           TypeOK, IsDict, Actor
  <1>. QED
    BY <1>1, <1>2, <1>3, <1>4, <1>5, <1>6, <1>7, <1>8, <1>9

\* Taking the oldest crawler out of the pool preserves the invariant.
LEMMA EvictBeginInv ==
    ASSUME Inv, NEW t \in Task, EvictBegin(t)
    PROVE  Inv'
  <1> USE ActorsDistinct, CrawlerAssumption, TimeAssumption DEF Inv
  <1>a. PICK s \in Oldest :
          /\ POOL' = Pop(POOL, s)
          /\ LAST_USED' = Pop(LAST_USED, s)
          /\ crawler' = [crawler EXCEPT ![t] = POOL[s]]
          /\ browser' = [browser EXCEPT ![POOL[s]] = "closing"]
    BY DEF EvictBegin
  <1>b. /\ IsDict(POOL', Sig, Crawler) /\ DOMAIN POOL' = DOMAIN POOL \ {s}
        /\ \A x \in DOMAIN POOL : x # s => POOL'[x] = POOL[x]
    BY <1>a DEF TypeOK, IsDict, Pop, Restrict
  <1>c. /\ IsDict(LAST_USED', Sig, 0..MaxTime)
        /\ DOMAIN LAST_USED' = DOMAIN LAST_USED \ {s}
        /\ \A x \in DOMAIN LAST_USED : x # s => LAST_USED'[x] = LAST_USED[x]
    BY <1>a DEF TypeOK, IsDict, Pop, Restrict
  <1>d. s \in DOMAIN POOL /\ s \in DOMAIN LAST_USED /\ POOL[s] \in Crawler
    BY <1>a DEF Oldest, BookkeepingAgrees, TypeOK, IsDict
  <1>e. owner = NoActor /\ owner' = t
    BY DEF EvictBegin, Granted
  <1>1. TypeOK'
    BY <1>a, <1>b, <1>c, <1>d, <1>e
    DEF EvictBegin, Granted, TypeOK, Actor, TaskPC, JanitorPC, CloserPC,
        WaitingPC, BrowserState, Ended, IsDict
  <1>2. LockHeld'
    BY <1>a, <1>b, <1>c, <1>d, <1>e
    DEF EvictBegin, Granted, TypeOK, LockHeld, Actor, TaskPC, JanitorPC,
        CloserPC, WaitingPC
  <1>3. BookkeepingAgrees'
    BY <1>a, <1>b, <1>c, <1>d, <1>e
    DEF EvictBegin, Granted, BookkeepingAgrees, JanitorPlace, LockHeld, TypeOK,
        IsDict, Actor
  <1>4. JanitorPlace'
    BY <1>a, <1>b, <1>c, <1>d, <1>e
    DEF EvictBegin, Granted, BookkeepingAgrees, JanitorPlace, LockHeld, TypeOK,
        IsDict, Actor
  <1>5. CrawlerPlace'
    BY <1>a, <1>b, <1>c, <1>d, <1>e
    DEF EvictBegin, Granted, CrawlerPlace, LockHeld, TypeOK, IsDict, Actor
  <1>6. PooledBrowser'
    BY <1>a, <1>b, <1>c, <1>d, <1>e
    DEF EvictBegin, Granted, PooledBrowser, CrawlerPlace, LockHeld,
        JanitorPlace, TypeOK, IsDict, Actor
  <1>7. LiveBrowser'
    <2> SUFFICES ASSUME NEW c \in Crawler, browser'[c] \in {"open", "closing"}
                 PROVE  \/ \E r \in DOMAIN POOL' : POOL'[r] = c
                        \/ /\ browser'[c] = "closing"
                           /\ \E u \in Task : pc'[u] = "evicting" /\ crawler'[u] = c
      BY DEF LiveBrowser
    <2>1. CASE c = POOL[s]
      <3>1. browser'[c] = "closing" /\ crawler'[t] = c
        BY <1>a, <1>d, <2>1 DEF TypeOK
      <3>2. pc'[t] = "evicting"
        BY DEF EvictBegin, TypeOK, Actor
      <3>. QED
        BY <3>1, <3>2
    <2>2. CASE c # POOL[s]
      <3>1. browser[c] \in {"open", "closing"}
        BY <1>a, <2>2 DEF TypeOK
      <3>2. \A u \in Task : pc[u] # "evicting"
        BY <1>e, ActorsDistinct DEF LockHeld, Actor
      <3>3. PICK r \in DOMAIN POOL : POOL[r] = c
        BY <3>1, <3>2 DEF LiveBrowser
      <3>4. r \in DOMAIN POOL' /\ POOL'[r] = c
        BY <1>b, <2>2, <3>3
      <3>. QED
        BY <3>4
    <2>. QED
      BY <2>1, <2>2
  <1>8. StartingBrowser'
    BY <1>a, <1>b, <1>c, <1>d, <1>e
    DEF EvictBegin, Granted, StartingBrowser, CrawlerPlace, LockHeld, TypeOK,
        IsDict, Actor
  <1>9. Stamps'
    BY <1>a, <1>b, <1>c, <1>d, <1>e
    DEF EvictBegin, Granted, Stamps, CrawlerPlace, BookkeepingAgrees, LockHeld,
        TypeOK, IsDict, Actor
  <1>. QED
    BY <1>1, <1>2, <1>3, <1>4, <1>5, <1>6, <1>7, <1>8, <1>9

\* The end of an eviction preserves the invariant.
LEMMA EvictEndInv ==
    ASSUME Inv, NEW t \in Task, EvictEnd(t)
    PROVE  Inv'
  <1> USE ActorsDistinct, CrawlerAssumption, TimeAssumption DEF Inv
  <1>1. TypeOK'
    BY FinallyFacts
    DEF EvictEnd, TypeOK, Actor, TaskPC, JanitorPC, CloserPC, WaitingPC,
        BrowserState, Ended, IsDict
  <1>2. LockHeld'
    BY FinallyFacts
    DEF EvictEnd, TypeOK, LockHeld, Actor, TaskPC, JanitorPC, CloserPC,
        WaitingPC
  <1>3. BookkeepingAgrees'
    BY FinallyFacts
    DEF EvictEnd, BookkeepingAgrees, JanitorPlace, LockHeld, TypeOK, IsDict,
        Actor
  <1>4. JanitorPlace'
    BY FinallyFacts
    DEF EvictEnd, BookkeepingAgrees, JanitorPlace, LockHeld, TypeOK, IsDict,
        Actor
  <1>5. CrawlerPlace'
    BY FinallyFacts
    DEF EvictEnd, CrawlerPlace, LockHeld, TypeOK, IsDict, Actor
  <1>6. PooledBrowser'
    BY FinallyFacts
    DEF EvictEnd, PooledBrowser, CrawlerPlace, LockHeld, JanitorPlace, TypeOK,
        IsDict, Actor
  <1>7. LiveBrowser'
    BY FinallyFacts
    DEF Ended, EvictEnd, LiveBrowser, CrawlerPlace, LockHeld, JanitorPlace, TypeOK,
        IsDict, Actor
  <1>8. StartingBrowser'
    BY FinallyFacts
    DEF Ended, EvictEnd, StartingBrowser, CrawlerPlace, LockHeld, TypeOK, IsDict, Actor
  <1>9. Stamps'
    BY FinallyFacts
    DEF EvictEnd, Stamps, CrawlerPlace, BookkeepingAgrees, LockHeld, TypeOK,
        IsDict, Actor
  <1>. QED
    BY <1>1, <1>2, <1>3, <1>4, <1>5, <1>6, <1>7, <1>8, <1>9

\* A failed start preserves the invariant.
LEMMA StartFailInv ==
    ASSUME Inv, NEW t \in Task, StartFail(t)
    PROVE  Inv'
  <1> USE ActorsDistinct, CrawlerAssumption, TimeAssumption DEF Inv
  <1>1. TypeOK'
    BY FinallyFacts
    DEF StartFail, TypeOK, Actor, TaskPC, JanitorPC, CloserPC, WaitingPC,
        BrowserState, Ended, IsDict
  <1>2. LockHeld'
    BY FinallyFacts
    DEF StartFail, TypeOK, LockHeld, Actor, TaskPC, JanitorPC, CloserPC,
        WaitingPC
  <1>3. BookkeepingAgrees'
    BY FinallyFacts
    DEF StartFail, BookkeepingAgrees, JanitorPlace, LockHeld, TypeOK, IsDict,
        Actor
  <1>4. JanitorPlace'
    BY FinallyFacts
    DEF StartFail, BookkeepingAgrees, JanitorPlace, LockHeld, TypeOK, IsDict,
        Actor
  <1>5. CrawlerPlace'
    BY FinallyFacts
    DEF StartFail, CrawlerPlace, LockHeld, TypeOK, IsDict, Actor
  <1>6. PooledBrowser'
    BY FinallyFacts
    DEF StartFail, PooledBrowser, CrawlerPlace, LockHeld, JanitorPlace, TypeOK,
        IsDict, Actor
  <1>7. LiveBrowser'
    BY FinallyFacts
    DEF Ended, StartFail, LiveBrowser, CrawlerPlace, LockHeld, JanitorPlace, TypeOK,
        IsDict, Actor
  <1>8. StartingBrowser'
    BY FinallyFacts
    DEF Ended, StartFail, StartingBrowser, CrawlerPlace, LockHeld, TypeOK, IsDict,
        Actor
  <1>9. Stamps'
    BY FinallyFacts
    DEF StartFail, Stamps, CrawlerPlace, BookkeepingAgrees, LockHeld, TypeOK,
        IsDict, Actor
  <1>. QED
    BY <1>1, <1>2, <1>3, <1>4, <1>5, <1>6, <1>7, <1>8, <1>9

\* A cancelled start or eviction preserves the invariant.
LEMMA CancelInBrowserInv ==
    ASSUME Inv, NEW t \in Task, CancelInBrowser(t)
    PROVE  Inv'
  <1> USE ActorsDistinct, CrawlerAssumption, TimeAssumption DEF Inv
  <1>1. TypeOK'
    BY FinallyFacts
    DEF CancelInBrowser, TypeOK, Actor, TaskPC, JanitorPC, CloserPC, WaitingPC,
        BrowserState, Ended, IsDict
  <1>2. LockHeld'
    BY FinallyFacts
    DEF CancelInBrowser, TypeOK, LockHeld, Actor, TaskPC, JanitorPC, CloserPC,
        WaitingPC
  <1>3. BookkeepingAgrees'
    BY FinallyFacts
    DEF CancelInBrowser, BookkeepingAgrees, JanitorPlace, LockHeld, TypeOK,
        IsDict, Actor
  <1>4. JanitorPlace'
    BY FinallyFacts
    DEF CancelInBrowser, BookkeepingAgrees, JanitorPlace, LockHeld, TypeOK,
        IsDict, Actor
  <1>5. CrawlerPlace'
    BY FinallyFacts
    DEF CancelInBrowser, CrawlerPlace, LockHeld, TypeOK, IsDict, Actor
  <1>6. PooledBrowser'
    BY FinallyFacts
    DEF CancelInBrowser, PooledBrowser, CrawlerPlace, LockHeld, JanitorPlace,
        TypeOK, IsDict, Actor
  <1>7. LiveBrowser'
    BY FinallyFacts
    DEF Ended, CancelInBrowser, LiveBrowser, CrawlerPlace, LockHeld, JanitorPlace,
        TypeOK, IsDict, Actor
  <1>8. StartingBrowser'
    BY FinallyFacts
    DEF Ended, CancelInBrowser, StartingBrowser, CrawlerPlace, LockHeld, TypeOK,
        IsDict, Actor
  <1>9. Stamps'
    BY FinallyFacts
    DEF CancelInBrowser, Stamps, CrawlerPlace, BookkeepingAgrees, LockHeld,
        TypeOK, IsDict, Actor
  <1>. QED
    BY <1>1, <1>2, <1>3, <1>4, <1>5, <1>6, <1>7, <1>8, <1>9

\* A denial with an empty pool preserves the invariant.
LEMMA EvictNothingInv ==
    ASSUME Inv, NEW t \in Task, EvictNothing(t)
    PROVE  Inv'
  <1> USE ActorsDistinct, CrawlerAssumption, TimeAssumption DEF Inv
  <1>1. TypeOK'
    <2>1. IsDict(LAST_USED', Sig, 0..MaxTime) /\ POOL' = POOL
      BY FinallyFacts DEF EvictNothing
    <2>2. pc' = [pc EXCEPT ![t] = "idle"] /\ waiters' \in Seq(Actor)
      BY DEF EvictNothing, Granted, TypeOK
    <2>. QED
      BY <2>1, <2>2
      DEF EvictNothing, TypeOK, Actor, TaskPC, WaitingPC
  <1>2. LockHeld'
    BY FinallyFacts
    DEF EvictNothing, Granted, TypeOK, LockHeld, Actor, TaskPC, JanitorPC,
        CloserPC, WaitingPC
  <1>3. BookkeepingAgrees'
    BY FinallyFacts
    DEF EvictNothing, Granted, BookkeepingAgrees, JanitorPlace, LockHeld,
        TypeOK, IsDict, Actor
  <1>4. JanitorPlace'
    BY FinallyFacts
    DEF EvictNothing, Granted, BookkeepingAgrees, JanitorPlace, LockHeld,
        TypeOK, IsDict, Actor
  <1>5. CrawlerPlace'
    BY FinallyFacts
    DEF EvictNothing, Granted, CrawlerPlace, LockHeld, TypeOK, IsDict, Actor
  <1>6. PooledBrowser'
    BY FinallyFacts
    DEF EvictNothing, Granted, PooledBrowser, CrawlerPlace, LockHeld,
        JanitorPlace, TypeOK, IsDict, Actor
  <1>7. LiveBrowser'
    BY FinallyFacts
    DEF EvictNothing, Granted, LiveBrowser, CrawlerPlace, LockHeld,
        JanitorPlace, TypeOK, IsDict, Actor
  <1>8. StartingBrowser'
    BY FinallyFacts
    DEF EvictNothing, Granted, StartingBrowser, CrawlerPlace, LockHeld, TypeOK,
        IsDict, Actor
  <1>9. Stamps'
    BY FinallyFacts
    DEF EvictNothing, Granted, Stamps, CrawlerPlace, BookkeepingAgrees,
        LockHeld, TypeOK, IsDict, Actor
  <1>. QED
    BY <1>1, <1>2, <1>3, <1>4, <1>5, <1>6, <1>7, <1>8, <1>9

\* The beginning of a start preserves the invariant.
LEMMA CreateInv ==
    ASSUME Inv, NEW t \in Task, Create(t)
    PROVE  Inv'
  <1> USE ActorsDistinct, CrawlerAssumption, TimeAssumption DEF Inv
  <1>1. TypeOK'
    BY DEF Create, Granted, StillMissing, Unreferenced, TypeOK, Actor, TaskPC,
           JanitorPC, CloserPC, WaitingPC, BrowserState, Ended, IsDict
  <1>2. LockHeld'
    BY DEF Create, Granted, StillMissing, Unreferenced, TypeOK, LockHeld,
           Actor, TaskPC, JanitorPC, CloserPC, WaitingPC
  <1>3. BookkeepingAgrees'
    BY DEF Create, Granted, StillMissing, Unreferenced, BookkeepingAgrees,
           JanitorPlace, LockHeld, TypeOK, IsDict, Actor
  <1>4. JanitorPlace'
    BY DEF Create, Granted, StillMissing, Unreferenced, BookkeepingAgrees,
           JanitorPlace, LockHeld, TypeOK, IsDict, Actor
  <1>5. CrawlerPlace'
    BY DEF Create, Granted, StillMissing, Unreferenced, CrawlerPlace, LockHeld,
           TypeOK, IsDict, Actor
  <1>6. PooledBrowser'
    BY DEF Create, Granted, StillMissing, Unreferenced, PooledBrowser,
           CrawlerPlace, LockHeld, JanitorPlace, TypeOK, IsDict, Actor
  <1>7. LiveBrowser'
    BY DEF Create, Granted, StillMissing, Unreferenced, LiveBrowser,
           CrawlerPlace, LockHeld, JanitorPlace, TypeOK, IsDict, Actor
  <1>8. StartingBrowser'
    BY DEF Create, Granted, StillMissing, Unreferenced, StartingBrowser,
           CrawlerPlace, LockHeld, TypeOK, IsDict, Actor
  <1>9. Stamps'
    BY DEF Create, Granted, StillMissing, Unreferenced, Stamps, CrawlerPlace,
           BookkeepingAgrees, LockHeld, TypeOK, IsDict, Actor
  <1>. QED
    BY <1>1, <1>2, <1>3, <1>4, <1>5, <1>6, <1>7, <1>8, <1>9

\* Pooling a started crawler preserves the invariant.
LEMMA StartOkInv ==
    ASSUME Inv, NEW t \in Task, StartOk(t)
    PROVE  Inv'
  <1> USE ActorsDistinct, CrawlerAssumption, TimeAssumption DEF Inv
  <1>a. sig[t] \in Sig /\ crawler[t] \in Crawler /\ clock \in 0..MaxTime
        /\ sig[t] \notin DOMAIN POOL
    BY DEF StartOk, TypeOK, CrawlerPlace
  <1>b. /\ IsDict(POOL', Sig, Crawler) /\ DOMAIN POOL' = DOMAIN POOL \cup {sig[t]}
        /\ POOL'[sig[t]] = crawler[t]
        /\ \A x \in DOMAIN POOL : x # sig[t] => POOL'[x] = POOL[x]
    BY <1>a DEF StartOk, TypeOK, IsDict, Put
  <1>c. /\ IsDict(LAST_USED', Sig, 0..MaxTime)
        /\ DOMAIN LAST_USED' = DOMAIN LAST_USED \cup {sig[t]}
        /\ LAST_USED'[sig[t]] = clock
        /\ \A x \in DOMAIN LAST_USED : x # sig[t] => LAST_USED'[x] = LAST_USED[x]
    BY <1>a DEF StartOk, TypeOK, IsDict, Put
  <1>1. TypeOK'
    BY <1>a, <1>b, <1>c
    DEF StartOk, TypeOK, Actor, TaskPC, JanitorPC, CloserPC, WaitingPC,
        BrowserState, Ended, IsDict
  <1>2. LockHeld'
    BY <1>a, <1>b, <1>c
    DEF StartOk, TypeOK, LockHeld, Actor, TaskPC, JanitorPC, CloserPC, WaitingPC
  <1>3. BookkeepingAgrees'
    BY <1>a, <1>b, <1>c
    DEF StartOk, BookkeepingAgrees, JanitorPlace, LockHeld, TypeOK, IsDict,
        Actor
  <1>4. JanitorPlace'
    BY <1>a, <1>b, <1>c
    DEF StartOk, BookkeepingAgrees, JanitorPlace, LockHeld, TypeOK, IsDict,
        Actor
  <1>5. CrawlerPlace'
    BY <1>a, <1>b, <1>c
    DEF StartOk, CrawlerPlace, LockHeld, TypeOK, IsDict, Actor
  <1>6. PooledBrowser'
    <2> SUFFICES ASSUME NEW s \in DOMAIN POOL'
                 PROVE  \/ browser'[POOL'[s]] = "open"
                        \/ /\ browser'[POOL'[s]] = "closing"
                           /\ pc'[Janitor] = "cancelled"
      BY DEF PooledBrowser
    <2>1. browser' = [browser EXCEPT ![crawler[t]] = "open"] /\ owner = t
          /\ pc' = [pc EXCEPT ![t] = "using"]
      BY DEF StartOk, LockHeld
    <2>2. CASE s = sig[t]
      BY <1>a, <1>b, <2>1, <2>2 DEF TypeOK
    <2>3. CASE s # sig[t]
      <3>1. s \in DOMAIN POOL /\ POOL'[s] = POOL[s] /\ POOL[s] # crawler[t]
        BY <1>b, <2>3 DEF CrawlerPlace, StartOk
      <3>2. browser'[POOL'[s]] = browser[POOL[s]]
        BY <2>1, <3>1 DEF TypeOK, IsDict
      <3>3. pc[Janitor] # "reaping" /\ pc[Closer] # "gathering"
        BY <2>1 DEF LockHeld, Actor
      <3>4. pc'[Janitor] = pc[Janitor]
        BY <2>1 DEF TypeOK, Actor
      <3>. QED
        BY <3>1, <3>2, <3>3, <3>4 DEF PooledBrowser
    <2>. QED
      BY <2>2, <2>3
  <1>7. LiveBrowser'
    BY <1>a, <1>b, <1>c
    DEF StartOk, LiveBrowser, CrawlerPlace, LockHeld, JanitorPlace, TypeOK,
        IsDict, Actor
  <1>8. StartingBrowser'
    BY <1>a, <1>b, <1>c
    DEF StartOk, StartingBrowser, CrawlerPlace, LockHeld, TypeOK, IsDict, Actor
  <1>9. Stamps'
    BY <1>a, <1>b, <1>c
    DEF StartOk, Stamps, CrawlerPlace, BookkeepingAgrees, LockHeld, TypeOK,
        IsDict, Actor
  <1>. QED
    BY <1>1, <1>2, <1>3, <1>4, <1>5, <1>6, <1>7, <1>8, <1>9

\* Forgetting a crawler preserves the invariant.
LEMMA DoneUsingInv ==
    ASSUME Inv, NEW t \in Task, DoneUsing(t)
    PROVE  Inv'
  <1> USE ActorsDistinct, CrawlerAssumption, TimeAssumption DEF Inv
  <1>1. TypeOK'
    BY DEF DoneUsing, TypeOK, Actor, TaskPC, JanitorPC, CloserPC, WaitingPC,
           BrowserState, Ended, IsDict
  <1>2. LockHeld'
    BY DEF DoneUsing, TypeOK, LockHeld, Actor, TaskPC, JanitorPC, CloserPC,
           WaitingPC
  <1>3. BookkeepingAgrees'
    BY DEF DoneUsing, BookkeepingAgrees, JanitorPlace, LockHeld, TypeOK,
           IsDict, Actor
  <1>4. JanitorPlace'
    BY DEF DoneUsing, BookkeepingAgrees, JanitorPlace, LockHeld, TypeOK,
           IsDict, Actor
  <1>5. CrawlerPlace'
    BY DEF DoneUsing, CrawlerPlace, LockHeld, TypeOK, IsDict, Actor
  <1>6. PooledBrowser'
    BY DEF DoneUsing, PooledBrowser, CrawlerPlace, LockHeld, JanitorPlace,
           TypeOK, IsDict, Actor
  <1>7. LiveBrowser'
    <2>1. /\ \A u \in Task : pc[u] = "evicting" =>
                pc'[u] = "evicting" /\ crawler'[u] = crawler[u]
          /\ UNCHANGED <<POOL, browser>>
      BY DEF DoneUsing, TypeOK, Actor
    <2>. QED
      BY <2>1 DEF LiveBrowser
  <1>8. StartingBrowser'
    BY DEF DoneUsing, StartingBrowser, CrawlerPlace, LockHeld, TypeOK, IsDict,
           Actor
  <1>9. Stamps'
    BY DEF DoneUsing, Stamps, CrawlerPlace, BookkeepingAgrees, LockHeld,
           TypeOK, IsDict, Actor
  <1>. QED
    BY <1>1, <1>2, <1>3, <1>4, <1>5, <1>6, <1>7, <1>8, <1>9

\* A cancelled wait for LOCK preserves the invariant.
LEMMA CancelWaitingInv ==
    ASSUME Inv, NEW t \in Task, CancelWaiting(t)
    PROVE  Inv'
  <1> USE ActorsDistinct, CrawlerAssumption, TimeAssumption DEF Inv
  <1>1. TypeOK'
    BY FinallyFacts, LeaveType
    DEF CancelWaiting, WaitingPC, TypeOK, Actor, TaskPC, JanitorPC, CloserPC,
        WaitingPC, BrowserState, Ended, IsDict
  <1>2. LockHeld'
    BY FinallyFacts, LeaveType
    DEF CancelWaiting, WaitingPC, TypeOK, LockHeld, Actor, TaskPC, JanitorPC,
        CloserPC, WaitingPC
  <1>3. BookkeepingAgrees'
    BY FinallyFacts, LeaveType
    DEF CancelWaiting, WaitingPC, BookkeepingAgrees, JanitorPlace, LockHeld,
        TypeOK, IsDict, Actor
  <1>4. JanitorPlace'
    BY FinallyFacts, LeaveType
    DEF CancelWaiting, WaitingPC, BookkeepingAgrees, JanitorPlace, LockHeld,
        TypeOK, IsDict, Actor
  <1>5. CrawlerPlace'
    BY FinallyFacts, LeaveType
    DEF CancelWaiting, WaitingPC, CrawlerPlace, LockHeld, TypeOK, IsDict, Actor
  <1>6. PooledBrowser'
    BY FinallyFacts, LeaveType
    DEF CancelWaiting, WaitingPC, PooledBrowser, CrawlerPlace, LockHeld,
        JanitorPlace, TypeOK, IsDict, Actor
  <1>7. LiveBrowser'
    BY FinallyFacts, LeaveType
    DEF CancelWaiting, WaitingPC, LiveBrowser, CrawlerPlace, LockHeld,
        JanitorPlace, TypeOK, IsDict, Actor
  <1>8. StartingBrowser'
    BY FinallyFacts, LeaveType
    DEF CancelWaiting, WaitingPC, StartingBrowser, CrawlerPlace, LockHeld,
        TypeOK, IsDict, Actor
  <1>9. Stamps'
    BY FinallyFacts, LeaveType
    DEF CancelWaiting, WaitingPC, Stamps, CrawlerPlace, BookkeepingAgrees,
        LockHeld, TypeOK, IsDict, Actor
  <1>. QED
    BY <1>1, <1>2, <1>3, <1>4, <1>5, <1>6, <1>7, <1>8, <1>9

\* The janitor's wake-up preserves the invariant.
LEMMA JanitorWakeInv ==
    ASSUME Inv, JanitorWake
    PROVE  Inv'
  <1> USE ActorsDistinct, CrawlerAssumption, TimeAssumption DEF Inv
  <1>1. TypeOK'
    BY DEF JanitorWake, Enqueue, TypeOK, Actor, TaskPC, JanitorPC, CloserPC,
           WaitingPC, BrowserState, Ended, IsDict
  <1>2. LockHeld'
    BY DEF JanitorWake, Enqueue, TypeOK, LockHeld, Actor, TaskPC, JanitorPC,
           CloserPC, WaitingPC
  <1>3. BookkeepingAgrees'
    BY DEF JanitorWake, Enqueue, BookkeepingAgrees, JanitorPlace, LockHeld,
           TypeOK, IsDict, Actor
  <1>4. JanitorPlace'
    BY DEF JanitorWake, Enqueue, BookkeepingAgrees, JanitorPlace, LockHeld,
           TypeOK, IsDict, Actor
  <1>5. CrawlerPlace'
    BY DEF JanitorWake, Enqueue, CrawlerPlace, LockHeld, TypeOK, IsDict, Actor
  <1>6. PooledBrowser'
    BY DEF JanitorWake, Enqueue, PooledBrowser, CrawlerPlace, LockHeld,
           JanitorPlace, TypeOK, IsDict, Actor
  <1>7. LiveBrowser'
    BY DEF JanitorWake, Enqueue, LiveBrowser, CrawlerPlace, LockHeld,
           JanitorPlace, TypeOK, IsDict, Actor
  <1>8. StartingBrowser'
    BY DEF JanitorWake, Enqueue, StartingBrowser, CrawlerPlace, LockHeld,
           TypeOK, IsDict, Actor
  <1>9. Stamps'
    BY DEF JanitorWake, Enqueue, Stamps, CrawlerPlace, BookkeepingAgrees,
           LockHeld, TypeOK, IsDict, Actor
  <1>. QED
    BY <1>1, <1>2, <1>3, <1>4, <1>5, <1>6, <1>7, <1>8, <1>9

\* The janitor's first scan preserves the invariant.
LEMMA JanitorLockInv ==
    ASSUME Inv, JanitorLock
    PROVE  Inv'
  <1> USE ActorsDistinct, CrawlerAssumption, TimeAssumption DEF Inv
  <1>e. TypeOK /\ Scan(DOMAIN POOL, browser) /\ browser \in [Crawler -> BrowserState]
        /\ DOMAIN POOL \subseteq DOMAIN POOL
    BY DEF JanitorLock, TypeOK
  <1>f. /\ browser' \in [Crawler -> BrowserState]
        /\ pc' \in [Actor -> TaskPC \cup JanitorPC \cup CloserPC]
        /\ \A a \in Actor : a # Janitor => pc'[a] = pc[a]
        /\ \/ /\ pc'[Janitor] = "sleep" /\ owner' = NoActor
              /\ todo' = {} /\ browser' = browser /\ reap' = reap
           \/ \E s \in DOMAIN POOL :
                 /\ pc'[Janitor] = "reaping" /\ owner' = Janitor
                 /\ todo' = DOMAIN POOL \ {s} /\ reap' = s
                 /\ now - LAST_USED[s] > IDLE_TTL_SEC
                 /\ browser'[POOL[s]] = "closing"
                 /\ \A c \in Crawler : c # POOL[s] => browser'[c] = browser[c]
    <2>1. CASE Expired(DOMAIN POOL) = {} /\ pc' = [pc EXCEPT ![Janitor] = "sleep"]
               /\ owner' = NoActor /\ todo' = {} /\ browser' = browser /\ reap' = reap
      BY <1>e, <2>1 DEF TypeOK, Actor, JanitorPC
    <2>2. ASSUME NEW s \in Expired(DOMAIN POOL),
                 pc' = [pc EXCEPT ![Janitor] = "reaping"], owner' = Janitor,
                 todo' = DOMAIN POOL \ {s}, reap' = s,
                 browser' = [browser EXCEPT ![POOL[s]] = "closing"]
          PROVE  /\ browser' \in [Crawler -> BrowserState]
                 /\ pc' \in [Actor -> TaskPC \cup JanitorPC \cup CloserPC]
                 /\ \A a \in Actor : a # Janitor => pc'[a] = pc[a]
                 /\ s \in DOMAIN POOL /\ pc'[Janitor] = "reaping"
                 /\ now - LAST_USED[s] > IDLE_TTL_SEC
                 /\ browser'[POOL[s]] = "closing"
                 /\ \A c \in Crawler : c # POOL[s] => browser'[c] = browser[c]
      <3>1. s \in DOMAIN POOL /\ now - LAST_USED[s] > IDLE_TTL_SEC /\ POOL[s] \in Crawler
        BY <1>e, <2>2 DEF Expired, TypeOK, IsDict
      <3>. QED
        BY <1>e, <2>2, <3>1 DEF TypeOK, Actor, JanitorPC, BrowserState, Ended
    <2>. QED
      BY <1>e, <2>1, <2>2 DEF Scan
  <1>g. owner = NoActor /\ Janitor \in Actor /\ Closer \in Actor
        /\ \A t \in Task : t \in Actor /\ pc'[t] = pc[t]
    BY <1>f DEF JanitorLock, Granted, Actor
  <1>h. pc'[Janitor] \in {"sleep", "reaping"} /\ owner' \in {NoActor, Janitor}
        /\ todo' \subseteq DOMAIN POOL /\ reap' \in Sig
    BY <1>f DEF TypeOK, IsDict
  <1>i. waiters' \in Seq(Actor)
    BY DEF JanitorLock, Granted, TypeOK
  <1>1. TypeOK'
    BY <1>f, <1>g, <1>h, <1>i
    DEF JanitorLock, TypeOK, IsDict, JanitorPC
  <1>2. LockHeld'
    BY <1>f, <1>g, <1>h, <1>i, SMTT(30)
    DEF JanitorLock, LockHeld
  <1>3. BookkeepingAgrees'
    BY <1>f, <1>g, <1>h, <1>i
    DEF JanitorLock, BookkeepingAgrees
  <1>4. JanitorPlace'
    BY <1>f, <1>g, <1>h, <1>i
    DEF JanitorLock, JanitorPlace
  <1>5. CrawlerPlace'
    BY <1>f, <1>g, <1>h, <1>i
    DEF JanitorLock, CrawlerPlace
  <1>6. PooledBrowser'
    BY <1>f, <1>g, <1>h, <1>i
    DEF JanitorLock, PooledBrowser, CrawlerPlace, LockHeld, TypeOK, IsDict
  <1>7. LiveBrowser'
    BY <1>f, <1>g, <1>h, <1>i
    DEF JanitorLock, LiveBrowser, TypeOK, IsDict
  <1>8. StartingBrowser'
    BY <1>f, <1>g, <1>h, <1>i
    DEF JanitorLock, StartingBrowser, TypeOK, IsDict
  <1>9. Stamps'
    BY <1>f, <1>g, <1>h, <1>i
    DEF JanitorLock, Stamps, BookkeepingAgrees
  <1>. QED
    BY <1>1, <1>2, <1>3, <1>4, <1>5, <1>6, <1>7, <1>8, <1>9

\* Dropping a reaped crawler preserves the invariant.
LEMMA JanitorReapedInv ==
    ASSUME Inv, JanitorReaped
    PROVE  Inv'
  <1> USE ActorsDistinct, CrawlerAssumption, TimeAssumption DEF Inv
  <1>a. reap \in DOMAIN POOL /\ POOL[reap] \in Crawler /\ owner = Janitor
    BY DEF JanitorReaped, JanitorPlace, TypeOK, IsDict, LockHeld
  <1>b. /\ IsDict(POOL', Sig, Crawler) /\ DOMAIN POOL' = DOMAIN POOL \ {reap}
        /\ \A x \in DOMAIN POOL : x # reap => POOL'[x] = POOL[x]
    BY DEF JanitorReaped, TypeOK, IsDict, Pop, Restrict
  <1>c. /\ IsDict(LAST_USED', Sig, 0..MaxTime)
        /\ DOMAIN LAST_USED' = DOMAIN LAST_USED \ {reap}
        /\ \A x \in DOMAIN LAST_USED : x # reap => LAST_USED'[x] = LAST_USED[x]
    BY DEF JanitorReaped, TypeOK, IsDict, Pop, Restrict
  <1>0. PICK e \in Ended : Scan(todo, [browser EXCEPT ![POOL[reap]] = e])
    BY DEF JanitorReaped
  <1>d. \A s \in todo : s \in DOMAIN POOL /\ s # reap /\ POOL[s] \in Crawler
    BY DEF JanitorReaped, JanitorPlace, BookkeepingAgrees, TypeOK, IsDict
  <1>e. /\ TypeOK /\ todo \subseteq DOMAIN POOL
        /\ [browser EXCEPT ![POOL[reap]] = e] \in [Crawler -> BrowserState]
        /\ Scan(todo, [browser EXCEPT ![POOL[reap]] = e])
    BY <1>d, <1>0 DEF JanitorReaped, TypeOK, BrowserState, Ended
  <1>f. /\ browser' \in [Crawler -> BrowserState]
        /\ pc' \in [Actor -> TaskPC \cup JanitorPC \cup CloserPC]
        /\ \A a \in Actor : a # Janitor => pc'[a] = pc[a]
        /\ \/ /\ pc'[Janitor] = "sleep" /\ owner' = NoActor
              /\ todo' = {} /\ browser' = [browser EXCEPT ![POOL[reap]] = e] /\ reap' = reap
           \/ \E s \in todo :
                 /\ pc'[Janitor] = "reaping" /\ owner' = Janitor
                 /\ todo' = todo \ {s} /\ reap' = s
                 /\ now - LAST_USED[s] > IDLE_TTL_SEC
                 /\ browser'[POOL[s]] = "closing"
                 /\ \A c \in Crawler : c # POOL[s] => browser'[c] = 
                             [browser EXCEPT ![POOL[reap]] = e][c]
    <2>1. CASE Expired(todo) = {} /\ pc' = [pc EXCEPT ![Janitor] = "sleep"]
               /\ owner' = NoActor /\ todo' = {} /\ browser' = [browser EXCEPT ![POOL[reap]] = e] /\ reap' = reap
      BY <1>e, <2>1 DEF TypeOK, Actor, JanitorPC
    <2>2. ASSUME NEW s \in Expired(todo),
                 pc' = [pc EXCEPT ![Janitor] = "reaping"], owner' = Janitor,
                 todo' = todo \ {s}, reap' = s,
                 browser' = [[browser EXCEPT ![POOL[reap]] = e] EXCEPT ![POOL[s]] = "closing"]
          PROVE  /\ browser' \in [Crawler -> BrowserState]
                 /\ pc' \in [Actor -> TaskPC \cup JanitorPC \cup CloserPC]
                 /\ \A a \in Actor : a # Janitor => pc'[a] = pc[a]
                 /\ s \in todo /\ pc'[Janitor] = "reaping"
                 /\ now - LAST_USED[s] > IDLE_TTL_SEC
                 /\ browser'[POOL[s]] = "closing"
                 /\ \A c \in Crawler : c # POOL[s] => browser'[c] = 
                             [browser EXCEPT ![POOL[reap]] = e][c]
      <3>1. s \in todo /\ now - LAST_USED[s] > IDLE_TTL_SEC /\ POOL[s] \in Crawler
        BY <1>e, <2>2 DEF Expired, TypeOK, IsDict
      <3>. QED
        BY <1>e, <2>2, <3>1 DEF TypeOK, Actor, JanitorPC, BrowserState, Ended
    <2>. QED
      BY <1>e, <2>1, <2>2 DEF Scan
  <1>g. /\ Janitor \in Actor /\ Closer \in Actor
        /\ \A t \in Task : t \in Actor /\ pc'[t] = pc[t]
                           /\ pc[t] \notin {"starting", "evicting"}
        /\ pc[Closer] # "gathering"
    BY <1>a, <1>f DEF Actor, LockHeld
  <1>h. /\ pc'[Janitor] \in {"sleep", "reaping"} /\ owner' \in {NoActor, Janitor}
        /\ todo' \subseteq DOMAIN POOL' /\ reap' \in Sig
        /\ pc'[Janitor] = "reaping" => reap' \in DOMAIN POOL'
    BY <1>b, <1>d, <1>f DEF TypeOK, IsDict
  <1>i. /\ browser'[POOL[reap]] = e
        /\ \A c \in Crawler : c # POOL[reap] =>
              \/ browser'[c] = browser[c]
              \/ /\ pc'[Janitor] = "reaping" /\ browser'[c] = "closing"
                 /\ reap' \in DOMAIN POOL' /\ POOL'[reap'] = c
    <2>1. [browser EXCEPT ![POOL[reap]] = e][POOL[reap]] = e
          /\ \A c \in Crawler : c # POOL[reap] =>
                [browser EXCEPT ![POOL[reap]] = e][c] = browser[c]
      BY <1>a DEF TypeOK
    <2>2. CASE browser' = [browser EXCEPT ![POOL[reap]] = e]
      BY <2>1, <2>2
    <2>3. ASSUME NEW s \in todo,
                 pc'[Janitor] = "reaping", reap' = s,
                 browser'[POOL[s]] = "closing",
                 \A c \in Crawler : c # POOL[s] => browser'[c] =
                             [browser EXCEPT ![POOL[reap]] = e][c]
          PROVE  <1>i!1 /\ <1>i!2
      <3>1. POOL[s] # POOL[reap] /\ s \in DOMAIN POOL' /\ POOL'[s] = POOL[s]
        BY <1>a, <1>b, <1>d DEF CrawlerPlace
      <3>. QED
        BY <1>a, <2>1, <2>3, <3>1
    <2>. QED
      BY <1>f, <2>2, <2>3
  <1>1. TypeOK'
    BY <1>0, <1>a, <1>b, <1>c, <1>d, <1>f, <1>g, <1>h, <1>i
    DEF JanitorReaped, Ended, TypeOK, IsDict, JanitorPC
  <1>2. LockHeld'
    BY <1>0, <1>a, <1>b, <1>c, <1>d, <1>f, <1>g, <1>h, <1>i
    DEF JanitorReaped, Ended, LockHeld
  <1>3. BookkeepingAgrees'
    BY <1>0, <1>a, <1>b, <1>c, <1>d, <1>f, <1>g, <1>h, <1>i
    DEF JanitorReaped, Ended, BookkeepingAgrees
  <1>4. JanitorPlace'
    BY <1>0, <1>a, <1>b, <1>c, <1>d, <1>f, <1>g, <1>h, <1>i
    DEF JanitorReaped, Ended, JanitorPlace
  <1>5. CrawlerPlace'
    BY <1>0, <1>a, <1>b, <1>c, <1>d, <1>f, <1>g, <1>h, <1>i
    DEF JanitorReaped, Ended, CrawlerPlace
  <1>6. PooledBrowser'
    BY <1>0, <1>a, <1>b, <1>c, <1>d, <1>f, <1>g, <1>h, <1>i
    DEF JanitorReaped, Ended, PooledBrowser, CrawlerPlace, LockHeld, TypeOK, IsDict
  <1>7. LiveBrowser'
    <2> SUFFICES ASSUME NEW c \in Crawler, browser'[c] \in {"open", "closing"}
                 PROVE  \E r \in DOMAIN POOL' : POOL'[r] = c
      BY DEF LiveBrowser
    <2>1. c # POOL[reap]
      BY <1>0, <1>i DEF Ended
    <2>2. CASE browser'[c] = browser[c]
      <3>1. PICK r \in DOMAIN POOL : POOL[r] = c
        BY <1>g, <2>2 DEF LiveBrowser
      <3>. QED
        BY <1>b, <2>1, <3>1
    <2>. QED
      BY <1>i, <2>1, <2>2
  <1>8. StartingBrowser'
    <2>1. \A c \in Crawler : browser'[c] = "starting" => browser[c] = "starting"
      BY <1>0, <1>i DEF Ended
    <2>2. \A t \in Task : pc[t] # "starting"
      BY <1>g
    <2>. QED
      BY <2>1, <2>2 DEF StartingBrowser
  <1>9. Stamps'
    BY <1>0, <1>a, <1>b, <1>c, <1>d, <1>f, <1>g, <1>h, <1>i
    DEF JanitorReaped, Ended, Stamps, BookkeepingAgrees
  <1>. QED
    BY <1>1, <1>2, <1>3, <1>4, <1>5, <1>6, <1>7, <1>8, <1>9

\* The janitor's cancellation preserves the invariant.
LEMMA JanitorCancelInv ==
    ASSUME Inv, JanitorCancel
    PROVE  Inv'
  <1> USE ActorsDistinct, CrawlerAssumption, TimeAssumption DEF Inv
  <1>1. TypeOK'
    BY LeaveType
    DEF JanitorCancel, TypeOK, Actor, TaskPC, JanitorPC, CloserPC, WaitingPC,
        BrowserState, Ended, IsDict
  <1>2. LockHeld'
    BY LeaveType
    DEF JanitorCancel, TypeOK, LockHeld, Actor, TaskPC, JanitorPC, CloserPC,
        WaitingPC
  <1>3. BookkeepingAgrees'
    BY LeaveType
    DEF JanitorCancel, BookkeepingAgrees, JanitorPlace, LockHeld, TypeOK,
        IsDict, Actor
  <1>4. JanitorPlace'
    BY LeaveType
    DEF JanitorCancel, BookkeepingAgrees, JanitorPlace, LockHeld, TypeOK,
        IsDict, Actor
  <1>5. CrawlerPlace'
    BY LeaveType
    DEF JanitorCancel, CrawlerPlace, LockHeld, TypeOK, IsDict, Actor
  <1>6. PooledBrowser'
    BY LeaveType
    DEF JanitorCancel, PooledBrowser, CrawlerPlace, LockHeld, JanitorPlace,
        TypeOK, IsDict, Actor
  <1>7. LiveBrowser'
    BY LeaveType
    DEF JanitorCancel, LiveBrowser, CrawlerPlace, LockHeld, JanitorPlace,
        TypeOK, IsDict, Actor
  <1>8. StartingBrowser'
    BY LeaveType
    DEF JanitorCancel, StartingBrowser, CrawlerPlace, LockHeld, TypeOK, IsDict,
        Actor
  <1>9. Stamps'
    BY LeaveType
    DEF JanitorCancel, Stamps, CrawlerPlace, BookkeepingAgrees, LockHeld,
        TypeOK, IsDict, Actor
  <1>. QED
    BY <1>1, <1>2, <1>3, <1>4, <1>5, <1>6, <1>7, <1>8, <1>9

\* A call of close_all preserves the invariant.
LEMMA CloseAllInv ==
    ASSUME Inv, CloseAll
    PROVE  Inv'
  <1> USE ActorsDistinct, CrawlerAssumption, TimeAssumption DEF Inv
  <1>1. TypeOK'
    BY DEF CloseAll, Enqueue, TypeOK, Actor, TaskPC, JanitorPC, CloserPC,
           WaitingPC, BrowserState, Ended, IsDict
  <1>2. LockHeld'
    BY DEF CloseAll, Enqueue, TypeOK, LockHeld, Actor, TaskPC, JanitorPC,
           CloserPC, WaitingPC
  <1>3. BookkeepingAgrees'
    BY DEF CloseAll, Enqueue, BookkeepingAgrees, JanitorPlace, LockHeld,
           TypeOK, IsDict, Actor
  <1>4. JanitorPlace'
    BY DEF CloseAll, Enqueue, BookkeepingAgrees, JanitorPlace, LockHeld,
           TypeOK, IsDict, Actor
  <1>5. CrawlerPlace'
    BY DEF CloseAll, Enqueue, CrawlerPlace, LockHeld, TypeOK, IsDict, Actor
  <1>6. PooledBrowser'
    BY DEF CloseAll, Enqueue, PooledBrowser, CrawlerPlace, LockHeld,
           JanitorPlace, TypeOK, IsDict, Actor
  <1>7. LiveBrowser'
    BY DEF CloseAll, Enqueue, LiveBrowser, CrawlerPlace, LockHeld,
           JanitorPlace, TypeOK, IsDict, Actor
  <1>8. StartingBrowser'
    BY DEF CloseAll, Enqueue, StartingBrowser, CrawlerPlace, LockHeld, TypeOK,
           IsDict, Actor
  <1>9. Stamps'
    BY DEF CloseAll, Enqueue, Stamps, CrawlerPlace, BookkeepingAgrees,
           LockHeld, TypeOK, IsDict, Actor
  <1>. QED
    BY <1>1, <1>2, <1>3, <1>4, <1>5, <1>6, <1>7, <1>8, <1>9

\* Gathering the closes preserves the invariant.
LEMMA CloseAllBeginInv ==
    ASSUME Inv, CloseAllBegin
    PROVE  Inv'
  <1> USE ActorsDistinct, CrawlerAssumption, TimeAssumption DEF Inv
  <1>1. TypeOK'
    BY DEF CloseAllBegin, Granted, Pooled, TypeOK, Actor, TaskPC, JanitorPC,
           CloserPC, WaitingPC, BrowserState, Ended, IsDict
  <1>2. LockHeld'
    BY DEF CloseAllBegin, Granted, Pooled, TypeOK, LockHeld, Actor, TaskPC,
           JanitorPC, CloserPC, WaitingPC
  <1>3. BookkeepingAgrees'
    BY DEF CloseAllBegin, Granted, Pooled, BookkeepingAgrees, JanitorPlace,
           LockHeld, TypeOK, IsDict, Actor
  <1>4. JanitorPlace'
    BY DEF CloseAllBegin, Granted, Pooled, BookkeepingAgrees, JanitorPlace,
           LockHeld, TypeOK, IsDict, Actor
  <1>5. CrawlerPlace'
    BY DEF CloseAllBegin, Granted, Pooled, CrawlerPlace, LockHeld, TypeOK,
           IsDict, Actor
  <1>6. PooledBrowser'
    BY DEF CloseAllBegin, Granted, Pooled, PooledBrowser, CrawlerPlace,
           LockHeld, JanitorPlace, TypeOK, IsDict, Actor
  <1>7. LiveBrowser'
    <2>1. /\ \A u \in Task : pc'[u] = pc[u] /\ crawler'[u] = crawler[u]
          /\ \A c \in Crawler : browser'[c] = IF c \in Pooled THEN "closing"
                                              ELSE browser[c]
          /\ POOL' = POOL
      BY ActorsDistinct DEF CloseAllBegin, TypeOK, Actor
    <2>. QED
      BY <2>1 DEF LiveBrowser, Pooled
  <1>8. StartingBrowser'
    BY DEF CloseAllBegin, Granted, Pooled, StartingBrowser, CrawlerPlace,
           LockHeld, TypeOK, IsDict, Actor
  <1>9. Stamps'
    BY DEF CloseAllBegin, Granted, Pooled, Stamps, CrawlerPlace,
           BookkeepingAgrees, LockHeld, TypeOK, IsDict, Actor
  <1>. QED
    BY <1>1, <1>2, <1>3, <1>4, <1>5, <1>6, <1>7, <1>8, <1>9

\* Clearing the pool preserves the invariant.
LEMMA CloseAllEndInv ==
    ASSUME Inv, CloseAllEnd
    PROVE  Inv'
  <1> USE ActorsDistinct, CrawlerAssumption, TimeAssumption DEF Inv
  <1>1. TypeOK'
    BY EmptyDictFacts
    DEF CloseAllEnd, Pooled, TypeOK, Actor, TaskPC, JanitorPC, CloserPC,
        WaitingPC, BrowserState, Ended, IsDict
  <1>2. LockHeld'
    BY EmptyDictFacts
    DEF CloseAllEnd, Pooled, TypeOK, LockHeld, Actor, TaskPC, JanitorPC,
        CloserPC, WaitingPC
  <1>3. BookkeepingAgrees'
    BY EmptyDictFacts
    DEF CloseAllEnd, Pooled, BookkeepingAgrees, JanitorPlace, LockHeld, TypeOK,
        IsDict, Actor
  <1>4. JanitorPlace'
    BY EmptyDictFacts
    DEF CloseAllEnd, Pooled, BookkeepingAgrees, JanitorPlace, LockHeld, TypeOK,
        IsDict, Actor
  <1>5. CrawlerPlace'
    BY EmptyDictFacts
    DEF CloseAllEnd, Pooled, CrawlerPlace, LockHeld, TypeOK, IsDict, Actor
  <1>6. PooledBrowser'
    BY EmptyDictFacts
    DEF CloseAllEnd, Pooled, PooledBrowser, CrawlerPlace, LockHeld,
        JanitorPlace, TypeOK, IsDict, Actor
  <1>7. LiveBrowser'
    BY EmptyDictFacts
    DEF CloseAllEnd, Pooled, LiveBrowser, CrawlerPlace, LockHeld, JanitorPlace,
        TypeOK, IsDict, Actor
  <1>8. StartingBrowser'
    BY EmptyDictFacts
    DEF CloseAllEnd, Pooled, StartingBrowser, CrawlerPlace, LockHeld, TypeOK,
        IsDict, Actor
  <1>9. Stamps'
    BY EmptyDictFacts
    DEF CloseAllEnd, Pooled, Stamps, CrawlerPlace, BookkeepingAgrees, LockHeld,
        TypeOK, IsDict, Actor
  <1>. QED
    BY <1>1, <1>2, <1>3, <1>4, <1>5, <1>6, <1>7, <1>8, <1>9

\* The passage of time preserves the invariant.
LEMMA TickInv ==
    ASSUME Inv, Tick
    PROVE  Inv'
  <1> USE ActorsDistinct, CrawlerAssumption, TimeAssumption DEF Inv
  <1>1. TypeOK'
    BY DEF Tick, TypeOK, Actor, TaskPC, JanitorPC, CloserPC, WaitingPC,
           BrowserState, Ended, IsDict
  <1>2. LockHeld'
    BY DEF Tick, TypeOK, LockHeld, Actor, TaskPC, JanitorPC, CloserPC, WaitingPC
  <1>3. BookkeepingAgrees'
    BY DEF Tick, BookkeepingAgrees, JanitorPlace, LockHeld, TypeOK, IsDict,
           Actor
  <1>4. JanitorPlace'
    BY DEF Tick, BookkeepingAgrees, JanitorPlace, LockHeld, TypeOK, IsDict,
           Actor
  <1>5. CrawlerPlace'
    BY DEF Tick, CrawlerPlace, LockHeld, TypeOK, IsDict, Actor
  <1>6. PooledBrowser'
    BY DEF Tick, PooledBrowser, CrawlerPlace, LockHeld, JanitorPlace, TypeOK,
           IsDict, Actor
  <1>7. LiveBrowser'
    BY DEF Tick, LiveBrowser, CrawlerPlace, LockHeld, JanitorPlace, TypeOK,
           IsDict, Actor
  <1>8. StartingBrowser'
    BY DEF Tick, StartingBrowser, CrawlerPlace, LockHeld, TypeOK, IsDict, Actor
  <1>9. Stamps'
    BY DEF Tick, Stamps, CrawlerPlace, BookkeepingAgrees, LockHeld, TypeOK,
           IsDict, Actor
  <1>. QED
    BY <1>1, <1>2, <1>3, <1>4, <1>5, <1>6, <1>7, <1>8, <1>9

(***************************************************************************)
(* The theorems.                                                           *)
(***************************************************************************)

\* The module starts in a state of the invariant.
LEMMA InitInv == Init => Inv
  <1> SUFFICES ASSUME Init PROVE Inv
    OBVIOUS
  <1> USE ActorsDistinct, CrawlerAssumption, TimeAssumption DEF Init
  <1>1. TypeOK
    BY EmptyDictFacts
    DEF TypeOK, Actor, TaskPC, JanitorPC, CloserPC, WaitingPC, BrowserState, Ended
  <1>2. LockHeld /\ JanitorPlace
    BY DEF LockHeld, JanitorPlace, Actor
  <1>3. BookkeepingAgrees /\ CrawlerPlace /\ Stamps
    BY EmptyDictFacts, <1>1
    DEF BookkeepingAgrees, CrawlerPlace, Stamps, Actor, TypeOK
  <1>4. PooledBrowser /\ LiveBrowser /\ StartingBrowser
    BY EmptyDictFacts DEF PooledBrowser, LiveBrowser, StartingBrowser
  <1>. QED
    BY <1>1, <1>2, <1>3, <1>4 DEF Inv

\* A step that changes nothing the invariant speaks of preserves it.
LEMMA StutterInv == Inv /\ UNCHANGED vars => Inv'
  BY DEF vars, Inv, TypeOK, LockHeld, BookkeepingAgrees, JanitorPlace,
         CrawlerPlace, PooledBrowser, LiveBrowser, StartingBrowser, Stamps,
         IsDict

\* Every step of every actor preserves the invariant.
LEMMA NextInv == Inv /\ [Next]_vars => Inv'
  <1> SUFFICES ASSUME Inv, [Next]_vars PROVE Inv'
    OBVIOUS
  <1>1. ASSUME NEW t \in Task, TaskStep(t) PROVE Inv'
    BY <1>1, HitInv, MissInv, EvictBeginInv, EvictEndInv, EvictNothingInv,
       CreateInv, StartOkInv, StartFailInv DEF TaskStep
  <1>2. ASSUME NEW t \in Task,
               \/ \E s \in Sig : GetCrawler(t, s)
               \/ DoneUsing(t) \/ CancelWaiting(t) \/ CancelInBrowser(t)
        PROVE  Inv'
    BY <1>2, GetCrawlerInv, DoneUsingInv, CancelWaitingInv, CancelInBrowserInv
  <1>3. CASE JanitorStep \/ JanitorCancel
    BY <1>3, JanitorWakeInv, JanitorLockInv, JanitorReapedInv, JanitorCancelInv
    DEF JanitorStep
  <1>4. CASE CloseAll \/ CloserStep
    BY <1>4, CloseAllInv, CloseAllBeginInv, CloseAllEndInv DEF CloserStep
  <1>5. CASE Tick
    BY <1>5, TickInv
  <1>6. CASE UNCHANGED vars
    BY <1>6, StutterInv
  <1>. QED
    BY <1>1, <1>2, <1>3, <1>4, <1>5, <1>6 DEF Next

\* The invariant holds in every reachable state.
THEOREM PoolInvariant == Spec => []Inv
  BY InitInv, NextInv, PTL DEF Spec

\* Every variable of the pool keeps its type, in every instance.
THEOREM TypeCorrect == Spec => []TypeOK
  <1>1. Inv => TypeOK
    BY DEF Inv
  <1>. QED
    BY <1>1, PoolInvariant, PTL

\* POOL and LAST_USED never disagree, so janitor() never raises KeyError.
THEOREM Bookkeeping == Spec => []BookkeepingAgrees
  <1>1. Inv => BookkeepingAgrees
    BY DEF Inv
  <1>. QED
    BY <1>1, PoolInvariant, PTL

\* An open browser is always in POOL, under one signature; one that is being
\* started or closed is in POOL or with the task that holds LOCK; and POOL has
\* no entry of any other browser.
THEOREM NoOrphan == Spec => []NoOrphanBrowser
  <1>1. ASSUME Inv PROVE NoOrphanBrowser
    <2> USE <1>1 DEF Inv
    <2>1. ASSUME NEW c \in Crawler, browser[c] = "open"
          PROVE  \E s \in DOMAIN POOL :
                     /\ POOL[s] = c
                     /\ \A r \in DOMAIN POOL : POOL[r] = c => r = s
      BY <2>1 DEF LiveBrowser, CrawlerPlace
    <2>2. ASSUME NEW c \in Crawler, browser[c] \in {"starting", "closing"}
          PROVE  \/ \E s \in DOMAIN POOL : POOL[s] = c
                 \/ \E t \in Task : owner = t /\ crawler[t] = c
      BY <2>2 DEF LiveBrowser, StartingBrowser, LockHeld
    <2>3. \A s \in DOMAIN POOL : browser[POOL[s]] \in {"open", "closing"}
      BY DEF PooledBrowser
    <2>. QED
      BY <2>1, <2>2, <2>3 DEF NoOrphanBrowser
  <1>. QED
    BY <1>1, PoolInvariant, PTL

\* One start at a time for a signature, and none for a pooled one.
THEOREM OneBrowser == Spec => []OneBrowserPerSig
  <1>1. Inv => OneBrowserPerSig
    BY ActorsDistinct DEF Inv, LockHeld, CrawlerPlace, OneBrowserPerSig
  <1>. QED
    BY <1>1, PoolInvariant, PTL

\* get_crawler hands out open crawlers only, as long as the janitor lives.
THEOREM HandOut == Spec => HandsOutOpen
  <1>1. Inv /\ [Next]_vars =>
           [\A t \in Task : HandedOut(t) =>
               browser'[crawler'[t]] = "open" \/ pc'[Janitor] = "cancelled"]_vars
    <2> SUFFICES ASSUME Inv, Next, NEW t \in Task, HandedOut(t)
                 PROVE  browser'[crawler'[t]] = "open"
                        \/ pc'[Janitor] = "cancelled"
      BY DEF vars
    <2> USE ActorsDistinct DEF Inv
    <2>1. Hit(t) \/ StartOk(t)
      <3>1. pc \in [Actor -> TaskPC \cup JanitorPC \cup CloserPC] /\ t \in Actor
            /\ Janitor \in Actor /\ Closer \in Actor /\ Task \subseteq Actor
            /\ t # Janitor /\ t # Closer /\ pc[t] # "using" /\ pc'[t] = "using"
        BY DEF TypeOK, Actor, HandedOut
      <3>2. ASSUME NEW u \in Task, TaskStep(u), ~Hit(u), ~StartOk(u)
            PROVE  FALSE
        BY <3>1, <3>2 DEF TaskStep, Miss, EvictBegin, EvictEnd, EvictNothing,
                          Create, StartFail
      <3>3. ASSUME NEW u \in Task,
                   \/ \E s \in Sig : GetCrawler(u, s)
                   \/ DoneUsing(u) \/ CancelWaiting(u) \/ CancelInBrowser(u)
            PROVE  FALSE
        BY <3>1, <3>3 DEF GetCrawler, DoneUsing, CancelWaiting, CancelInBrowser
      <3>4. CASE JanitorStep \/ JanitorCancel
        BY <3>1, <3>4 DEF JanitorStep, JanitorWake, JanitorLock, JanitorReaped,
                          Scan, JanitorCancel
      <3>5. CASE CloseAll \/ CloserStep \/ Tick
        BY <3>1, <3>5 DEF CloserStep, CloseAll, CloseAllBegin, CloseAllEnd, Tick
      <3>6. ASSUME NEW u \in Task, Hit(u) \/ StartOk(u), u # t
            PROVE  FALSE
        BY <3>1, <3>6 DEF Hit, StartOk
      <3>. QED
        BY <3>2, <3>3, <3>4, <3>5, <3>6 DEF Next
    <2>2. CASE Hit(t)
      <3>1. owner = NoActor /\ sig[t] \in DOMAIN POOL
            /\ browser' = browser /\ crawler'[t] = POOL[sig[t]]
            /\ pc' = [pc EXCEPT ![t] = "using"]
        BY <2>2 DEF Hit, Granted, TypeOK
      <3>2. pc[Janitor] # "reaping" /\ pc[Closer] # "gathering"
        BY <3>1 DEF LockHeld, Actor
      <3>3. pc'[Janitor] = pc[Janitor]
        BY <3>1 DEF TypeOK, Actor
      <3>. QED
        BY <3>1, <3>2, <3>3 DEF PooledBrowser
    <2>3. CASE StartOk(t)
      BY <2>3 DEF StartOk, TypeOK
    <2>. QED
      BY <2>1, <2>2, <2>3
  <1>. QED
    BY <1>1, PoolInvariant, PTL DEF Spec, HandsOutOpen

\* close_all leaves no browser open, starting or half closed.
THEOREM CloseAllCloses == Spec => CloseAllLeavesNoneOpen
  <1>1. Inv /\ [Next]_vars =>
           [pc[Closer] = "gathering" /\ pc'[Closer] = "idle" =>
               \A c \in Crawler :
                   browser'[c] \notin {"open", "starting", "closing"}]_vars
    <2> SUFFICES ASSUME Inv, Next, pc[Closer] = "gathering",
                        pc'[Closer] = "idle", NEW c \in Crawler
                 PROVE  browser'[c] \notin {"open", "starting", "closing"}
      BY DEF vars
    <2> USE ActorsDistinct DEF Inv
    <2>1. CloseAllEnd
      <3>1. pc \in [Actor -> TaskPC \cup JanitorPC \cup CloserPC]
            /\ Janitor \in Actor /\ Closer \in Actor /\ Task \subseteq Actor
            /\ pc'[Closer] # pc[Closer] /\ Closer \notin Task /\ Janitor # Closer
        BY DEF TypeOK, Actor
      <3>2. ASSUME NEW u \in Task, TaskStep(u) PROVE FALSE
        BY <3>1, <3>2 DEF TaskStep, Hit, Miss, EvictBegin, EvictEnd,
                          EvictNothing, Create, StartOk, StartFail
      <3>3. ASSUME NEW u \in Task,
                   \/ \E s \in Sig : GetCrawler(u, s)
                   \/ DoneUsing(u) \/ CancelWaiting(u) \/ CancelInBrowser(u)
            PROVE  FALSE
        BY <3>1, <3>3 DEF GetCrawler, DoneUsing, CancelWaiting, CancelInBrowser
      <3>4. CASE JanitorStep \/ JanitorCancel
        BY <3>1, <3>4 DEF JanitorStep, JanitorWake, JanitorLock, JanitorReaped,
                          Scan, JanitorCancel
      <3>5. CASE CloseAll \/ CloseAllBegin \/ Tick
        BY <3>1, <3>5 DEF CloseAll, CloseAllBegin, Tick
      <3>. QED
        BY <3>2, <3>3, <3>4, <3>5 DEF Next, CloserStep
    <2>2. \A t \in Task : pc[t] \notin {"starting", "evicting"}
      BY DEF LockHeld, Actor
    <2>3. browser'[c] \in (IF c \in Pooled THEN Ended ELSE {browser[c]})
      BY <2>1 DEF CloseAllEnd, Ended
    <2>4. c \notin Pooled => browser[c] \notin {"open", "starting", "closing"}
      BY <2>2 DEF LiveBrowser, StartingBrowser, Pooled
    <2>. QED
      BY <2>3, <2>4 DEF Ended
  <1>. QED
    BY <1>1, PoolInvariant, PTL DEF Spec, CloseAllLeavesNoneOpen

\* POOL is written by the holder of LOCK only, in every instance: the actor that
\* takes the step is the one that takes LOCK in it or gives it up, and the
\* `finally` of get_crawler, which runs while others hold LOCK, writes nothing
\* to POOL.
THEOREM PoolUnderLock == Spec => PoolChangesUnderLock
  <1> DEFINE Writers ==
          /\ \E a \in Actor : Moves(a)
          /\ \A a \in Actor : Moves(a) => owner = a \/ owner' = a
  <1>1. Inv /\ [Next]_vars => [POOL' # POOL => Writers]_vars
    <2> SUFFICES ASSUME Inv, Next, POOL' # POOL
                 PROVE  Writers
      BY DEF vars
    <2>a. /\ LockHeld /\ NoActor \notin Actor /\ Task \subseteq Actor
          /\ Janitor \in Actor /\ Closer \in Actor
          /\ Janitor \notin Task /\ Janitor # Closer
          /\ pc \in [Actor -> TaskPC \cup JanitorPC \cup CloserPC]
      BY ActorsDistinct DEF Inv, TypeOK, Actor
    <2>b. ASSUME NEW a \in Actor, NEW q, pc' = [pc EXCEPT ![a] = q], pc[a] # q,
                 a = Janitor \/ todo' = todo, owner = a \/ owner' = a
          PROVE  Writers
      BY <2>a, <2>b DEF Moves
    <2>1. ASSUME NEW t \in Task, TaskStep(t)
          PROVE  Writers
      <3>1. EvictBegin(t) \/ StartOk(t)
        BY <2>1 DEF TaskStep, Hit, Miss, EvictEnd, EvictNothing, Create,
                    StartFail, Finally
      <3>2. CASE EvictBegin(t)
        <4>1. /\ pc' = [pc EXCEPT ![t] = "evicting"] /\ pc[t] # "evicting"
              /\ todo' = todo /\ owner' = t
          BY <3>2 DEF EvictBegin
        <4>. QED
          BY <2>a, <2>b, <4>1
      <3>3. CASE StartOk(t)
        <4>1. /\ pc' = [pc EXCEPT ![t] = "using"] /\ pc[t] # "using"
              /\ todo' = todo /\ owner = t
          BY <2>a, <3>3 DEF StartOk, LockHeld
        <4>. QED
          BY <2>a, <2>b, <4>1
      <3>. QED
        BY <3>1, <3>2, <3>3
    <2>2. ASSUME NEW t \in Task,
                 \/ \E s \in Sig : GetCrawler(t, s)
                 \/ DoneUsing(t) \/ CancelWaiting(t) \/ CancelInBrowser(t)
          PROVE  FALSE
      BY <2>2 DEF GetCrawler, DoneUsing, CancelWaiting, CancelInBrowser, Finally
    <2>3. CASE JanitorReaped
      <3>1. owner = Janitor
        BY <2>a, <2>3 DEF JanitorReaped, LockHeld
      <3>2. \A a \in Actor : a # Janitor => pc'[a] = pc[a]
        BY <2>a, <2>3 DEF JanitorReaped, Scan
      <3>3. Moves(Janitor)
        <4>1. CASE pc' = [pc EXCEPT ![Janitor] = "sleep"]
          BY <2>a, <2>3, <4>1 DEF JanitorReaped, Moves
        <4>2. ASSUME NEW s \in Expired(todo), todo' = todo \ {s}
              PROVE  Moves(Janitor)
          BY <4>2 DEF Expired, Moves
        <4>. QED
          BY <2>3, <4>1, <4>2 DEF JanitorReaped, Scan
      <3>. QED
        BY <2>a, <3>1, <3>2, <3>3 DEF Moves
    <2>4. CASE CloseAllEnd
      <3>1. /\ pc' = [pc EXCEPT ![Closer] = "idle"] /\ pc[Closer] # "idle"
            /\ todo' = todo /\ owner = Closer
        BY <2>a, <2>4 DEF CloseAllEnd, LockHeld
      <3>. QED
        BY <2>a, <2>b, <3>1
    <2>5. CASE JanitorWake \/ JanitorLock \/ JanitorCancel
      BY <2>5 DEF JanitorWake, JanitorLock, JanitorCancel
    <2>6. CASE CloseAll \/ CloseAllBegin \/ Tick
      BY <2>6 DEF CloseAll, CloseAllBegin, Tick
    <2>. QED
      BY <2>1, <2>2, <2>3, <2>4, <2>5, <2>6 DEF Next, JanitorStep, CloserStep
  <1>. QED
    BY <1>1, PoolInvariant, PTL DEF Spec, PoolChangesUnderLock

\* What the janitor's loop begins to close has gone unused for longer than
\* IDLE_TTL_SEC, since every hand-out stamps LAST_USED and `now` is not ahead
\* of the clock.
LEMMA ScanRespectsTTL ==
    ASSUME Inv, NEW S \in SUBSET DOMAIN POOL, NEW b, Scan(S, b),
           NEW t \in Task, pc[t] = "using",
           b \in [Crawler -> BrowserState], b[crawler[t]] # "closing",
           browser'[crawler[t]] = "closing"
    PROVE  clock - since[t] > IDLE_TTL_SEC
  <1>1. PICK s \in Expired(S) : browser' = [b EXCEPT ![POOL[s]] = "closing"]
    BY DEF Scan
  <1>2. s \in DOMAIN POOL /\ s \in DOMAIN LAST_USED
        /\ now - LAST_USED[s] > IDLE_TTL_SEC
    BY <1>1 DEF Expired, Inv, BookkeepingAgrees
  <1>3. POOL[s] = crawler[t]
    <2>1. crawler[t] \in Crawler
      BY DEF Inv, TypeOK
    <2>. QED
      BY <1>1, <2>1
  <1>4. since[t] <= LAST_USED[s] /\ now <= clock
    BY <1>2, <1>3 DEF Inv, Stamps
  <1>5. since[t] \in Int /\ LAST_USED[s] \in Int /\ now \in Int /\ clock \in Int
    BY <1>2, TimeAssumption DEF Inv, TypeOK, IsDict
  <1>. QED
    BY <1>2, <1>4, <1>5, TimeAssumption

\* The janitor never reaps a crawler within IDLE_TTL_SEC of handing it to a
\* task that still uses it, for every number of tasks and every IDLE_TTL_SEC.
THEOREM ReapTTL == Spec => ReapRespectsTTL
  <1>1. Inv /\ [Next]_vars =>
           [\A t \in Task : pc[t] = "using" /\ ReapBegins(crawler[t]) =>
               clock - since[t] > IDLE_TTL_SEC]_vars
    <2> SUFFICES ASSUME Inv, Next, NEW t \in Task, pc[t] = "using",
                        ReapBegins(crawler[t])
                 PROVE  clock - since[t] > IDLE_TTL_SEC
      BY DEF vars
    <2>a. /\ crawler[t] \in Crawler /\ browser \in [Crawler -> BrowserState]
          /\ pc \in [Actor -> TaskPC \cup JanitorPC \cup CloserPC]
          /\ Task \subseteq Actor /\ Janitor \in Actor /\ Closer \in Actor
          /\ Janitor \notin Task /\ Janitor # Closer
          /\ NoActor \notin Actor /\ LockHeld
      BY ActorsDistinct DEF Inv, TypeOK, Actor
    <2>b. browser[crawler[t]] # "closing" /\ browser'[crawler[t]] = "closing"
          /\ pc'[Janitor] = "reaping"
      BY DEF ReapBegins
    <2>1. CASE JanitorLock
      <3>1. Scan(DOMAIN POOL, browser)
        BY <2>1 DEF JanitorLock
      <3>. QED
        BY <2>a, <2>b, <3>1, ScanRespectsTTL
    <2>2. CASE JanitorReaped
      <3>0. PICK e \in Ended : Scan(todo, [browser EXCEPT ![POOL[reap]] = e])
        BY <2>2 DEF JanitorReaped
      <3> DEFINE b == [browser EXCEPT ![POOL[reap]] = e]
      <3>1. Scan(todo, b) /\ todo \in SUBSET DOMAIN POOL
        BY <3>0 DEF Inv, BookkeepingAgrees
      <3>2. b \in [Crawler -> BrowserState] /\ b[crawler[t]] # "closing"
        BY <2>a, <2>b, <3>0 DEF BrowserState, Ended
      <3> HIDE DEF b
      <3>. QED
        BY <2>b, <3>1, <3>2, ScanRespectsTTL
    <2>3. ASSUME NEW u \in Task, EvictBegin(u) PROVE FALSE
      <3>1. owner = NoActor /\ pc'[Janitor] = pc[Janitor]
        BY <2>a, <2>3 DEF EvictBegin, Granted
      <3>. QED
        BY <2>a, <2>b, <3>1 DEF LockHeld
    <2>4. CASE CloseAllBegin
      <3>1. owner = NoActor /\ pc'[Janitor] = pc[Janitor]
        BY <2>a, <2>4 DEF CloseAllBegin, Granted
      <3>. QED
        BY <2>a, <2>b, <3>1 DEF LockHeld
    <2>5. ASSUME NEW u \in Task, TaskStep(u), ~EvictBegin(u) PROVE FALSE
      BY <2>a, <2>b, <2>5 DEF TaskStep, Hit, Miss, EvictEnd, EvictNothing,
                              Create, StartOk, StartFail, BrowserState, Ended
    <2>6. ASSUME NEW u \in Task,
                 \/ \E s \in Sig : GetCrawler(u, s)
                 \/ DoneUsing(u) \/ CancelWaiting(u) \/ CancelInBrowser(u)
          PROVE  FALSE
      BY <2>a, <2>b, <2>6
      DEF Ended, GetCrawler, DoneUsing, CancelWaiting, CancelInBrowser
    <2>7. CASE JanitorWake \/ JanitorCancel \/ CloseAll \/ Tick
      BY <2>b, <2>7 DEF JanitorWake, JanitorCancel, CloseAll, Tick
    <2>8. CASE CloseAllEnd
      BY <2>a, <2>b, <2>8 DEF CloseAllEnd
    <2>. QED
      BY <2>1, <2>2, <2>3, <2>4, <2>5, <2>6, <2>7, <2>8
      DEF Next, JanitorStep, CloserStep
  <1>. QED
    BY <1>1, PoolInvariant, PTL DEF Spec, ReapRespectsTTL

(***************************************************************************)
(* The pool implements LeaseService: what a step does to the callers' view *)
(* of the pool (Phase, Held, Shared), and then one abstract step, or none, *)
(* for each action.                                                        *)
(***************************************************************************)
Viewed(q) == IF q = "idle" THEN "idle"
             ELSE IF q = "using" THEN "holding" ELSE "asking"

\* A step of task t moves its phase only, and is none of the janitor's.
LEMMA PhaseStep ==
    ASSUME TypeOK, NEW t \in Task, NEW q, pc' = [pc EXCEPT ![t] = q]
    PROVE  /\ Phase' = [Phase EXCEPT ![t] = Viewed(q)]
           /\ pc'[Janitor] = pc[Janitor]
           /\ Phase[t] = Viewed(pc[t])
  <1>1. Task \subseteq Actor /\ Janitor \in Actor /\ t # Janitor
        /\ pc \in [Actor -> TaskPC \cup JanitorPC \cup CloserPC]
    BY ActorsDistinct DEF Actor, TypeOK
  <1>2. Phase' = [Phase EXCEPT ![t] = Viewed(q)]
    BY <1>1 DEF Phase, Viewed
  <1>. QED
    BY <1>1, <1>2 DEF Phase, Viewed

\* A step of the janitor, of close_all or of the clock leaves every task's
\* phase and browser alone.
LEMMA OthersStep ==
    ASSUME TypeOK, NEW a \in {Janitor, Closer}, NEW q,
           pc' = [pc EXCEPT ![a] = q], crawler' = crawler
    PROVE  Phase' = Phase /\ Held' = Held
  <1>1. \A t \in Task : pc'[t] = pc[t]
    BY ActorsDistinct DEF Actor, TypeOK
  <1>. QED
    BY <1>1 DEF Phase, Held

\* A task that neither starts nor stops using a browser holds what it held.
LEMMA HeldSame ==
    ASSUME TypeOK, NEW t \in Task, NEW q, pc' = [pc EXCEPT ![t] = q],
           pc[t] # "using", q # "using",
           \A u \in Task \ {t} : crawler'[u] = crawler[u]
    PROVE  Held' = Held
  <1>1. \A u \in Task : pc'[u] = IF u = t THEN q ELSE pc[u]
    BY DEF Actor, TypeOK
  <1>2. \A u \in Task : (IF pc'[u] = "using" THEN crawler'[u] ELSE NoCrawler)
                        = (IF pc[u] = "using" THEN crawler[u] ELSE NoCrawler)
    BY <1>1
  <1>. QED
    BY <1>2 DEF Held

\* The shared browsers change only with POOL or with what is open in it.
LEMMA SharedSame ==
    ASSUME POOL' = POOL,
           \A s \in DOMAIN POOL :
               browser'[POOL[s]] = "open" <=> browser[POOL[s]] = "open"
    PROVE  Shared' = Shared
  BY DEF Shared, Restrict

\* Fewer entries, or fewer open ones: a withdrawal.
LEMMA SharedLess ==
    ASSUME DOMAIN POOL' \subseteq DOMAIN POOL,
           \A s \in DOMAIN POOL' : POOL'[s] = POOL[s],
           \A s \in DOMAIN POOL' :
               browser'[POOL[s]] = "open" => browser[POOL[s]] = "open"
    PROVE  \E S \in SUBSET DOMAIN Shared : Shared' = Restrict(Shared, S)
  <1> DEFINE S == {s \in DOMAIN POOL' : browser'[POOL'[s]] = "open"}
  <1>1. S \subseteq DOMAIN Shared
    BY DEF Shared, Restrict
  <1>2. Shared' = [s \in S |-> POOL'[s]]
    BY DEF Shared, Restrict
  <1>3. \A s \in S : POOL'[s] = Shared[s]
    BY DEF Shared, Restrict
  <1>4. Shared' = Restrict(Shared, S)
    BY <1>2, <1>3 DEF Restrict
  <1>. QED
    BY <1>1, <1>4

\* Asking, and the steps inside the call that its caller cannot see.
LEMMA AskingImplements ==
    ASSUME Inv, NEW t \in Task,
           (\E s \in Sig : GetCrawler(t, s)) \/ Miss(t) \/ Create(t)
    PROVE  [Leases!Next]_(Leases!lvars)
  <1> USE DEF Inv
  <1>1. ASSUME NEW s \in Sig, GetCrawler(t, s) PROVE Leases!Ask(t)
    <2>1. Phase' = [Phase EXCEPT ![t] = "asking"] /\ Phase[t] = "idle"
          /\ pc'[Janitor] = pc[Janitor]
      <3>1. pc' = [pc EXCEPT ![t] = "lock1"] /\ pc[t] = "idle"
        BY <1>1 DEF GetCrawler
      <3>2. Phase' = [Phase EXCEPT ![t] = Viewed("lock1")]
            /\ pc'[Janitor] = pc[Janitor]
        BY <3>1, PhaseStep
      <3>3. Viewed("lock1") = "asking"
        BY DEF Viewed
      <3>4. Phase[t] = "idle"
        BY <3>1 DEF Phase
      <3>. QED
        BY <3>2, <3>3, <3>4
    <2>2. Held' = Held
      BY <1>1, HeldSame DEF GetCrawler
    <2>3. Shared' = Shared
      BY <1>1, SharedSame DEF GetCrawler
    <2>. QED
      BY <1>1, <2>1, <2>2, <2>3 DEF GetCrawler, Leases!Ask
  <1>2. ASSUME Miss(t) PROVE UNCHANGED Leases!lvars
    <2>1. PICK q \in {"lockM", "lock2"} : pc' = [pc EXCEPT ![t] = q]
      BY <1>2 DEF Miss
    <2>2. Phase' = [Phase EXCEPT ![t] = "asking"] /\ Phase[t] = "asking"
          /\ pc'[Janitor] = pc[Janitor]
      BY <1>2, <2>1, PhaseStep DEF Miss, Viewed
    <2>3. Phase' = Phase
      BY <2>2 DEF Phase
    <2>4. Held' = Held
      BY <1>2, <2>1, HeldSame DEF Miss
    <2>5. Shared' = Shared
      BY <1>2, SharedSame DEF Miss
    <2>. QED
      BY <1>2, <2>2, <2>3, <2>4, <2>5 DEF Miss, Leases!lvars
  <1>3. ASSUME Create(t) PROVE UNCHANGED Leases!lvars
    <2>1. PICK c \in Crawler :
              /\ Unreferenced(c)
              /\ crawler' = [crawler EXCEPT ![t] = c]
              /\ browser' = [browser EXCEPT ![c] = "starting"]
      BY <1>3 DEF Create
    <2>2. Phase' = [Phase EXCEPT ![t] = "asking"] /\ Phase[t] = "asking"
          /\ pc'[Janitor] = pc[Janitor]
      <3>1. pc' = [pc EXCEPT ![t] = "starting"] /\ pc[t] = "lock2"
        BY <1>3 DEF Create
      <3>2. Viewed("starting") = "asking" /\ Viewed("lock2") = "asking"
        BY DEF Viewed
      <3>. QED
        BY <3>1, <3>2, PhaseStep, Zenon
    <2>3. Phase' = Phase
      BY <2>2 DEF Phase
    <2>4. Held' = Held
      BY <1>3, <2>1, HeldSame DEF Create, TypeOK
    <2>5. Shared' = Shared
      BY <1>3, <2>1, SharedSame DEF Create, Unreferenced, TypeOK
    <2>. QED
      BY <1>3, <2>2, <2>3, <2>4, <2>5 DEF Create, Leases!lvars
  <1>. QED
    BY <1>1, <1>2, <1>3 DEF Leases!Next

\* A hit lends the shared browser: it is open, or the janitor was cancelled.
LEMMA HitImplements ==
    ASSUME Inv, NEW t \in Task, Hit(t)
    PROVE  Leases!LendShared(t) \/ Leases!LendUntended(t)
  <1> USE DEF Inv
  <1> DEFINE c == POOL[sig[t]]
  <1>1. /\ sig[t] \in DOMAIN POOL /\ c \in Crawler
        /\ pc' = [pc EXCEPT ![t] = "using"] /\ pc[t] \in {"lock1", "lock2"}
        /\ crawler' = [crawler EXCEPT ![t] = c]
        /\ UNCHANGED <<sig, browser>> /\ owner = NoActor
    BY DEF Hit, Granted, TypeOK, IsDict
  <1>2. Phase' = [Phase EXCEPT ![t] = "holding"] /\ Phase[t] = "asking"
        /\ pc'[Janitor] = pc[Janitor]
    BY <1>1, PhaseStep DEF Viewed
  <1>3. Held' = [Held EXCEPT ![t] = c]
    <2>1. \A u \in Task : pc'[u] = (IF u = t THEN "using" ELSE pc[u])
                          /\ crawler'[u] = (IF u = t THEN c ELSE crawler[u])
      BY <1>1 DEF TypeOK, Actor
    <2>. QED
      BY <2>1 DEF Held
  <1>4. Shared' = Shared
    BY <1>1, SharedSame DEF Hit, Finally
  <1>5. browser[c] = "open" \/ pc[Janitor] = "cancelled"
    BY <1>1, ActorsDistinct DEF PooledBrowser, LockHeld, Actor
  <1>6. CASE browser[c] = "open"
    <2>1. sig[t] \in DOMAIN Shared /\ Shared[sig[t]] = c
      BY <1>1, <1>6 DEF Shared, Restrict
    <2>2. UNCHANGED <<sig, Shared>>
      BY <1>1, <1>4
    <2>. QED
      BY <1>2, <1>3, <2>1, <2>2 DEF Leases!LendShared, Leases!Lend
  <1>7. CASE pc[Janitor] = "cancelled"
    BY <1>1, <1>2, <1>3, <1>4, <1>7 DEF Leases!LendUntended, Leases!Lend
  <1>. QED
    BY <1>5, <1>6, <1>7

\* A start that succeeds lends a browser nobody else refers to.
LEMMA StartOkImplements ==
    ASSUME Inv, NEW t \in Task, StartOk(t)
    PROVE  Leases!LendNew(t)
  <1> USE DEF Inv
  <1> DEFINE c == crawler[t]
  <1>1. /\ sig[t] \in Sig /\ c \in Crawler /\ pc[t] = "starting"
        /\ pc' = [pc EXCEPT ![t] = "using"]
        /\ UNCHANGED <<sig, crawler>>
        /\ POOL' = Put(POOL, sig[t], c)
        /\ browser' = [browser EXCEPT ![c] = "open"]
    BY DEF StartOk, TypeOK
  <1>2. Phase' = [Phase EXCEPT ![t] = "holding"] /\ Phase[t] = "asking"
        /\ pc'[Janitor] = pc[Janitor]
    BY <1>1, PhaseStep DEF Viewed
  <1>3. /\ sig[t] \notin DOMAIN POOL
        /\ \A s \in DOMAIN POOL : POOL[s] # c
        /\ \A u \in Task : crawler[u] = c => u = t
    BY <1>1 DEF CrawlerPlace
  <1>4. Held' = [Held EXCEPT ![t] = c]
    <2>1. \A u \in Task : pc'[u] = (IF u = t THEN "using" ELSE pc[u])
      BY <1>1 DEF TypeOK, Actor
    <2>. QED
      BY <1>1, <2>1 DEF Held
  <1>5. \A u \in Task : Held[u] # c
    BY <1>1, <1>3, CrawlerAssumption DEF Held
  <1>6. DOMAIN Shared = {s \in DOMAIN POOL : browser[POOL[s]] = "open"}
        /\ \A s \in DOMAIN Shared : Shared[s] = POOL[s]
    BY DEF Shared, Restrict
  <1>7. Shared' = [s \in DOMAIN Shared \cup {sig[t]} |->
                       IF s = sig[t] THEN c ELSE Shared[s]]
    <2>1. DOMAIN POOL' = DOMAIN POOL \cup {sig[t]}
          /\ \A s \in DOMAIN POOL' : POOL'[s] = IF s = sig[t] THEN c ELSE POOL[s]
      BY <1>1 DEF Put
    <2>2. browser'[c] = "open" /\ \A d \in Crawler : d # c => browser'[d] = browser[d]
      BY <1>1 DEF TypeOK
    <2>3. \A s \in DOMAIN POOL : POOL[s] \in Crawler /\ POOL[s] # c
      BY <1>3 DEF TypeOK, IsDict
    <2>4. {s \in DOMAIN POOL' : browser'[POOL'[s]] = "open"}
          = DOMAIN Shared \cup {sig[t]}
      BY <1>3, <1>6, <2>1, <2>2, <2>3
    <2>5. Shared' = [s \in DOMAIN Shared \cup {sig[t]} |-> POOL'[s]]
      BY <2>4 DEF Shared, Restrict
    <2>. QED
      BY <1>3, <1>6, <2>1, <2>5
  <1>8. sig[t] \notin DOMAIN Shared /\ \A s \in DOMAIN Shared : Shared[s] # c
    BY <1>3, <1>6
  <1>. QED
    BY <1>1, <1>2, <1>4, <1>5, <1>7, <1>8 DEF Leases!LendNew, Leases!Lend

\* Every way out of the call but a browser is a refusal.
LEMMA RefuseImplements ==
    ASSUME Inv, NEW t \in Task,
           \/ EvictEnd(t) \/ EvictNothing(t) \/ StartFail(t)
           \/ CancelWaiting(t) \/ CancelInBrowser(t)
    PROVE  Leases!Refuse(t)
  <1> USE DEF Inv
  <1>1. /\ pc' = [pc EXCEPT ![t] = "idle"] /\ pc[t] \notin {"idle", "using"}
        /\ POOL' = POOL /\ sig' = sig
        /\ \A u \in Task \ {t} : crawler'[u] = crawler[u]
    BY DEF EvictEnd, EvictNothing, StartFail, CancelWaiting, CancelInBrowser,
           Finally, WaitingPC, TypeOK
  <1>2. Phase' = [Phase EXCEPT ![t] = "idle"] /\ Phase[t] = "asking"
        /\ pc'[Janitor] = pc[Janitor]
    BY <1>1, PhaseStep DEF Viewed
  <1>3. Held' = Held
    BY <1>1, HeldSame
  <1>4. \A s \in DOMAIN POOL : browser'[POOL[s]] = browser[POOL[s]]
    <2>1. CASE pc[t] \in {"starting", "evicting"}
      <3>1. PICK e \in Ended : browser' = [browser EXCEPT ![crawler[t]] = e]
        BY <2>1 DEF EvictEnd, EvictNothing, StartFail, CancelWaiting,
                    CancelInBrowser, WaitingPC
      <3>2. \A s \in DOMAIN POOL : POOL[s] # crawler[t] /\ POOL[s] \in Crawler
        BY <2>1 DEF CrawlerPlace, TypeOK, IsDict
      <3>. QED
        BY <3>1, <3>2 DEF TypeOK
    <2>2. CASE pc[t] \notin {"starting", "evicting"}
      BY <2>2 DEF EvictEnd, EvictNothing, StartFail, CancelWaiting,
                  CancelInBrowser
    <2>. QED
      BY <2>1, <2>2
  <1>5. Shared' = Shared
    BY <1>1, <1>4, SharedSame
  <1>. QED
    BY <1>1, <1>2, <1>3, <1>5 DEF Leases!Refuse

\* The holder forgets the browser.
LEMMA DoneImplements ==
    ASSUME Inv, NEW t \in Task, DoneUsing(t)
    PROVE  Leases!GiveBack(t)
  <1> USE DEF Inv
  <1>1. /\ pc' = [pc EXCEPT ![t] = "idle"] /\ pc[t] = "using"
        /\ crawler' = [crawler EXCEPT ![t] = NoCrawler]
        /\ UNCHANGED <<POOL, sig, browser>>
    BY DEF DoneUsing
  <1>2. Phase' = [Phase EXCEPT ![t] = "idle"] /\ Phase[t] = "holding"
        /\ pc'[Janitor] = pc[Janitor]
    BY <1>1, PhaseStep DEF Viewed
  <1>3. Held' = [Held EXCEPT ![t] = NoCrawler]
    <2>1. \A u \in Task : pc'[u] = (IF u = t THEN "idle" ELSE pc[u])
                          /\ (u # t => crawler'[u] = crawler[u])
      BY <1>1 DEF TypeOK, Actor
    <2>. QED
      BY <2>1 DEF Held
  <1>4. Shared' = Shared
    BY <1>1, SharedSame
  <1>. QED
    BY <1>1, <1>2, <1>3, <1>4 DEF Leases!GiveBack

\* An eviction withdraws a browser while its task still asks.
LEMMA EvictBeginImplements ==
    ASSUME Inv, NEW t \in Task, EvictBegin(t)
    PROVE  Leases!Withdraw
  <1> USE DEF Inv
  <1>1. PICK s \in Oldest :
              /\ POOL' = Pop(POOL, s)
              /\ crawler' = [crawler EXCEPT ![t] = POOL[s]]
              /\ browser' = [browser EXCEPT ![POOL[s]] = "closing"]
    BY DEF EvictBegin
  <1>2. pc' = [pc EXCEPT ![t] = "evicting"] /\ pc[t] = "lockM" /\ sig' = sig
    BY DEF EvictBegin
  <1>3. Phase' = [Phase EXCEPT ![t] = "asking"] /\ Phase[t] = "asking"
        /\ pc'[Janitor] = pc[Janitor]
    <2>1. Viewed("evicting") = "asking" /\ Viewed("lockM") = "asking"
      BY DEF Viewed
    <2>. QED
      BY <1>2, <2>1, PhaseStep, Zenon
  <1>4. Phase' = Phase
    BY <1>3 DEF Phase
  <1>5. Held' = Held
    BY <1>1, <1>2, HeldSame DEF TypeOK
  <1>6. /\ DOMAIN POOL' \subseteq DOMAIN POOL
        /\ \A r \in DOMAIN POOL' : POOL'[r] = POOL[r]
        /\ \A r \in DOMAIN POOL' :
              browser'[POOL[r]] = "open" => browser[POOL[r]] = "open"
    BY <1>1 DEF Pop, Restrict, TypeOK, IsDict
  <1>7. \E S \in SUBSET DOMAIN Shared : Shared' = Restrict(Shared, S)
    BY <1>6, SharedLess
  <1>. QED
    BY <1>2, <1>3, <1>4, <1>5, <1>7 DEF Leases!Withdraw, Leases!Restrict, Restrict

\* The janitor withdraws what it closes, or goes away.
LEMMA JanitorImplements ==
    ASSUME Inv, JanitorStep \/ JanitorCancel
    PROVE  Leases!Withdraw \/ Leases!Neglect
  <1> USE DEF Inv
  <1>1. Phase' = Phase /\ Held' = Held /\ sig' = sig
    <2>1. crawler' = crawler /\ sig' = sig
          /\ \E q : pc' = [pc EXCEPT ![Janitor] = q]
      BY DEF JanitorStep, JanitorWake, JanitorLock, JanitorReaped, Scan,
             JanitorCancel
    <2>. QED
      BY <2>1, OthersStep
  <1>2. CASE JanitorCancel
    <2>1. Shared' = Shared
      BY <1>2, SharedSame DEF JanitorCancel
    <2>2. pc'[Janitor] = "cancelled"
      BY <1>2 DEF JanitorCancel, TypeOK, Actor
    <2>. QED
      BY <1>1, <2>1, <2>2 DEF Leases!Neglect
  <1>3. CASE JanitorStep
    <2>1. pc[Janitor] # "cancelled" /\ pc'[Janitor] # "cancelled"
      BY <1>3 DEF JanitorStep, JanitorWake, JanitorLock, JanitorReaped, Scan,
                  TypeOK, Actor
    <2>2. /\ DOMAIN POOL' \subseteq DOMAIN POOL
          /\ \A s \in DOMAIN POOL' : POOL'[s] = POOL[s]
          /\ \A s \in DOMAIN POOL' :
                browser'[POOL[s]] = "open" => browser[POOL[s]] = "open"
      <3>1. CASE JanitorWake
        BY <3>1 DEF JanitorWake
      <3>2. CASE JanitorLock
        <4>1. \/ browser' = browser
              \/ \E s \in DOMAIN POOL : browser' = [browser EXCEPT ![POOL[s]] = "closing"]
          BY <3>2 DEF JanitorLock, Scan, Expired
        <4>. QED
          BY <3>2, <4>1 DEF JanitorLock, TypeOK, IsDict
      <3>3. CASE JanitorReaped
        <4>1. PICK e \in Ended :
                  /\ POOL' = Pop(POOL, reap)
                  /\ Scan(todo, [browser EXCEPT ![POOL[reap]] = e])
          BY <3>3 DEF JanitorReaped
        <4>2. /\ DOMAIN POOL' \subseteq DOMAIN POOL
              /\ \A s \in DOMAIN POOL' : POOL'[s] = POOL[s] /\ POOL[s] \in Crawler
          BY <4>1 DEF Pop, Restrict, TypeOK, IsDict
        <4>3. \A c \in Crawler : browser'[c] = "open" => browser[c] = "open"
          <5> DEFINE b == [browser EXCEPT ![POOL[reap]] = e]
          <5>1. b \in [Crawler -> BrowserState]
                /\ \A c \in Crawler : b[c] = "open" => browser[c] = "open"
            BY DEF TypeOK, BrowserState, Ended
          <5>2. browser' = b \/ \E s \in todo : browser' = [b EXCEPT ![POOL[s]] = "closing"]
            BY <4>1 DEF Scan, Expired
          <5>. QED
            BY <5>1, <5>2
        <4>. QED
          BY <4>2, <4>3
      <3>. QED
        BY <1>3, <3>1, <3>2, <3>3 DEF JanitorStep
    <2>3. \E S \in SUBSET DOMAIN Shared : Shared' = Restrict(Shared, S)
      BY <2>2, SharedLess
    <2>. QED
      BY <1>1, <2>1, <2>3 DEF Leases!Withdraw, Leases!Restrict, Restrict
  <1>. QED
    BY <1>2, <1>3

\* close_all withdraws every browser.
LEMMA CloserImplements ==
    ASSUME Inv, CloseAll \/ CloserStep
    PROVE  Leases!Withdraw
  <1> USE DEF Inv
  <1>1. Phase' = Phase /\ Held' = Held /\ sig' = sig
    <2>1. crawler' = crawler /\ sig' = sig
          /\ \E q : pc' = [pc EXCEPT ![Closer] = q]
      BY DEF CloserStep, CloseAll, CloseAllBegin, CloseAllEnd
    <2>. QED
      BY <2>1, OthersStep
  <1>2. pc'[Janitor] = pc[Janitor]
    BY ActorsDistinct DEF CloserStep, CloseAll, CloseAllBegin, CloseAllEnd,
                          TypeOK, Actor
  <1>3. /\ DOMAIN POOL' \subseteq DOMAIN POOL
        /\ \A s \in DOMAIN POOL' : POOL'[s] = POOL[s]
        /\ \A s \in DOMAIN POOL' :
              browser'[POOL[s]] = "open" => browser[POOL[s]] = "open"
    <2>1. CASE CloseAll
      BY <2>1 DEF CloseAll
    <2>2. CASE CloseAllBegin
      BY <2>2 DEF CloseAllBegin, Pooled, TypeOK, IsDict
    <2>3. CASE CloseAllEnd
      BY <2>3 DEF CloseAllEnd, EmptyDict
    <2>. QED
      BY <2>1, <2>2, <2>3 DEF CloserStep
  <1>4. \E S \in SUBSET DOMAIN Shared : Shared' = Restrict(Shared, S)
    BY <1>3, SharedLess
  <1>. QED
    BY <1>1, <1>2, <1>4 DEF Leases!Withdraw, Leases!Restrict, Restrict

\* Neither the clock nor a stuttering step shows.
LEMMA TickImplements ==
    ASSUME Inv, Tick \/ UNCHANGED vars
    PROVE  UNCHANGED Leases!lvars
  <1>1. UNCHANGED <<POOL, pc, sig, crawler, browser>>
    BY DEF Tick, vars
  <1>. QED
    BY <1>1 DEF Leases!lvars, Phase, Held, Shared

LEMMA InitImplements == Init => Leases!Init
  <1> SUFFICES ASSUME Init PROVE Leases!Init
    OBVIOUS
  <1>1. \A t \in Task : pc[t] = "idle"
    BY ActorsDistinct DEF Init, Actor
  <1>2. pc[Janitor] # "cancelled"
    BY DEF Init, Actor
  <1>3. Phase = [t \in Task |-> "idle"] /\ Held = [t \in Task |-> NoCrawler]
    BY <1>1 DEF Phase, Held
  <1>4. Shared = [s \in {} |-> NoCrawler]
    BY DEF Init, EmptyDict, Shared, Restrict
  <1>. QED
    BY <1>2, <1>3, <1>4 DEF Init, Leases!Init

\* get_crawler is atomic for its callers: for any number of tasks, browsers
\* and signatures, under every interleaving with eviction, the janitor,
\* close_all and cancellations, a call is answered at one moment with the open
\* browser then shared under its signature, with a new one, or refused.
THEOREM PoolImplementsLeases == Spec => ImplementsLeases
  <1>1. Inv /\ [Next]_vars => [Leases!Next]_(Leases!lvars)
    <2> SUFFICES ASSUME Inv, [Next]_vars PROVE [Leases!Next]_(Leases!lvars)
      OBVIOUS
    <2>1. ASSUME NEW t \in Task, TaskStep(t)
          PROVE  [Leases!Next]_(Leases!lvars)
      BY <2>1, AskingImplements, HitImplements, StartOkImplements,
         RefuseImplements, EvictBeginImplements DEF TaskStep, Leases!Next
    <2>2. ASSUME NEW t \in Task,
                 \/ \E s \in Sig : GetCrawler(t, s)
                 \/ DoneUsing(t) \/ CancelWaiting(t) \/ CancelInBrowser(t)
          PROVE  [Leases!Next]_(Leases!lvars)
      BY <2>2, AskingImplements, DoneImplements, RefuseImplements
      DEF Leases!Next
    <2>3. CASE JanitorStep \/ JanitorCancel
      BY <2>3, JanitorImplements DEF Leases!Next
    <2>4. CASE CloseAll \/ CloserStep
      BY <2>4, CloserImplements DEF Leases!Next
    <2>5. CASE Tick \/ UNCHANGED vars
      BY <2>5, TickImplements
    <2>. QED
      BY <2>1, <2>2, <2>3, <2>4, <2>5 DEF Next
  <1>. QED
    BY <1>1, InitImplements, PoolInvariant, PTL
    DEF Spec, ImplementsLeases, Leases!Spec
=============================================================================
