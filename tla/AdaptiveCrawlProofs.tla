------------------------ MODULE AdaptiveCrawlProofs ------------------------
(***************************************************************************)
(* PagesBounded of AdaptiveCrawl for every site, every depth, page limit   *)
(* and batch size and any number of digests, resumed ones included.        *)
(*                                                                         *)
(* The bound by itself is not inductive: that a batch fits under it needs  *)
(* the limit to have been looked at when the batch was selected, and that  *)
(* the start page fits needs the bound of the digests before.              *)
(*                                                                         *)
(* It is proved of the loop for any strategy; a crawler with one of the    *)
(* two strategies implements that loop, so it has the bound as well.       *)
(***************************************************************************)
EXTENDS AdaptiveCrawler, FiniteSetTheorems, FunctionTheorems, TLAPS

\* A value has the fields of a CrawlState.
IsState(s) ==
    s = [crawled_urls |-> s.crawled_urls,
         knowledge_base |-> s.knowledge_base,
         pending_links |-> s.pending_links]

\* At most n pages are counted as crawled.
Counts(s, n) ==
    /\ IsFiniteSet(s.crawled_urls)
    /\ Cardinality(s.crawled_urls) <= n

Limit == max_pages - 2 + top_k_links + digests

StatesCount ==
    /\ digests \in Nat
    /\ IsState(state) /\ Counts(state, Limit)
    /\ IsState(saved.state) /\ Counts(saved.state, Limit)

\* The digest has room for its start page.
StartFits == pc = "starting" => Counts(state, Limit - 1)

\* The digest was below the page limit when it selected its batch, which has
\* at most top_k_links links.
BatchFits ==
    /\ batch \in Seq(Url) /\ Len(batch) <= top_k_links
    /\ pc = "crawling" => Counts(state, max_pages - 1)

\* What runs was called.
Called == pc # "idle" => digests > 0

CrawlInv == StatesCount /\ StartFits /\ BatchFits /\ Called

\* A sequence of n links has at most n different ones among them.
LEMMA LinksOfBatch ==
    ASSUME NEW b, NEW n \in Nat
    PROVE  /\ IsFiniteSet({b[j] : j \in 1..n})
           /\ Cardinality({b[j] : j \in 1..n}) <= n
  <1> DEFINE T == {b[j] : j \in 1..n}
             f == [j \in 1..n |-> b[j]]
  <1>1. f \in Surjection(1..n, T)
    BY Fun_IsSurj
  <1>2. IsFiniteSet(1..n) /\ Cardinality(1..n) = n
    BY FS_Interval
  <1> HIDE DEF f, T
  <1>3. IsFiniteSet(T) /\ Cardinality(T) <= n
    BY <1>1, <1>2, FS_Surjection
  <1> QED BY <1>3 DEF T

\* Adding a set of at most m pages to one of at most n.
LEMMA UnionCounts ==
    ASSUME NEW S, IsFiniteSet(S), NEW T, IsFiniteSet(T)
    PROVE  /\ IsFiniteSet(S \cup T)
           /\ Cardinality(S \cup T) <= Cardinality(S) + Cardinality(T)
  <1>1. IsFiniteSet(S \cap T)
    BY FS_Subset, S \cap T \subseteq S
  <1>2. /\ Cardinality(S) \in Nat
        /\ Cardinality(T) \in Nat
        /\ Cardinality(S \cap T) \in Nat
    BY <1>1, FS_CardinalityType
  <1>3. /\ IsFiniteSet(S \cup T)
        /\ Cardinality(S \cup T) =
               Cardinality(S) + Cardinality(T) - Cardinality(S \cap T)
    BY FS_Union
  <1> QED BY <1>2, <1>3

\* The pages counted when the results of a batch are zipped with it.
LEMMA BatchCounts ==
    ASSUME BatchFits, pc = "crawling", NEW ok \in SUBSET DOMAIN batch
    PROVE  /\ IsFiniteSet(ZipCrawled(Cardinality(ok)))
           /\ Cardinality(ZipCrawled(Cardinality(ok))) <=
                  max_pages - 1 + top_k_links
  <1> USE ConfigAssumption
  <1> DEFINE n == Cardinality(ok)
             T == {batch[j] : j \in 1..n}
  <1>1. Len(batch) \in Nat /\ DOMAIN batch = 1..Len(batch)
    BY DEF BatchFits
  <1>2. IsFiniteSet(1..Len(batch)) /\ Cardinality(1..Len(batch)) = Len(batch)
    BY <1>1, FS_Interval
  <1>3. IsFiniteSet(ok) /\ n <= Len(batch)
    BY <1>1, <1>2, FS_Subset
  <1>4. n \in Nat /\ n <= top_k_links
    BY <1>1, <1>3, FS_CardinalityType DEF BatchFits
  <1>5. IsFiniteSet(T) /\ Cardinality(T) <= n
    BY <1>4, LinksOfBatch
  <1>6. /\ IsFiniteSet(state.crawled_urls)
        /\ Cardinality(state.crawled_urls) <= max_pages - 1
    BY DEF BatchFits, Counts
  <1>7. /\ Cardinality(T) \in Nat
        /\ Cardinality(state.crawled_urls) \in Nat
    BY <1>5, <1>6, FS_CardinalityType
  <1> HIDE DEF n, T
  <1>8. /\ IsFiniteSet(state.crawled_urls \cup T)
        /\ Cardinality(state.crawled_urls \cup T) <=
               Cardinality(state.crawled_urls) + Cardinality(T)
    BY <1>5, <1>6, UnionCounts
  <1>9. IsFiniteSet(state.crawled_urls \cup T)
    BY <1>8
  <1>10. Cardinality(state.crawled_urls \cup T) <= max_pages - 1 + top_k_links
    BY <1>4, <1>5, <1>6, <1>7, <1>8, <1>9, FS_CardinalityType
  <1> QED BY <1>9, <1>10 DEF ZipCrawled, n, T

\* A wider bound still holds.
LEMMA CountsWiden ==
    ASSUME NEW s, NEW m \in Int, NEW n \in Int, Counts(s, m), m <= n
    PROVE  Counts(s, n)
  BY FS_CardinalityType DEF Counts

\* The bound of the model is an integer.
LEMMA LimitType == ASSUME StatesCount PROVE Limit \in Int
  BY ConfigAssumption DEF StatesCount, Limit

\* Nothing is counted before the first digest.
LEMMA InitInv == Init => CrawlInv
  <1> SUFFICES ASSUME Init PROVE CrawlInv
    OBVIOUS
  <1> USE ConfigAssumption
  <1>1. digests \in Nat /\ Limit \in Nat
    BY DEF Init, Limit
  <1>2. IsState(NewState) /\ Counts(NewState, 0)
    BY FS_EmptySet DEF IsState, Counts, NewState
  <1>3. Counts(NewState, Limit)
    BY <1>1, <1>2, CountsWiden
  <1>4. StatesCount
    BY <1>1, <1>2, <1>3 DEF StatesCount, Init, NoFile
  <1>5. StartFits /\ BatchFits /\ Called
    BY DEF StartFits, BatchFits, Called, Init
  <1> QED BY <1>4, <1>5 DEF CrawlInv

\* Calling digest, with a new state or a saved one.
LEMMA BeginInv ==
    ASSUME CrawlInv, Digest \/ Resume
    PROVE  CrawlInv'
  <1> USE ConfigAssumption DEF CrawlInv
  <1>1. PICK u \in StartUrls :
            Begin(u, NewState) \/ Begin(u, saved.state)
    BY DEF Digest, Resume
  <1>2. IsState(NewState) /\ Counts(NewState, 0)
    BY FS_EmptySet DEF IsState, Counts, NewState
  <1>3. /\ digests \in Nat /\ digests' = digests + 1
        /\ Limit \in Nat /\ Limit' = Limit + 1
    BY <1>1 DEF Begin, StatesCount, Limit
  <1>4. saved' = saved /\ batch' = batch /\ state' \in {NewState, saved.state}
    BY <1>1 DEF Begin
  <1>5. IsState(state') /\ Counts(state', Limit)
    BY <1>2, <1>3, <1>4, CountsWiden DEF StatesCount
  <1>6. Counts(state', Limit') /\ Counts(saved.state, Limit')
    BY <1>3, <1>5, CountsWiden DEF StatesCount
  <1>7. StatesCount'
    BY <1>3, <1>4, <1>5, <1>6 DEF StatesCount
  <1>8. StartFits'
    BY <1>3, <1>5 DEF StartFits
  <1>9. BatchFits'
    BY <1>1, <1>4 DEF BatchFits, Begin, OnOrRaise
  <1>10. Called'
    BY <1>3 DEF Called
  <1> QED BY <1>7, <1>8, <1>9, <1>10

\* The start page is counted.
LEMMA StartInv ==
    ASSUME CrawlInv, StartLoaded \/ StartFailed
    PROVE  CrawlInv'
  <1> USE ConfigAssumption DEF CrawlInv
  <1>1. /\ UNCHANGED <<saved, digests, batch>>
        /\ Limit' = Limit /\ Limit \in Int
        /\ pc' \in {"deciding", "idle"} /\ pc = "starting"
    BY DEF StartLoaded, StartFailed, OnOrRaise, Limit, StatesCount
  <1>2. IsState(state') /\ Counts(state', Limit)
    <2>1. CASE StartFailed
      BY <2>1 DEF StartFailed, StatesCount
    <2>2. CASE StartLoaded
      <3>1. IsState(state')
        BY <2>2 DEF StartLoaded, StatesCount, IsState
      <3>2. state'.crawled_urls = state.crawled_urls \cup {start_url}
        BY <2>2 DEF StartLoaded, StatesCount, IsState
      <3>3. Counts(state, Limit - 1)
        BY <1>1 DEF StartFits
      <3>4. Counts(state', Limit)
        <4> DEFINE S == state.crawled_urls
        <4>1. IsFiniteSet(S) /\ Cardinality(S) <= Limit - 1
          BY <3>3 DEF Counts
        <4>2. /\ IsFiniteSet(S \cup {start_url})
              /\ Cardinality(S \cup {start_url}) \in
                     {Cardinality(S), Cardinality(S) + 1}
          BY <4>1, FS_AddElement
        <4>3. Cardinality(S) \in Nat
          BY <4>1, FS_CardinalityType
        <4> HIDE DEF S
        <4>4. Cardinality(S \cup {start_url}) <= Limit
          BY <1>1, <4>1, <4>2, <4>3
        <4> QED BY <3>2, <4>2, <4>4 DEF Counts, S
      <3> QED BY <3>1, <3>4
    <2> QED BY <2>1, <2>2
  <1>3. StatesCount'
    BY <1>1, <1>2 DEF StatesCount
  <1>4. StartFits' /\ BatchFits' /\ Called'
    BY <1>1 DEF StartFits, BatchFits, Called
  <1> QED BY <1>3, <1>4

\* A batch is selected below the page limit.
LEMMA SelectInv ==
    ASSUME CrawlInv, NEW b \in Batches, Select(b)
    PROVE  CrawlInv'
  <1> USE ConfigAssumption DEF CrawlInv
  <1>1. /\ UNCHANGED <<state, saved, digests>>
        /\ Limit' = Limit
        /\ pc' = "crawling"
    BY DEF Select, Limit
  <1>2. StatesCount' /\ StartFits' /\ Called'
    BY <1>1 DEF StatesCount, StartFits, Called, Select
  <1>3. batch' \in Seq(Url) /\ Len(batch') <= top_k_links
    <2>1. batch' \in SeqOf(Url, top_k_links)
      BY DEF Select, Batches
    <2>2. PICK m \in 0..top_k_links : batch' \in [1..m -> Url]
      BY <2>1 DEF SeqOf
    <2> QED BY <2>2
  <1>4. Counts(state, max_pages - 1)
    BY FS_CardinalityType
       DEF Select, LimitReached, StatesCount, Counts
  <1>5. BatchFits'
    BY <1>1, <1>3, <1>4 DEF BatchFits
  <1> QED BY <1>2, <1>5

\* The results of a batch are counted.
LEMMA BatchDoneInv ==
    ASSUME CrawlInv, NEW ok \in SUBSET DOMAIN batch, BatchDone(ok)
    PROVE  CrawlInv'
  <1> USE ConfigAssumption DEF CrawlInv
  <1>1. /\ UNCHANGED <<saved, digests>>
        /\ Limit' = Limit /\ Limit \in Int
        /\ pc = "crawling" /\ pc' \in {"saving", "idle"} /\ batch' = <<>>
    BY DEF BatchDone, OnOrRaise, Limit, StatesCount
  <1>2. /\ IsState(state')
        /\ state'.crawled_urls = ZipCrawled(Cardinality(ok))
    BY DEF BatchDone, StatesCount, IsState
  <1>3. digests > 0
    BY <1>1 DEF Called
  <1>4. Counts(state', Limit)
    BY <1>1, <1>2, <1>3, BatchCounts, FS_CardinalityType
       DEF Counts, Limit, StatesCount
  <1>5. StatesCount'
    BY <1>1, <1>2, <1>4 DEF StatesCount
  <1>6. StartFits' /\ BatchFits' /\ Called'
    BY <1>1 DEF StartFits, BatchFits, Called
  <1> QED BY <1>5, <1>6

\* Saving, stopping and dying count nothing.
LEMMA OtherInv ==
    ASSUME CrawlInv, Save \/ Stop \/ Die \/ UNCHANGED digestVars
    PROVE  CrawlInv'
  <1> USE ConfigAssumption DEF CrawlInv
  <1>1. /\ UNCHANGED <<state, digests>>
        /\ Limit' = Limit
        /\ Limit \in Int
    BY DEF Save, Stop, Die, digestVars, Limit, StatesCount
  <1>2. saved'.state \in {saved.state, state, NewState}
    BY DEF Save, Stop, Die, digestVars, NoFile
  <1>3. IsState(NewState) /\ Counts(NewState, Limit)
    <2>1. Counts(state, Limit) /\ Cardinality({}) = 0 /\ IsFiniteSet({})
      BY FS_EmptySet DEF StatesCount
    <2>2. 0 <= Limit
      BY <1>1, <2>1, FS_CardinalityType DEF Counts
    <2> QED BY <1>1, <2>1, <2>2 DEF IsState, Counts, NewState
  <1>4. StatesCount'
    BY <1>1, <1>2, <1>3 DEF StatesCount
  <1>5. StartFits'
    BY <1>1 DEF StartFits, Save, Stop, Die, digestVars
  <1>6. BatchFits'
    <2>1. batch' \in {batch, <<>>}
      BY DEF Save, Stop, Die, digestVars
    <2>2. pc' = "crawling" => pc = "crawling"
      BY DEF Save, Stop, Die, digestVars
    <2>3. <<>> \in Seq(Url) /\ Len(<<>>) <= top_k_links
      OBVIOUS
    <2>4. batch' \in Seq(Url) /\ Len(batch') <= top_k_links
      <3>1. CASE batch' = batch
        BY <3>1 DEF BatchFits
      <3>2. CASE batch' = <<>>
        BY <2>3, <3>2, Zenon
      <3> QED BY <2>1, <3>1, <3>2
    <2> QED BY <1>1, <2>2, <2>4 DEF BatchFits
  <1>7. Called'
    BY <1>1 DEF Called, Save, Stop, Die, digestVars
  <1> QED BY <1>4, <1>5, <1>6, <1>7

\* The invariant is kept by every step.
LEMMA NextInv == CrawlInv /\ [Next]_digestVars => CrawlInv'
  <1> SUFFICES ASSUME CrawlInv, [Next]_digestVars PROVE CrawlInv'
    OBVIOUS
  <1>1. CASE Digest \/ Resume
    BY <1>1, BeginInv
  <1>2. CASE StartLoaded \/ StartFailed
    BY <1>2, StartInv
  <1>3. CASE \E b \in Batches : Select(b)
    BY <1>3, SelectInv
  <1>4. CASE \E ok \in SUBSET DOMAIN batch : BatchDone(ok)
    BY <1>4, BatchDoneInv
  <1>5. CASE Save \/ Stop \/ Die \/ UNCHANGED digestVars
    BY <1>5, OtherInv
  <1> QED BY <1>1, <1>2, <1>3, <1>4, <1>5 DEF Next

\* The pages that _crawl_batch's results make digest count as crawled, and its
\* start pages, stay within max_pages and one batch (digest, should_stop).
THEOREM CountedPagesBounded == Spec => []PagesBounded
  <1>1. CrawlInv => PagesBounded
    BY DEF CrawlInv, StatesCount, PagesBounded, States, Counts, Limit
  <1> QED BY <1>1, InitInv, NextInv, PTL DEF Spec

-----------------------------------------------------------------------------
\* A step with the statistical strategy is a step of the loop.
LEMMA StatStepIsStep == StatNext => Next
  <1> SUFFICES ASSUME StatNext PROVE Next
    OBVIOUS
  <1>1. CASE StatDigest \/ StatResume \/ StatDie
    BY <1>1 DEF StatDigest, StatResume, StatDie, Next
  <1>2. CASE StatStart \/ StatSave \/ StatStop
    BY <1>2 DEF StatStart, StatSave, StatStop, Next
  <1>3. CASE \E b \in Batches : StatSelect(b)
    BY <1>3 DEF StatSelect, Next
  <1>4. CASE \E ok \in SUBSET DOMAIN batch : StatBatch(ok)
    BY <1>4 DEF StatBatch, Next
  <1> QED BY <1>1, <1>2, <1>3, <1>4 DEF StatNext, StatDigestStep

\* A step with the embedding strategy is a step of the loop.
LEMMA EmbStepIsStep == EmbNext => Next
  <1> SUFFICES ASSUME EmbNext PROVE Next
    OBVIOUS
  <1>1. CASE EmbDigest \/ EmbResume \/ EmbDie
    BY <1>1 DEF EmbDigest, EmbResume, EmbDie, Next
  <1>2. CASE EmbStart \/ EmbSave \/ EmbStop
    BY <1>2 DEF EmbStart, EmbSave, EmbStop, Next
  <1>3. CASE \E b \in Batches : EmbSelect(b)
    BY <1>3 DEF EmbSelect, Next
  <1>4. CASE \E ok \in SUBSET DOMAIN batch : EmbBatch(ok)
    BY <1>4 DEF EmbBatch, Next
  <1> QED BY <1>1, <1>2, <1>3, <1>4 DEF EmbNext, EmbDigestStep

\* Whatever strategy a crawler has, its digests are digests of the loop
\* (digest calls the strategy, and no strategy touches what digest keeps).
THEOREM StrategiesImplementLoop == CrawlerSpec => Spec
  <1>1. CrawlerInit => Init
    BY DEF CrawlerInit
  <1>2. [CrawlerNext]_crawlerVars => [Next]_digestVars
    <2>1. CrawlerNext => Next
      BY StatStepIsStep, EmbStepIsStep
         DEF CrawlerNext, Statistical, Embedding
    <2>2. UNCHANGED crawlerVars => UNCHANGED digestVars
      BY DEF crawlerVars
    <2> QED BY <2>1, <2>2
  <1> QED BY <1>1, <1>2, PTL DEF CrawlerSpec, Spec

\* The pages a crawler with either strategy counts stay within max_pages and
\* one batch, and one more for every digest after the first (digest,
\* should_stop).
THEOREM CrawlerPagesBounded == CrawlerSpec => []PagesBounded
  BY CountedPagesBounded, StrategiesImplementLoop, PTL

-----------------------------------------------------------------------------
(* Sequences picked from others *)

\* A set of numbers has a least one: what an induction over numbers needs.
LEMMA LeastNumber ==
    ASSUME NEW S \in SUBSET Nat, S # {}
    PROVE  \E m \in S : \A n \in S : m <= n
  <1> DEFINE R == OpToRel(<, Nat)
  <1>1. R = {ss \in Nat \X Nat : ss[1] < ss[2]}
    BY Zenon DEF OpToRel
  <1>2. IsWellFoundedOn(R, Nat)
    BY NatLessThanWellFounded
  <1> HIDE DEF R
  <1>3. PICK m \in S : \A n \in S : <<n, m>> \notin R
    BY <1>2, WFMin
  <1>4. ASSUME NEW n \in S PROVE m <= n
    <2>1. n \in Nat /\ m \in Nat /\ <<n, m>> \notin R
      BY <1>3
    <2>2. ~(n < m)
      BY <1>1, <2>1
    <2>. QED
      BY <2>1, <2>2
  <1>. QED
    BY <1>4

\* How many of some positions of a sequence come before one of them.
Before(S, i) == Cardinality({j \in S : j < i})

\* The positions are numbered by how many come before them.
LEMMA BeforeIsPosition ==
    ASSUME NEW n \in Nat, NEW S \in SUBSET (1..n)
    PROVE  /\ IsFiniteSet(S) /\ Cardinality(S) \in Nat
           /\ \A i \in S : Before(S, i) \in Nat /\ Before(S, i) + 1 \in 1..Cardinality(S)
           /\ \A k \in 1..Cardinality(S) : \E i \in S : Before(S, i) = k - 1
           /\ \A i, j \in S : Before(S, i) = Before(S, j) => i = j
  <1>1. IsFiniteSet(1..n) /\ \A i \in S : i \in Nat
    BY FS_Interval
  <1>2. IsFiniteSet(S) /\ Cardinality(S) \in Nat
    BY <1>1, FS_Subset, FS_CardinalityType
  <1> DEFINE N == Cardinality(S)
             low(i) == {j \in S : j < i}
             f == [i \in S |-> Before(S, i) + 1]
  <1>3. ASSUME NEW i \in S
        PROVE  /\ IsFiniteSet(low(i)) /\ Before(S, i) \in Nat
               /\ Before(S, i) + 1 \in 1..N
    <2>1. low(i) \in SUBSET S /\ i \notin low(i)
      OBVIOUS
    <2>2. low(i) # S
      BY <2>1
    <2> HIDE DEF low
    <2>3. IsFiniteSet(low(i)) /\ Cardinality(low(i)) <= N /\ Cardinality(low(i)) # N
      BY <1>2, <2>1, <2>2, FS_Subset
    <2>4. Cardinality(low(i)) \in Nat
      BY <2>3, FS_CardinalityType
    <2>5. Before(S, i) = Cardinality(low(i))
      BY DEF Before, low
    <2>. QED
      BY <1>2, <2>3, <2>4, <2>5
  <1>4. ASSUME NEW i \in S, NEW j \in S, i < j
        PROVE  Before(S, i) < Before(S, j)
    <2>1. low(i) \in SUBSET low(j) /\ i \in low(j) /\ i \notin low(i)
      <3>1. \A h \in S : h < i => h < j
        BY <1>1, <1>4
      <3>2. ~(i < i)
        BY <1>1
      <3>. QED
        BY <1>4, <3>1, <3>2
    <2>2. low(i) # low(j)
      BY <2>1
    <2>3. IsFiniteSet(low(i)) /\ IsFiniteSet(low(j))
      BY <1>3
    <2>4. Before(S, i) = Cardinality(low(i)) /\ Before(S, j) = Cardinality(low(j))
      BY DEF Before
    <2> DEFINE U == low(i)
               V == low(j)
    <2>5. U \in SUBSET V /\ IsFiniteSet(V) /\ U # V
      BY <2>1, <2>2, <2>3
    <2> HIDE DEF U, V
    <2>6. Cardinality(U) <= Cardinality(V) /\ Cardinality(U) # Cardinality(V)
      BY <2>5, FS_Subset
    <2>. QED
      BY <1>3, <2>4, <2>6 DEF U, V
  <1>5. ASSUME NEW i \in S, NEW j \in S, Before(S, i) = Before(S, j)
        PROVE  i = j
    <2>1. i < j \/ j < i \/ i = j
      BY <1>1
    <2>2. Before(S, i) \in Nat
      BY <1>3
    <2>. QED
      BY <1>4, <1>5, <2>1, <2>2
  <1>6. f \in Injection(S, 1..N)
    <2>1. f \in [S -> 1..N]
      BY <1>3
    <2>2. ASSUME NEW i \in S, NEW j \in S, f[i] = f[j] PROVE i = j
      <3>1. Before(S, i) + 1 = Before(S, j) + 1
        BY <2>2
      <3>2. Before(S, i) \in Nat /\ Before(S, j) \in Nat
        BY <1>3
      <3>3. Before(S, i) = Before(S, j)
        BY <3>1, <3>2
      <3>. QED
        BY <1>5, <3>3
    <2>. QED
      BY <2>1, <2>2, Fun_IsInj
  <1>7. IsFiniteSet(1..N) /\ Cardinality(1..N) = N
    <2> HIDE DEF N
    <2>1. N \in Nat
      BY <1>2 DEF N
    <2>. QED
      BY <2>1, FS_Interval
  <1>8. f \in Surjection(S, 1..N)
    <2> HIDE DEF f, N
    <2>. QED
      BY <1>6, <1>7, FS_Injection DEF N
  <1>9. ASSUME NEW k \in 1..N PROVE \E i \in S : Before(S, i) = k - 1
    <2>1. PICK i \in S : f[i] = k
      BY <1>8 DEF Surjection
    <2>2. Before(S, i) + 1 = k /\ Before(S, i) \in Nat
      BY <1>3, <2>1
    <2>3. Before(S, i) = k - 1
      BY <2>2
    <2>. QED
      BY <2>3
  <1>. QED
    BY <1>2, <1>3, <1>5, <1>9

\* What Picked returns: the elements at these positions and no others, as often
\* as there are positions.
LEMMA PickedFacts ==
    ASSUME NEW T, NEW s \in Seq(T), NEW P \in SUBSET DOMAIN s
    PROVE  /\ Picked(s, P) \in Seq(T)
           /\ Len(Picked(s, P)) = Cardinality(P)
           /\ IsFiniteSet(P) /\ Cardinality(P) \in Nat
           /\ \A k \in DOMAIN Picked(s, P) : \E i \in P : Picked(s, P)[k] = s[i]
           /\ \A i \in P : \E k \in DOMAIN Picked(s, P) : Picked(s, P)[k] = s[i]
  <1> DEFINE at(k) == CHOOSE i \in P : Before(P, i) = k - 1
             p == Picked(s, P)
             N == Cardinality(P)
  <1>1. DOMAIN s = 1..Len(s) /\ Len(s) \in Nat
    OBVIOUS
  <1>2. /\ IsFiniteSet(P) /\ N \in Nat
        /\ \A i \in P : Before(P, i) \in Nat /\ Before(P, i) + 1 \in 1..N
        /\ \A k \in 1..N : \E i \in P : Before(P, i) = k - 1
        /\ \A i, j \in P : Before(P, i) = Before(P, j) => i = j
    BY <1>1, BeforeIsPosition
  <1>3. p = [k \in 1..N |-> s[at(k)]]
    BY DEF Picked, Before
  <1>4. \A k \in 1..N : at(k) \in P /\ Before(P, at(k)) = k - 1
    BY <1>2
  <1> HIDE DEF p, N, at
  <1>5. p \in Seq(T) /\ Len(p) = N /\ DOMAIN p = 1..N
    BY <1>1, <1>2, <1>3, <1>4
  <1>6. ASSUME NEW i \in P PROVE \E k \in DOMAIN p : p[k] = s[i]
    <2> DEFINE k == Before(P, i) + 1
    <2>1. k \in 1..N /\ Before(P, i) = k - 1
      BY <1>2
    <2>2. at(k) = i
      BY <1>2, <1>4, <2>1
    <2>. QED
      BY <1>3, <1>5, <2>1, <2>2
  <1>. QED
    BY <1>2, <1>3, <1>4, <1>5, <1>6 DEF p, N

-----------------------------------------------------------------------------
(* The type of the loop *)

\* For every site.  That depth stays in its range needs that a batch is only
\* selected while there is depth left; a torn file has nothing to resume from.

LoopType ==
    /\ TypeOK
    /\ IsState(state) /\ IsState(saved.state)
    /\ pc = "crawling" => depth < max_depth
    /\ saved.file = "torn" => saved.state = NewState

\* A page leads to finitely many links, so what a batch appends is a number.
LEMMA ZipPendingType ==
    ASSUME TypeOK, NEW results \in Seq(Url)
    PROVE  ZipPending(results) \in [Url -> Nat]
  <1> SUFFICES ASSUME NEW v \in Url
               PROVE  state.pending_links[v] + Cardinality(ZipLinks(results, v)) \in Nat
    BY DEF ZipPending
  <1> DEFINE D == {j \in DOMAIN results : v \notin ZipCrawled(j)}
             links(i) == {i} \X (1..LinksOf[results[i]][v])
             L == {links(i) : i \in D}
  <1>1. IsFiniteSet(D)
    <2>1. D \in SUBSET (1..Len(results))
      OBVIOUS
    <2>2. Len(results) \in Nat
      OBVIOUS
    <2>3. IsFiniteSet(1..Len(results))
      BY <2>2, FS_Interval
    <2> HIDE DEF D
    <2>. QED
      BY <2>1, <2>3, FS_Subset
  <1>2. ASSUME NEW i \in D PROVE IsFiniteSet(links(i))
    <2>1. LinksOf[results[i]][v] \in Nat
      BY PagesAssumption
    <2>2. IsFiniteSet(1..LinksOf[results[i]][v])
      <3> DEFINE n == LinksOf[results[i]][v]
      <3>1. n \in Nat
        BY <2>1
      <3> HIDE DEF n
      <3>2. IsFiniteSet(1..n)
        BY <3>1, FS_Interval
      <3>. QED
        BY <3>2 DEF n
    <2>3. IsFiniteSet({i})
      BY FS_Singleton
    <2>. QED
      BY <2>2, <2>3, FS_Product
  <1>3. IsFiniteSet(L)
    <2> DEFINE f == [i \in D |-> links(i)]
    <2>1. f \in Surjection(D, L)
      BY Fun_IsSurj
    <2> HIDE DEF f, D, L
    <2>. QED
      BY <1>1, <2>1, FS_Surjection
  <1>4. \A T \in L : IsFiniteSet(T)
    BY <1>2
  <1>5. ZipLinks(results, v) = UNION L
    BY DEF ZipLinks
  <1> HIDE DEF L
  <1>6. Cardinality(ZipLinks(results, v)) \in Nat
    BY <1>3, <1>4, <1>5, FS_UNION, FS_CardinalityType
  <1>7. state.pending_links[v] \in Nat
    BY DEF TypeOK, States
  <1>. QED
    BY <1>6, <1>7

\* The values a state starts with.
LEMMA NewStateType ==
    /\ IsState(NewState)
    /\ NewState.crawled_urls \subseteq Url /\ NewState.knowledge_base \in Seq(Url)
    /\ NewState.pending_links \in [Url -> Nat]
  BY DEF NewState, IsState

\* Nothing is crawled or saved yet.
LEMMA LoopTypeInit == Init => LoopType
  <1> SUFFICES ASSUME Init PROVE LoopType
    OBVIOUS
  <1>1. state = NewState /\ saved.state = NewState /\ saved.file = "none"
    BY DEF Init, NoFile
  <1>2. /\ depth \in 0..max_depth /\ digests \in 0..MaxDigests
        /\ batch \in Seq(Url) /\ Len(batch) <= top_k_links
    BY ConfigAssumption DEF Init
  <1>. QED
    BY <1>1, <1>2, NewStateType DEF Init, LoopType, TypeOK, States

\* A state of the type of a CrawlState.
StateType(s) ==
    /\ IsState(s)
    /\ s.crawled_urls \subseteq Url /\ s.knowledge_base \in Seq(Url)
    /\ s.pending_links \in [Url -> Nat]

\* LoopType says so of the state and of the file.
LEMMA StatesType == LoopType => StateType(state) /\ StateType(saved.state)
  BY DEF LoopType, TypeOK, States, StateType

\* Every step of the loop preserves the type.
LEMMA LoopTypeNext == LoopType /\ [Next]_digestVars => LoopType'
  <1> SUFFICES ASSUME LoopType, [Next]_digestVars PROVE LoopType'
    OBVIOUS
  <1>0. StateType(state) /\ StateType(saved.state)
    BY StatesType
  <1>1. ASSUME StateType(state'), StateType(saved'.state),
               saved'.file \in {"none", "whole", "torn"}, UNCHANGED strategy,
               saved'.file = "torn" => saved'.state = NewState,
               pc' \in {"idle", "starting", "deciding", "crawling", "saving", "finishing"},
               depth' \in 0..max_depth, pc' = "crawling" => depth' < max_depth,
               batch' \in Seq(Url), Len(batch') <= top_k_links,
               digests' \in 0..MaxDigests, start_url' \in StartUrls
        PROVE  LoopType'
    BY <1>1 DEF LoopType, TypeOK, States, StateType
  <1>2. /\ depth \in 0..max_depth /\ batch \in Seq(Url) /\ Len(batch) <= top_k_links
        /\ digests \in 0..MaxDigests /\ start_url \in StartUrls
        /\ saved.file \in {"none", "whole", "torn"}
        /\ pc = "crawling" => depth < max_depth
        /\ saved.file = "torn" => saved.state = NewState
        /\ pc \in {"idle", "starting", "deciding", "crawling", "saving", "finishing"}
    BY DEF LoopType, TypeOK
  <1>3. <<>> \in Seq(Url) /\ Len(<<>>) <= top_k_links /\ 0 \in 0..max_depth
    BY ConfigAssumption
  <1>4. ASSUME NEW u \in StartUrls, NEW s, StateType(s), Begin(u, s) PROVE LoopType'
    <2>1. digests' \in 0..MaxDigests
      BY <1>2, <1>4, ConfigAssumption DEF Begin
    <2>. QED
      BY <1>0, <1>1, <1>2, <1>3, <1>4, <2>1 DEF Begin, OnOrRaise
  <1>5. CASE Digest \/ Resume
    <2>1. StateType(NewState)
      BY NewStateType DEF StateType
    <2>. QED
      BY <1>0, <1>4, <1>5, <2>1 DEF Digest, Resume
  <1>6. CASE StartLoaded
    <2>1. start_url \in Url
      BY <1>2, PagesAssumption
    <2>2. [v \in Url |-> state.pending_links[v] + LinksOf[start_url][v]] \in [Url -> Nat]
      BY <1>0, <2>1, PagesAssumption DEF StateType
    <2>3. StateType(state')
      <3>1. IsState(state')
        BY <1>0, <1>6 DEF StartLoaded, StateType, IsState
      <3>2. /\ state'.crawled_urls = state.crawled_urls \cup {start_url}
            /\ state'.knowledge_base = Append(state.knowledge_base, start_url)
            /\ state'.pending_links =
                  [v \in Url |-> state.pending_links[v] + LinksOf[start_url][v]]
        BY <1>0, <1>6 DEF StartLoaded, StateType, IsState
      <3>3. /\ state'.crawled_urls \subseteq Url
            /\ state'.knowledge_base \in Seq(Url)
        BY <1>0, <2>1, <3>2 DEF StateType
      <3>. QED
        BY <2>2, <3>1, <3>2, <3>3 DEF StateType
    <2>. QED
      BY <1>0, <1>1, <1>2, <1>6, <2>3 DEF StartLoaded, OnOrRaise
  <1>7. CASE StartFailed
    BY <1>0, <1>1, <1>2, <1>7 DEF StartFailed
  <1>8. ASSUME NEW b \in Batches, Select(b) PROVE LoopType'
    <2>1. b \in Seq(Url) /\ Len(b) <= top_k_links
      <3>1. b \in SeqOf(Url, top_k_links)
        BY DEF Batches
      <3>2. PICK m \in 0..top_k_links : b \in [1..m -> Url]
        BY <3>1 DEF SeqOf
      <3>. QED
        BY <3>2, ConfigAssumption
    <2>. QED
      BY <1>0, <1>1, <1>2, <1>8, <2>1 DEF Select
  <1>9. ASSUME NEW ok \in SUBSET DOMAIN batch, BatchDone(ok) PROVE LoopType'
    <2>1. Loaded(ok) \in Seq(Url)
      BY <1>2, PickedFacts DEF Loaded
    <2>2. ZipPending(Loaded(ok)) \in [Url -> Nat]
      BY <2>1, ZipPendingType DEF LoopType
    <2>3. ZipCrawled(Cardinality(ok)) \subseteq Url
      <3>1. Cardinality(ok) <= Len(batch) /\ Cardinality(ok) \in Nat
        <4> DEFINE n == Len(batch)
        <4>1. ok \subseteq 1..n /\ n \in Nat
          BY <1>2
        <4> HIDE DEF n
        <4>2. IsFiniteSet(1..n) /\ Cardinality(1..n) = n
          BY <4>1, FS_Interval
        <4>3. IsFiniteSet(ok) /\ Cardinality(ok) <= n
          BY <4>1, <4>2, FS_Subset
        <4>. QED
          BY <4>3, FS_CardinalityType DEF n
      <3>2. \A j \in 1..Cardinality(ok) : j \in 1..Len(batch)
        BY <1>2, <3>1
      <3>3. \A j \in 1..Cardinality(ok) : batch[j] \in Url
        BY <1>2, <3>2
      <3>. QED
        BY <1>0, <3>3 DEF ZipCrawled, StateType
    <2>4. StateType(state')
      <3>1. IsState(state')
        BY <1>0, <1>9 DEF BatchDone, StateType, IsState
      <3>2. /\ state'.crawled_urls = ZipCrawled(Cardinality(ok))
            /\ state'.knowledge_base = state.knowledge_base \o Loaded(ok)
            /\ state'.pending_links = ZipPending(Loaded(ok))
        BY <1>0, <1>9 DEF BatchDone, StateType, IsState
      <3>3. state'.knowledge_base \in Seq(Url)
        BY <1>0, <2>1, <3>2 DEF StateType
      <3>. QED
        BY <2>2, <2>3, <3>1, <3>2, <3>3 DEF StateType
    <2>5. depth' \in 0..max_depth
      BY <1>2, <1>9, ConfigAssumption DEF BatchDone
    <2>. QED
      BY <1>0, <1>1, <1>2, <1>3, <1>9, <2>4, <2>5 DEF BatchDone, OnOrRaise
  <1>10. CASE Save \/ Stop
    BY <1>0, <1>1, <1>2, <1>10 DEF Save, Stop
  <1>11. CASE Die
    <2>1. saved' = saved \/ (saved'.state = NewState /\ saved'.file = "torn")
      BY <1>11 DEF Die, NoFile
    <2>2. /\ StateType(saved'.state) /\ saved'.file \in {"none", "whole", "torn"}
          /\ saved'.file = "torn" => saved'.state = NewState
      BY <1>0, <1>2, <2>1, NewStateType DEF StateType
    <2>. QED
      BY <1>0, <1>1, <1>2, <1>3, <1>11, <2>2 DEF Die
  <1>12. CASE UNCHANGED digestVars
    BY <1>0, <1>1, <1>2, <1>12 DEF digestVars
  <1>. QED
    BY <1>5, <1>6, <1>7, <1>8, <1>9, <1>10, <1>11, <1>12 DEF Next

\* What digest keeps stays in its range, with whatever strategy (digest).
THEOREM LoopTypeCorrect == CrawlerSpec => []LoopType
  <1>1. Spec => []LoopType
    BY LoopTypeInit, LoopTypeNext, PTL DEF Spec
  <1>. QED
    BY <1>1, StrategiesImplementLoop, PTL
=============================================================================
