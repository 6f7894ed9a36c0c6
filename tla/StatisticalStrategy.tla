------------------------ MODULE StatisticalStrategy ------------------------
(***************************************************************************)
(* StatisticalStrategy (component/crawl4ai/adaptive_crawler.py) in         *)
(* AdaptiveCrawler.digest: the term statistics of the pages crawled, and   *)
(* what they allow to decide.  Scores are not computed; whether they       *)
(* suffice is a choice where the code does not fix the answer.             *)
(***************************************************************************)
EXTENDS AdaptiveCrawl

CONSTANTS
    authority_weight, min_gain_threshold   \* in hundredths

ASSUME WeightsAssumption ==
    authority_weight \in 0..100 /\ min_gain_threshold \in 0..100

VARIABLES
    stats,        \* self.state: the statistics of the strategy
    saved_stats   \* what the file at state_path holds of them

statVars == <<stats, saved_stats>>

\* The statistics of CrawlState.  Document d has id d.
NewStats ==
    [term_frequencies |-> {},              \* its keys
     document_frequencies |-> [t \in Term |-> 0],
     documents_with_terms |-> [t \in Term |-> {}],
     total_documents |-> 0,
     new_terms_history |-> <<>>,
     crawl_order |-> <<>>]

StatInit == stats = NewStats /\ saved_stats = NewStats

\* Mutants: the document is counted before its terms are filed; a page without
\* text is not entered in the crawl order.
UpdateOneLateId(s, u) ==
    LET terms == TermsOf[u]
    IN  [s EXCEPT
            !.term_frequencies = @ \cup terms,
            !.document_frequencies =
                [t \in Term |-> IF t \in terms THEN @[t] + 1 ELSE @[t]],
            !.documents_with_terms =
                [t \in Term |-> IF t \in terms
                                THEN @[t] \cup {s.total_documents + 1}
                                ELSE @[t]],
            !.new_terms_history =
                Append(@, Cardinality(terms \ s.term_frequencies)),
            !.total_documents = @ + 1,
            !.crawl_order = Append(@, u)]
UpdateOneSkipsEmpty(s, u) ==
    IF TermsOf[u] = {} THEN [s EXCEPT !.total_documents = @ + 1]
    ELSE [UpdateOneLateId(s, u) EXCEPT
             !.documents_with_terms =
                [t \in Term |-> IF t \in TermsOf[u]
                                THEN s.documents_with_terms[t] \cup
                                        {s.total_documents}
                                ELSE s.documents_with_terms[t]]]

\* The body of the loop of update_state, for a page.
UpdateOne(s, u) ==
    LET terms == TermsOf[u]
    IN  [s EXCEPT
            !.term_frequencies = @ \cup terms,
            !.document_frequencies =
                [t \in Term |-> IF t \in terms THEN @[t] + 1 ELSE @[t]],
            !.documents_with_terms =
                [t \in Term |-> IF t \in terms
                                THEN @[t] \cup {s.total_documents}
                                ELSE @[t]],
            !.new_terms_history =
                Append(@, Cardinality(terms \ s.term_frequencies)),
            !.total_documents = @ + 1,
            !.crawl_order = Append(@, u)]
UpdateState(s, results) ==
    LET after[k \in 0..Len(results)] ==
            IF k = 0 THEN s ELSE UpdateOne(after[k - 1], results[k])
    IN  after[Len(results)]

\* calculate_confidence is 0.0 without pages, saturation needs two entries of
\* new_terms_history; beyond that their values are open.
MayHaveEnough == Len(state.knowledge_base) > 0
MayBeSaturated == Len(stats.new_terms_history) >= 2

\* A link scores at least authority_weight * 1.0.
MayGainLittle == authority_weight < min_gain_threshold

\* should_stop, and the breaks of digest on an empty ranking or a low gain.
MustStop == LimitReached \/ Links(Ranked) = 0
MayStop == MustStop \/ MayHaveEnough \/ MayBeSaturated \/ MayGainLittle

-----------------------------------------------------------------------------
(* digest; nothing of this strategy raises *)

Goes == pc' # "idle"

StatDigest == Digest /\ Goes /\ stats' = NewStats /\ UNCHANGED saved_stats
StatResume == Resume /\ Goes /\ stats' = saved_stats /\ UNCHANGED saved_stats

StatStart ==
    \/ /\ StartLoaded /\ Goes
       /\ stats' = UpdateOne(stats, start_url)
       /\ UNCHANGED saved_stats
    \/ StartFailed /\ UNCHANGED statVars

\* A link met twice is ranked twice.
Shorter(m, n) == IF m < n THEN m ELSE n
StatSelect(b) ==
    /\ Select(b)
    /\ Len(b) = Shorter(Links(Ranked), top_k_links)
    /\ UNCHANGED statVars

StatBatch(ok) ==
    /\ BatchDone(ok) /\ Goes
    /\ stats' = UpdateState(stats, Loaded(ok))
    /\ UNCHANGED saved_stats

StatSave == Save /\ saved_stats' = stats /\ UNCHANGED stats

StatStop == (depth >= max_depth \/ MayStop) /\ Stop /\ UNCHANGED statVars

StatDie ==
    /\ Die
    /\ saved_stats' = IF saved'.file = "torn" THEN NewStats ELSE saved_stats
    /\ UNCHANGED stats

StatDigestStep ==
    \/ StatStart
    \/ \E b \in Batches : StatSelect(b)
    \/ \E ok \in SUBSET DOMAIN batch : StatBatch(ok)
    \/ StatSave \/ StatStop

StatNext == StatDigest \/ StatResume \/ StatDigestStep \/ StatDie

-----------------------------------------------------------------------------
(* Properties *)

Stats == {stats, saved_stats}

\* Each variable stays in its range.
StatTypeOK ==
    \A s \in Stats :
        /\ s.term_frequencies \subseteq Term
        /\ s.document_frequencies \in [Term -> Nat]
        /\ s.documents_with_terms \in [Term -> SUBSET Nat]
        /\ s.total_documents \in Nat /\ s.new_terms_history \in Seq(Nat)
        /\ s.crawl_order \in Seq(Url)

Total(history) ==
    LET upto[k \in 0..Len(history)] ==
            IF k = 0 THEN 0 ELSE upto[k - 1] + history[k]
    IN  upto[Len(history)]

\* The term statistics that the coverage and the saturation are computed from
\* agree with each other, in memory and in the file, over batches with failures
\* and resumed digests: a term's document frequency is the number of documents
\* filed under it, all of them known, so that coverage divides by at least as
\* many documents; the history sums up to the terms known.
TermsAgree ==
    \A s \in Stats :
        /\ \A t \in Term :
              /\ s.document_frequencies[t] =
                    Cardinality(s.documents_with_terms[t])
              /\ s.documents_with_terms[t] \subseteq 0..(s.total_documents - 1)
              /\ t \in s.term_frequencies <=> s.document_frequencies[t] > 0
        /\ Total(s.new_terms_history) = Cardinality(s.term_frequencies)

\* The statistics are those of the knowledge base they are saved with: one
\* document and one entry of each history per page, in its order.
HistoriesAgree ==
    strategy = "statistical" =>
        \A p \in {<<state, stats>>, <<saved.state, saved_stats>>} :
            /\ p[2].crawl_order = p[1].knowledge_base
            /\ p[2].total_documents = Len(p[1].knowledge_base)
            /\ Len(p[2].new_terms_history) = p[2].total_documents
=============================================================================
