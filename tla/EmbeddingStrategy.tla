------------------------- MODULE EmbeddingStrategy -------------------------
(***************************************************************************)
(* EmbeddingStrategy (component/crawl4ai/adaptive_crawler.py) in           *)
(* AdaptiveCrawler.digest: query variations split into training and        *)
(* validation queries, the embeddings of the texts crawled, and the caches *)
(* of the strategy object, which lives as long as its crawler and so over  *)
(* several digests.                                                        *)
(*                                                                         *)
(* The embedding of a text stands for the text, and two texts count as too *)
(* similar when they are equal.  Scores are not computed: relevance,       *)
(* convergence, validation and gain are choices where the code does not    *)
(* fix the answer; the confidence threshold is taken to be positive.       *)
(***************************************************************************)
EXTENDS AdaptiveCrawl

CONSTANTS
    Query,        \* the query of every digest
    Variation,    \* variations['queries'] of map_query_semantic_space
    n_validation

ASSUME QueriesAssumption ==
    /\ Query \notin Variation
    /\ n_validation \in Nat

VARIABLES
    semantic,       \* self.state: the part of the strategy
    saved_semantic, \* what the file at state_path holds of it
    embedder        \* the strategy object

embVars == <<semantic, saved_semantic, embedder>>

\* kb_embeddings is None as long as it is empty.  The code looks at no more
\* than whether confidence_history has two entries.
NewSemantic ==
    [query_embeddings |-> {},
     kb_embeddings |-> <<>>,
     crawl_order |-> <<>>,
     confidence_history |-> 0,
     resumed |-> FALSE]          \* observation only

\* _distance_matrix_cache with _kb_embeddings_hash: what it was computed from.
NoMatrix == [queries |-> {}, kb |-> <<>>]
NewEmbedder ==
    [validation_queries |-> {},
     validation_embeddings |-> {},   \* the cache; {} is None
     validation_passed |-> FALSE,
     matrix |-> NoMatrix]

EmbInit ==
    /\ semantic = NewSemantic
    /\ saved_semantic = NewSemantic
    /\ embedder = NewEmbedder

-----------------------------------------------------------------------------
(* map_query_semantic_space, in digest *)

\* The crawler of the digests before, or one of a new process.
Embedders == {embedder, NewEmbedder}

EmbDigest ==
    /\ Digest
    /\ \/ /\ pc' # "idle"
          /\ \E held_out \in SUBSET Variation, e \in Embedders :
                /\ Cardinality(held_out) = n_validation
                /\ semantic' = [NewSemantic EXCEPT !.query_embeddings =
                                   {Query} \cup (Variation \ held_out)]
                /\ embedder' = [e EXCEPT !.validation_queries = held_out]
       \/ \* _get_embeddings raises
          /\ pc' = "idle"
          /\ semantic' = NewSemantic
          /\ UNCHANGED embedder
    /\ UNCHANGED saved_semantic

\* The queries are those of the file, the strategy object is not.
EmbResume ==
    /\ Resume
    /\ pc' # "idle"
    /\ semantic' = [saved_semantic EXCEPT !.resumed = TRUE]
    /\ embedder' \in Embedders
    /\ UNCHANGED saved_semantic

-----------------------------------------------------------------------------
(* update_state *)

Texts(results) == Picked(results, {i \in DOMAIN results : TermsOf[results[i]] # {}})

\* The first texts all go in, later ones if the base has nothing like them.
Kept(kb, results) ==
    LET texts == Texts(results)
    IN  IF kb = <<>> THEN texts
        ELSE Picked(texts, {i \in DOMAIN texts : TermsOf[texts[i]] \notin ToSet(kb)})

\* Mutant: crawl_order lists every page with a text.
EmbedListsAll(s, results) ==
    LET kept == Kept(s.kb_embeddings, results)
    IN  [s EXCEPT
            !.kb_embeddings = @ \o [i \in DOMAIN kept |-> TermsOf[kept[i]]],
            !.crawl_order = @ \o Texts(results)]
Embed(s, results) ==
    LET kept == Kept(s.kb_embeddings, results)
    IN  [s EXCEPT
            !.kb_embeddings = @ \o [i \in DOMAIN kept |-> TermsOf[kept[i]]],
            !.crawl_order = @ \o kept]

\* Mutant: the distance matrix is kept.
KeepsMatrix(results) == embedder
Invalidated(results) ==
    IF Texts(results) = <<>> THEN embedder
    ELSE [embedder EXCEPT !.matrix = NoMatrix]

EmbUpdate(results) ==
    /\ \/ /\ pc' # "idle"
          /\ semantic' = Embed(semantic, results)
          /\ embedder' = Invalidated(results)
       \/ \* get_text_embeddings raises
          /\ pc' = "idle"
          /\ Texts(results) # <<>>
          /\ UNCHANGED <<semantic, embedder>>
    /\ UNCHANGED saved_semantic

EmbStart ==
    \/ StartLoaded /\ EmbUpdate(<<start_url>>)
    \/ StartFailed /\ UNCHANGED embVars

EmbBatch(ok) == BatchDone(ok) /\ EmbUpdate(Loaded(ok))

-----------------------------------------------------------------------------
(* should_stop and rank_links *)

\* should_stop beyond the limits: the confidence is noted; the second time and
\* later it may have converged, which asks for validate_coverage.
Noted == [semantic EXCEPT !.confidence_history = IF @ < 2 THEN @ + 1 ELSE 2]
MayConverge == semantic.confidence_history >= 1

\* validate_coverage embeds the validation queries once.
Validating ==
    [embedder EXCEPT !.validation_embeddings =
        IF @ = {} THEN embedder.validation_queries ELSE @]

\* Strategy objects that should_stop leaves when it says to go on.
GoingOn == {embedder} \cup (IF MayConverge THEN {Validating} ELSE {})

\* find_coverage_gaps: the matrix is computed unless it is cached for the same
\* bytes of kb_embeddings.
Ranking(e) ==
    IF e.matrix.kb = semantic.kb_embeddings THEN e
    ELSE [e EXCEPT !.matrix = [queries |-> semantic.query_embeddings,
                               kb |-> semantic.kb_embeddings]]

\* calculate_confidence is 0.0 without embeddings, and then every page that
\* was crawled is "irrelevant".
MayBeRelevant == semantic.kb_embeddings # <<>>

NoLinks == \A u \in Url : state.pending_links[u] = 0

\* Links are ranked once; those without a text are left out.
EmbSelect(b) ==
    /\ MayBeRelevant
    /\ \A u \in Url : CountIn(b, u) <= 1
    /\ Select(b)
    /\ semantic' = Noted
    /\ \E e \in GoingOn : embedder' = Ranking(e)
    /\ UNCHANGED saved_semantic

EmbStop ==
    /\ Stop
    /\ \/ /\ \/ depth >= max_depth
             \/ state.crawled_urls # {}     \* irrelevant
             \/ LimitReached \/ NoLinks
          /\ UNCHANGED <<semantic, embedder>>
       \/ /\ depth < max_depth
          /\ ~LimitReached /\ ~NoLinks
          /\ MayBeRelevant
          /\ semantic' = Noted
          /\ \/ /\ MayConverge
                /\ embedder' = [Validating EXCEPT !.validation_passed = TRUE]
             \/ \* no link is left, or none gains enough
                \E e \in GoingOn : embedder' \in {e, Ranking(e)}
    /\ UNCHANGED saved_semantic

\* The confidence history is no field of CrawlState.
EmbSave ==
    /\ Save
    /\ saved_semantic' = [semantic EXCEPT !.confidence_history = 0]
    /\ UNCHANGED <<semantic, embedder>>

\* It may be should_stop or rank_links that raises.
EmbDie ==
    /\ Die
    /\ saved_semantic' = IF saved'.file = "torn" THEN NewSemantic
                         ELSE saved_semantic
    /\ \/ UNCHANGED embedder
       \/ /\ pc = "deciding"
          /\ MayBeRelevant
          /\ \E e \in GoingOn : embedder' = Ranking(e)
    /\ UNCHANGED semantic

EmbDigestStep ==
    \/ EmbStart
    \/ \E b \in Batches : EmbSelect(b)
    \/ \E ok \in SUBSET DOMAIN batch : EmbBatch(ok)
    \/ EmbSave \/ EmbStop

EmbNext == EmbDigest \/ EmbResume \/ EmbDigestStep \/ EmbDie

-----------------------------------------------------------------------------
(* Properties *)

\* Each variable stays in its range.
EmbTypeOK ==
    /\ \A s \in {semantic, saved_semantic} :
          /\ s.query_embeddings \subseteq Variation \cup {Query}
          /\ s.kb_embeddings \in Seq(SUBSET Term)
          /\ s.crawl_order \in Seq(Url)
          /\ s.confidence_history \in 0..2
          /\ s.resumed \in BOOLEAN
    /\ embedder.validation_queries \subseteq Variation
    /\ embedder.validation_embeddings \subseteq Variation
    /\ embedder.validation_passed \in BOOLEAN
    /\ embedder.matrix.queries \subseteq Variation \cup {Query}
    /\ embedder.matrix.kb \in Seq(SUBSET Term)

\* The embeddings are those of the pages listed in crawl_order, in its order,
\* and although similar texts are left out every text of the knowledge base is
\* represented: while a digest runs, whatever failed in it or before it, and in
\* the file.
KbFollowsPages ==
    strategy = "embedding" =>
        \A p \in {<<state, semantic>>, <<saved.state, saved_semantic>>} :
            LET pages == ToSet(p[1].knowledge_base)
                kb == p[2].kb_embeddings
            IN  \/ p = <<state, semantic>> /\ pc = "idle"
                \/ /\ kb = [i \in DOMAIN p[2].crawl_order |->
                              TermsOf[p[2].crawl_order[i]]]
                   /\ ToSet(p[2].crawl_order) \subseteq pages
                   /\ \A u \in pages :
                         TermsOf[u] = {} \/ TermsOf[u] \in ToSet(kb)

\* The gaps that links are ranked by are the gaps of this digest's queries:
\* the distance matrix, which is looked up by the bytes of kb_embeddings only,
\* never survives from a digest with other queries.  A digest resumed from a
\* file is left out: its queries are not those that were used last.
GapsOfTheseQueries ==
    [][\A b \in Batches : EmbSelect(b) /\ ~semantic.resumed =>
          embedder'.matrix.queries = semantic.query_embeddings]_embVars

\* validate_coverage: "Validate coverage using held-out queries with caching".
\* No query that the coverage is computed with takes part in validating it.
ValidatesHeldOut ==
    [][embedder'.validation_passed /\ ~embedder.validation_passed =>
          embedder'.validation_embeddings \cap semantic.query_embeddings = {}
      ]_embVars
=============================================================================
