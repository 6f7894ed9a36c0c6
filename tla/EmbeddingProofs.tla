-------------------------- MODULE EmbeddingProofs --------------------------
(***************************************************************************)
(* KbFollowsPages and GapsOfTheseQueries for every site, every query space *)
(* and every site's texts, and the type of the embedding strategy.         *)
(*                                                                         *)
(* The first is inductive once a torn file is known to hold nothing (in    *)
(* LoopType), and needs what Picked returns: the texts that are left out   *)
(* are those that the base has already.  The second is about a step only;  *)
(* the invariant behind it says of the cached matrix, at any time, that it *)
(* is the one of this digest's queries if it is found at all.              *)
(***************************************************************************)
EXTENDS AdaptiveCrawlProofs, SequenceTheorems

-----------------------------------------------------------------------------
(* Types *)

SemanticFields == {"query_embeddings", "kb_embeddings", "crawl_order",
                   "confidence_history", "resumed"}
EmbedderFields == {"validation_queries", "validation_embeddings",
                   "validation_passed", "matrix"}

SemanticType(m) ==
    /\ DOMAIN m = SemanticFields
    /\ m.query_embeddings \subseteq Variation \cup {Query}
    /\ m.kb_embeddings \in Seq(SUBSET Term) /\ m.crawl_order \in Seq(Url)
    /\ m.confidence_history \in 0..2 /\ m.resumed \in BOOLEAN

EmbedderType(e) ==
    /\ DOMAIN e = EmbedderFields
    /\ e.validation_queries \subseteq Variation
    /\ e.validation_embeddings \subseteq Variation
    /\ e.validation_passed \in BOOLEAN
    /\ e.matrix.queries \subseteq Variation \cup {Query}
    /\ e.matrix.kb \in Seq(SUBSET Term)

EmbType == SemanticType(semantic) /\ SemanticType(saved_semantic) /\ EmbedderType(embedder)

\* What a digest and a strategy object start with.
LEMMA NewEmbType ==
    /\ SemanticType(NewSemantic) /\ EmbedderType(NewEmbedder)
    /\ NewSemantic.kb_embeddings = <<>> /\ NewSemantic.crawl_order = <<>>
  <1>1. SemanticType(NewSemantic)
    BY DEF NewSemantic, SemanticType, SemanticFields
  <1>2. EmbedderType(NewEmbedder)
    <2>1. /\ DOMAIN NewEmbedder = EmbedderFields
          /\ NewEmbedder.validation_queries = {} /\ NewEmbedder.validation_embeddings = {}
          /\ NewEmbedder.matrix = NoMatrix
      BY DEF NewEmbedder, EmbedderFields
    <2>2. NewEmbedder.validation_passed \in BOOLEAN
      BY Zenon DEF NewEmbedder
    <2>3. NoMatrix.queries = {} /\ NoMatrix.kb = <<>>
      BY DEF NoMatrix
    <2>. QED
      BY <2>1, <2>2, <2>3 DEF EmbedderType
  <1>. QED
    BY <1>1, <1>2 DEF NewSemantic

\* Noting the confidence leaves everything else of the state.
LEMMA NotedType ==
    ASSUME SemanticType(semantic)
    PROVE  /\ SemanticType(Noted)
           /\ Noted.query_embeddings = semantic.query_embeddings
           /\ Noted.kb_embeddings = semantic.kb_embeddings
           /\ Noted.crawl_order = semantic.crawl_order
           /\ Noted.resumed = semantic.resumed
  <1>1. /\ DOMAIN Noted = SemanticFields
        /\ Noted.query_embeddings = semantic.query_embeddings
        /\ Noted.kb_embeddings = semantic.kb_embeddings
        /\ Noted.crawl_order = semantic.crawl_order
        /\ Noted.resumed = semantic.resumed
        /\ Noted.confidence_history = IF semantic.confidence_history < 2
                                      THEN semantic.confidence_history + 1 ELSE 2
    BY DEF Noted, SemanticType, SemanticFields
  <1>2. Noted.confidence_history \in 0..2
    BY <1>1 DEF SemanticType
  <1>. QED
    BY <1>1, <1>2 DEF SemanticType

\* Validating leaves the matrix.
LEMMA ValidatingType ==
    ASSUME EmbedderType(embedder)
    PROVE  /\ EmbedderType(Validating) /\ Validating.matrix = embedder.matrix
           /\ \A e \in GoingOn : EmbedderType(e) /\ e.matrix = embedder.matrix
  <1>1. EmbedderType(Validating) /\ Validating.matrix = embedder.matrix
    BY DEF Validating, EmbedderType, EmbedderFields
  <1>. QED
    BY <1>1 DEF GoingOn

\* Ranking leaves a matrix that is found, and else the one of this digest.
LEMMA RankingType ==
    ASSUME SemanticType(semantic), NEW e, EmbedderType(e)
    PROVE  /\ EmbedderType(Ranking(e))
           /\ Ranking(e).matrix = IF e.matrix.kb = semantic.kb_embeddings THEN e.matrix
                                  ELSE [queries |-> semantic.query_embeddings,
                                        kb |-> semantic.kb_embeddings]
  BY DEF Ranking, SemanticType, EmbedderType, EmbedderFields

-----------------------------------------------------------------------------
(* update_state *)

\* The texts that go in are texts of the results, and one that does not go in
\* is in the base already.
LEMMA KeptFacts ==
    ASSUME NEW kb \in Seq(SUBSET Term), NEW results \in Seq(Url)
    PROVE  LET kept == Kept(kb, results) IN
           /\ kept \in Seq(Url) /\ ToSet(kept) \subseteq ToSet(results)
           /\ \A u \in ToSet(results) :
                 TermsOf[u] = {} \/ TermsOf[u] \in ToSet(kb) \/ u \in ToSet(kept)
           /\ Texts(results) = <<>> => kept = <<>>
  <1> DEFINE P == {i \in DOMAIN results : TermsOf[results[i]] # {}}
             texts == Texts(results)
             Q == {i \in DOMAIN texts : TermsOf[texts[i]] \notin ToSet(kb)}
             picked == Picked(texts, Q)
             kept == Kept(kb, results)
  <1>1. /\ texts \in Seq(Url)
        /\ \A k \in DOMAIN texts : \E i \in P : texts[k] = results[i]
        /\ \A i \in P : \E k \in DOMAIN texts : texts[k] = results[i]
    <2>1. P \in SUBSET DOMAIN results /\ texts = Picked(results, P)
      BY DEF Texts
    <2> HIDE DEF P, texts
    <2>. QED
      BY <2>1, PickedFacts
  <1>2. /\ picked \in Seq(Url) /\ Len(picked) = Cardinality(Q) /\ IsFiniteSet(Q)
        /\ \A k \in DOMAIN picked : \E i \in Q : picked[k] = texts[i]
        /\ \A i \in Q : \E k \in DOMAIN picked : picked[k] = texts[i]
    <2>1. Q \in SUBSET DOMAIN texts /\ picked = Picked(texts, Q)
      OBVIOUS
    <2> HIDE DEF texts, Q, picked, kept
    <2>. QED
      BY <1>1, <2>1, PickedFacts
  <1>3. kept = IF kb = <<>> THEN texts ELSE picked
    BY DEF Kept
  <1>4. ASSUME NEW u \in ToSet(results), TermsOf[u] # {} PROVE u \in ToSet(texts)
    <2>1. PICK i \in DOMAIN results : u = results[i]
      BY DEF ToSet
    <2>2. i \in P
      BY <1>4, <2>1
    <2>. QED
      BY <1>1, <2>1, <2>2 DEF ToSet
  <1>5. ToSet(texts) \subseteq ToSet(results)
    BY <1>1 DEF ToSet
  <1>6. ToSet(picked) \subseteq ToSet(texts)
    BY <1>2 DEF ToSet
  <1>7. ASSUME NEW u \in ToSet(texts), TermsOf[u] \notin ToSet(kb) PROVE u \in ToSet(picked)
    <2>1. PICK i \in DOMAIN texts : u = texts[i]
      BY DEF ToSet
    <2>2. i \in Q
      BY <1>7, <2>1
    <2>. QED
      BY <1>2, <2>1, <2>2 DEF ToSet
  <1>8. texts = <<>> => picked = <<>>
    <2>1. ASSUME texts = <<>> PROVE Q = {}
      BY <2>1
    <2> HIDE DEF Q, picked, texts
    <2>2. ASSUME texts = <<>> PROVE Len(picked) = 0
      BY <1>2, <2>1, <2>2, FS_EmptySet
    <2>. QED
      BY <1>2, <2>2
  <1> HIDE DEF P, texts, Q, picked, kept
  <1>9. kept \in Seq(Url) /\ ToSet(kept) \subseteq ToSet(results)
    BY <1>1, <1>2, <1>3, <1>5, <1>6
  <1>10. \A u \in ToSet(results) :
            TermsOf[u] = {} \/ TermsOf[u] \in ToSet(kb) \/ u \in ToSet(kept)
    BY <1>3, <1>4, <1>7
  <1>11. texts = <<>> => kept = <<>>
    BY <1>3, <1>8
  <1>. QED
    BY <1>9, <1>10, <1>11 DEF kept, texts

\* What update_state makes of the state, entry by entry.
LEMMA EmbedType ==
    ASSUME NEW m, SemanticType(m), NEW results \in Seq(Url)
    PROVE  LET kept == Kept(m.kb_embeddings, results)
               texts == [i \in DOMAIN kept |-> TermsOf[kept[i]]]
               n == Embed(m, results)
           IN  /\ SemanticType(n) /\ texts \in Seq(SUBSET Term)
               /\ n.kb_embeddings = m.kb_embeddings \o texts
               /\ n.crawl_order = m.crawl_order \o kept
               /\ n.query_embeddings = m.query_embeddings /\ n.resumed = m.resumed
  <1> DEFINE kept == Kept(m.kb_embeddings, results)
             texts == [i \in DOMAIN kept |-> TermsOf[kept[i]]]
             n == Embed(m, results)
  <1>1. kept \in Seq(Url)
    BY KeptFacts DEF SemanticType
  <1> HIDE DEF kept
  <1>2. texts \in Seq(SUBSET Term)
    <2>1. DOMAIN kept = 1..Len(kept) /\ Len(kept) \in Nat
      BY <1>1
    <2>2. \A i \in DOMAIN kept : TermsOf[kept[i]] \in SUBSET Term
      BY <1>1, PagesAssumption
    <2>. QED
      BY <2>1, <2>2
  <1>3. n = [m EXCEPT !.kb_embeddings = @ \o texts, !.crawl_order = @ \o kept]
    BY DEF Embed, kept
  <1> HIDE DEF texts, n
  <1>4. /\ DOMAIN n = SemanticFields
        /\ n.kb_embeddings = m.kb_embeddings \o texts
        /\ n.crawl_order = m.crawl_order \o kept
        /\ n.query_embeddings = m.query_embeddings /\ n.resumed = m.resumed
        /\ n.confidence_history = m.confidence_history
    BY <1>3 DEF SemanticType, SemanticFields
  <1>5. n.kb_embeddings \in Seq(SUBSET Term) /\ n.crawl_order \in Seq(Url)
    BY <1>1, <1>2, <1>4 DEF SemanticType
  <1>6. SemanticType(n)
    BY <1>4, <1>5 DEF SemanticType
  <1>. QED
    BY <1>2, <1>4, <1>6 DEF kept, texts, n

\* The embeddings of a state are those of the pages in its knowledge base.
Follows(s, m) ==
    LET pages == ToSet(s.knowledge_base)
        kb == m.kb_embeddings
    IN  /\ kb = [i \in DOMAIN m.crawl_order |-> TermsOf[m.crawl_order[i]]]
        /\ ToSet(m.crawl_order) \subseteq pages
        /\ \A u \in pages : TermsOf[u] = {} \/ TermsOf[u] \in ToSet(kb)

\* The elements of a concatenation, in their order.
LEMMA ConcatFacts ==
    ASSUME NEW T, NEW s \in Seq(T), NEW t \in Seq(T)
    PROVE  /\ s \o t = [i \in 1..(Len(s) + Len(t)) |-> (s \o t)[i]]
           /\ DOMAIN (s \o t) = 1..(Len(s) + Len(t))
           /\ \A i \in 1..(Len(s) + Len(t)) :
                 (s \o t)[i] = IF i <= Len(s) THEN s[i] ELSE t[i - Len(s)]
           /\ DOMAIN s = 1..Len(s) /\ DOMAIN t = 1..Len(t)
           /\ Len(s) \in Nat /\ Len(t) \in Nat
  <1>1. /\ DOMAIN s = 1..Len(s) /\ DOMAIN t = 1..Len(t)
        /\ Len(s) \in Nat /\ Len(t) \in Nat
    OBVIOUS
  <1>2. /\ s \o t \in Seq(T) /\ Len(s \o t) = Len(s) + Len(t)
        /\ \A i \in 1..(Len(s) + Len(t)) :
              (s \o t)[i] = IF i <= Len(s) THEN s[i] ELSE t[i - Len(s)]
    BY ConcatProperties
  <1>3. DOMAIN (s \o t) = 1..(Len(s) + Len(t))
    BY <1>2
  <1>4. s \o t = [i \in 1..(Len(s) + Len(t)) |-> (s \o t)[i]]
    <2> DEFINE u == s \o t
    <2>1. u \in Seq(T) /\ DOMAIN u = 1..(Len(s) + Len(t))
      BY <1>2, <1>3
    <2> HIDE DEF u
    <2>2. u = [i \in DOMAIN u |-> u[i]]
      BY <2>1
    <2>3. u = [i \in 1..(Len(s) + Len(t)) |-> u[i]]
      BY <2>1, <2>2
    <2>. QED
      BY <2>3 DEF u
  <1>. QED
    BY <1>1, <1>2, <1>3, <1>4

\* A concatenation has the elements of both.
LEMMA ToSetOfConcat ==
    ASSUME NEW T, NEW s \in Seq(T), NEW t \in Seq(T)
    PROVE  ToSet(s \o t) = ToSet(s) \cup ToSet(t)
  <1>1. /\ DOMAIN (s \o t) = 1..(Len(s) + Len(t))
        /\ \A i \in 1..(Len(s) + Len(t)) :
              (s \o t)[i] = IF i <= Len(s) THEN s[i] ELSE t[i - Len(s)]
        /\ DOMAIN s = 1..Len(s) /\ DOMAIN t = 1..Len(t)
        /\ Len(s) \in Nat /\ Len(t) \in Nat
    BY ConcatFacts
  <1>2. ASSUME NEW x \in ToSet(s \o t) PROVE x \in ToSet(s) \cup ToSet(t)
    <2>1. PICK i \in 1..(Len(s) + Len(t)) : x = (s \o t)[i]
      BY <1>1 DEF ToSet
    <2>2. CASE i <= Len(s)
      BY <1>1, <2>1, <2>2 DEF ToSet
    <2>3. CASE i > Len(s)
      <3>1. i - Len(s) \in 1..Len(t) /\ x = t[i - Len(s)]
        BY <1>1, <2>1, <2>3
      <3>. QED
        BY <1>1, <3>1 DEF ToSet
    <2>. QED
      BY <1>1, <2>1, <2>2, <2>3
  <1>3. ASSUME NEW x \in ToSet(s) PROVE x \in ToSet(s \o t)
    <2>1. PICK i \in 1..Len(s) : x = s[i]
      BY <1>1 DEF ToSet
    <2>2. i \in 1..(Len(s) + Len(t)) /\ (s \o t)[i] = x
      BY <1>1, <2>1
    <2>. QED
      BY <1>1, <2>2 DEF ToSet
  <1>4. ASSUME NEW x \in ToSet(t) PROVE x \in ToSet(s \o t)
    <2>1. PICK i \in 1..Len(t) : x = t[i]
      BY <1>1 DEF ToSet
    <2>2. i + Len(s) \in 1..(Len(s) + Len(t)) /\ (s \o t)[i + Len(s)] = x
      BY <1>1, <2>1
    <2>. QED
      BY <1>1, <2>2 DEF ToSet
  <1>. QED
    BY <1>2, <1>3, <1>4

\* Pages and their embeddings are added together.
LEMMA EmbedFollows ==
    ASSUME NEW s, NEW m, NEW t, NEW results \in Seq(Url), SemanticType(m),
           Follows(s, m), s.knowledge_base \in Seq(Url),
           t.knowledge_base = s.knowledge_base \o results
    PROVE  Follows(t, Embed(m, results))
  <1> DEFINE kb == m.kb_embeddings
             kept == Kept(kb, results)
             texts == [i \in DOMAIN kept |-> TermsOf[kept[i]]]
             order == m.crawl_order
             n == Embed(m, results)
  <1>1. /\ kb \in Seq(SUBSET Term) /\ order \in Seq(Url)
        /\ kb = [i \in DOMAIN order |-> TermsOf[order[i]]]
        /\ ToSet(order) \subseteq ToSet(s.knowledge_base)
        /\ \A u \in ToSet(s.knowledge_base) : TermsOf[u] = {} \/ TermsOf[u] \in ToSet(kb)
    BY DEF SemanticType, Follows
  <1>2. /\ kept \in Seq(Url) /\ ToSet(kept) \subseteq ToSet(results)
        /\ \A u \in ToSet(results) :
              TermsOf[u] = {} \/ TermsOf[u] \in ToSet(kb) \/ u \in ToSet(kept)
    BY <1>1, KeptFacts
  <1>3. /\ texts \in Seq(SUBSET Term)
        /\ n.kb_embeddings = kb \o texts /\ n.crawl_order = order \o kept
    BY EmbedType
  <1>4. \A u \in ToSet(kept) : TermsOf[u] \in ToSet(texts)
    BY DEF ToSet
  <1> HIDE DEF kb, kept, order, n
  <1>5. kb \o texts = [i \in DOMAIN (order \o kept) |-> TermsOf[(order \o kept)[i]]]
    <2>1. /\ DOMAIN order = 1..Len(order) /\ Len(order) \in Nat
          /\ DOMAIN kept = 1..Len(kept) /\ Len(kept) \in Nat
          /\ DOMAIN (order \o kept) = 1..(Len(order) + Len(kept))
          /\ \A i \in 1..(Len(order) + Len(kept)) :
                (order \o kept)[i] = IF i <= Len(order) THEN order[i]
                                     ELSE kept[i - Len(order)]
      BY <1>1, <1>2
    <2>2. Len(kb) = Len(order) /\ Len(texts) = Len(kept)
      BY <1>1, <1>3, <2>1
    <2>3. /\ DOMAIN (kb \o texts) = 1..(Len(order) + Len(kept))
          /\ kb \o texts = [i \in 1..(Len(order) + Len(kept)) |-> (kb \o texts)[i]]
          /\ \A i \in 1..(Len(order) + Len(kept)) :
                (kb \o texts)[i] = IF i <= Len(order) THEN kb[i]
                                   ELSE texts[i - Len(order)]
      <3> HIDE DEF texts
      <3>1. kb \in Seq(SUBSET Term) /\ texts \in Seq(SUBSET Term)
        BY <1>1, <1>3
      <3>2. /\ kb \o texts = [i \in 1..(Len(kb) + Len(texts)) |-> (kb \o texts)[i]]
            /\ DOMAIN (kb \o texts) = 1..(Len(kb) + Len(texts))
            /\ \A i \in 1..(Len(kb) + Len(texts)) :
                  (kb \o texts)[i] = IF i <= Len(kb) THEN kb[i] ELSE texts[i - Len(kb)]
        BY <3>1, ConcatFacts
      <3>. QED
        BY <2>2, <3>2
    <2>4. ASSUME NEW i \in 1..(Len(order) + Len(kept))
          PROVE  (kb \o texts)[i] = TermsOf[(order \o kept)[i]]
      <3>1. CASE i <= Len(order)
        BY <1>1, <2>1, <2>3, <3>1
      <3>2. CASE i > Len(order)
        <4>1. i - Len(order) \in DOMAIN kept
          BY <2>1, <3>2
        <4>2. texts[i - Len(order)] = TermsOf[kept[i - Len(order)]]
          BY <4>1
        <4> HIDE DEF texts
        <4>. QED
          BY <2>1, <2>3, <3>2, <4>2
      <3>3. i <= Len(order) \/ i > Len(order)
        BY <2>1
      <3>. QED
        BY <3>1, <3>2, <3>3
    <2> HIDE DEF texts
    <2>. QED
      BY <2>1, <2>3, <2>4
  <1> HIDE DEF texts
  <1>6. /\ ToSet(t.knowledge_base) = ToSet(s.knowledge_base) \cup ToSet(results)
        /\ ToSet(order \o kept) = ToSet(order) \cup ToSet(kept)
        /\ ToSet(kb \o texts) = ToSet(kb) \cup ToSet(texts)
    <2>1. ToSet(s.knowledge_base \o results) = ToSet(s.knowledge_base) \cup ToSet(results)
      BY ToSetOfConcat
    <2>2. ToSet(order \o kept) = ToSet(order) \cup ToSet(kept)
      BY <1>1, <1>2, ToSetOfConcat
    <2>3. kb \in Seq(SUBSET Term) /\ texts \in Seq(SUBSET Term)
      BY <1>1, <1>3
    <2> HIDE DEF kb, order, kept
    <2>4. ToSet(kb \o texts) = ToSet(kb) \cup ToSet(texts)
      BY <2>3, ToSetOfConcat
    <2>. QED
      BY <2>1, <2>2, <2>4
  <1>7. Follows(t, n)
    BY <1>1, <1>2, <1>3, <1>4, <1>5, <1>6 DEF Follows
  <1>. QED
    BY <1>7 DEF n

-----------------------------------------------------------------------------
(* The invariant *)

\* A matrix that is found is one of the queries of the digest that runs.
Found ==
    ~semantic.resumed /\ semantic.kb_embeddings # <<>>
    /\ embedder.matrix.kb = semantic.kb_embeddings =>
        embedder.matrix.queries = semantic.query_embeddings

\* The file at any time, and the state while a digest runs.
Followed ==
    strategy = "embedding" =>
        /\ Follows(saved.state, saved_semantic)
        /\ pc # "idle" => Follows(state, semantic)

EmbInv == EmbType /\ Found /\ Followed

\* A new state has neither pages nor embeddings.
LEMMA NewFollows ==
    ASSUME NEW m, m.kb_embeddings = <<>>, m.crawl_order = <<>>
    PROVE  Follows(NewState, m)
  BY DEF Follows, NewState, ToSet

\* Follows looks at two entries of what the strategy keeps.
LEMMA SameFollows ==
    ASSUME NEW s, NEW m, NEW n, Follows(s, m), n.kb_embeddings = m.kb_embeddings,
           n.crawl_order = m.crawl_order
    PROVE  Follows(s, n)
  BY DEF Follows

\* Nothing is embedded or saved yet.
LEMMA EmbInvInit == CrawlerInit => EmbInv
  <1> SUFFICES ASSUME CrawlerInit PROVE EmbInv
    OBVIOUS
  <1>1. /\ semantic = NewSemantic /\ saved_semantic = NewSemantic /\ embedder = NewEmbedder
        /\ state = NewState /\ saved.state = NewState
    BY DEF CrawlerInit, EmbInit, Init, NoFile
  <1>2. EmbType /\ Found
    BY <1>1, NewEmbType DEF EmbType, Found
  <1>3. Followed
    BY <1>1, NewEmbType, NewFollows DEF Followed
  <1>. QED
    BY <1>2, <1>3 DEF EmbInv

\* A step of a crawler with the other strategy.
LEMMA StatisticalEmbInv ==
    ASSUME EmbInv, Statistical(StatNext)
    PROVE  EmbInv'
  <1>1. UNCHANGED embVars /\ strategy = "statistical" /\ strategy' = strategy
    <2>1. Next
      BY StatStepIsStep DEF Statistical
    <2>2. strategy' = strategy
      BY <2>1 DEF Next, Digest, Resume, Begin, StartLoaded, StartFailed, Select,
                  BatchDone, Save, Stop, Die
    <2>. QED
      BY <2>2 DEF Statistical
  <1>2. EmbType' /\ Found'
    BY <1>1 DEF EmbInv, EmbType, Found, embVars
  <1>. QED
    BY <1>1, <1>2 DEF EmbInv, Followed

\* A digest begins anew: the caches are those of the digests before, but there
\* is nothing in the base that they could be found for.
LEMMA DigestEmbInv ==
    ASSUME EmbInv, EmbDigest
    PROVE  EmbInv'
  <1>1. /\ UNCHANGED <<strategy, saved, saved_semantic>> /\ state' = NewState
        /\ EmbType /\ Followed
    BY DEF EmbDigest, Digest, Begin, EmbInv
  <1>2. /\ SemanticType(semantic') /\ EmbedderType(embedder')
        /\ semantic'.kb_embeddings = <<>> /\ semantic'.crawl_order = <<>>
    <2>1. CASE semantic' = NewSemantic /\ embedder' = embedder
      BY <1>1, <2>1, NewEmbType DEF EmbType
    <2>2. ASSUME NEW held_out \in SUBSET Variation, NEW e \in Embedders,
                 semantic' = [NewSemantic EXCEPT !.query_embeddings =
                                {Query} \cup (Variation \ held_out)],
                 embedder' = [e EXCEPT !.validation_queries = held_out]
          PROVE  /\ SemanticType(semantic') /\ EmbedderType(embedder')
                 /\ semantic'.kb_embeddings = <<>> /\ semantic'.crawl_order = <<>>
      <3>1. EmbedderType(e)
        BY <1>1, NewEmbType DEF EmbType, Embedders
      <3>2. EmbedderType(embedder')
        BY <2>2, <3>1 DEF EmbedderType, EmbedderFields
      <3>3. /\ DOMAIN semantic' = SemanticFields
            /\ semantic'.query_embeddings = {Query} \cup (Variation \ held_out)
            /\ semantic'.kb_embeddings = NewSemantic.kb_embeddings
            /\ semantic'.crawl_order = NewSemantic.crawl_order
            /\ semantic'.confidence_history = NewSemantic.confidence_history
            /\ semantic'.resumed = NewSemantic.resumed
        BY <2>2, NewEmbType DEF SemanticType, SemanticFields
      <3>. QED
        BY <3>2, <3>3, NewEmbType DEF SemanticType
    <2>. QED
      BY <2>1, <2>2 DEF EmbDigest
  <1>3. EmbType' /\ Found'
    BY <1>1, <1>2 DEF EmbType, Found
  <1>4. Followed'
    BY <1>1, <1>2, NewFollows DEF Followed
  <1>. QED
    BY <1>3, <1>4 DEF EmbInv

\* A digest is resumed: pages and embeddings are those of the file.
LEMMA ResumeEmbInv ==
    ASSUME EmbInv, EmbResume
    PROVE  EmbInv'
  <1>1. /\ UNCHANGED <<strategy, saved, saved_semantic>> /\ state' = saved.state
        /\ semantic' = [saved_semantic EXCEPT !.resumed = TRUE]
        /\ embedder' \in Embedders /\ EmbType /\ Followed
    BY DEF EmbResume, Resume, Begin, EmbInv
  <1>2. EmbedderType(embedder')
    BY <1>1, NewEmbType DEF EmbType, Embedders
  <1>3. /\ DOMAIN semantic' = SemanticFields /\ semantic'.resumed
        /\ semantic'.query_embeddings = saved_semantic.query_embeddings
        /\ semantic'.kb_embeddings = saved_semantic.kb_embeddings
        /\ semantic'.crawl_order = saved_semantic.crawl_order
        /\ semantic'.confidence_history = saved_semantic.confidence_history
    BY <1>1 DEF EmbType, SemanticType, SemanticFields
  <1>4. semantic'.resumed \in BOOLEAN
    <2>1. "resumed" \in DOMAIN saved_semantic
      BY <1>1 DEF EmbType, SemanticType, SemanticFields
    <2>2. semantic'.resumed = TRUE
      BY <1>1, <2>1
    <2>. QED
      BY <2>2
  <1>5. EmbType' /\ Found'
    BY <1>1, <1>2, <1>3, <1>4 DEF EmbType, SemanticType, Found
  <1>6. Followed'
    BY <1>1, <1>3, SameFollows DEF Followed
  <1>. QED
    BY <1>5, <1>6 DEF EmbInv

\* update_state, or what it calls raises and ends the digest: the base and the
\* pages grow together, and the matrix is dropped unless the base stays.
LEMMA UpdateEmbInv ==
    ASSUME EmbInv, NEW results \in Seq(Url), EmbUpdate(results),
           UNCHANGED <<strategy, saved>>, pc # "idle", state.knowledge_base \in Seq(Url),
           state'.knowledge_base = state.knowledge_base \o results
    PROVE  EmbInv'
  <1>1. EmbType /\ Found /\ Followed /\ saved_semantic' = saved_semantic
    BY DEF EmbUpdate, EmbInv
  <1>2. CASE pc' = "idle" /\ UNCHANGED <<semantic, embedder>>
    BY <1>1, <1>2 DEF EmbInv, EmbType, Found, Followed
  <1>3. CASE pc' # "idle"
    <2> DEFINE kept == Kept(semantic.kb_embeddings, results)
               texts == [i \in DOMAIN kept |-> TermsOf[kept[i]]]
    <2>1. semantic' = Embed(semantic, results) /\ embedder' = Invalidated(results)
      BY <1>3 DEF EmbUpdate
    <2>2. /\ SemanticType(semantic') /\ texts \in Seq(SUBSET Term)
          /\ semantic'.kb_embeddings = semantic.kb_embeddings \o texts
          /\ semantic'.query_embeddings = semantic.query_embeddings
          /\ semantic'.resumed = semantic.resumed
      BY <1>1, <2>1, EmbedType DEF EmbType
    <2>3. semantic.kb_embeddings \in Seq(SUBSET Term)
      BY <1>1 DEF EmbType, SemanticType
    <2>4. EmbedderType(embedder')
      BY <1>1, <2>1 DEF Invalidated, EmbType, EmbedderType, EmbedderFields, NoMatrix
    <2>5. ASSUME Texts(results) = <<>> PROVE Found'
      <3>1. kept = <<>>
        BY <2>3, <2>5, KeptFacts
      <3>2. texts = <<>>
        BY <3>1
      <3> HIDE DEF texts, kept
      <3>3. semantic'.kb_embeddings = semantic.kb_embeddings /\ embedder' = embedder
        BY <2>1, <2>2, <2>3, <2>5, <3>2 DEF Invalidated
      <3>. QED
        BY <1>1, <2>2, <3>3 DEF Found
    <2>6. ASSUME Texts(results) # <<>> PROVE Found'
      <3>1. embedder'.matrix = NoMatrix
        BY <1>1, <2>1, <2>6 DEF Invalidated, EmbType, EmbedderType, EmbedderFields
      <3>. QED
        BY <3>1 DEF Found, NoMatrix
    <2>7. Found'
      BY <2>5, <2>6
    <2>8. strategy = "embedding" => Follows(state', semantic')
      BY <1>1, <2>1, EmbedFollows DEF Followed, EmbType
    <2>. QED
      BY <1>1, <2>2, <2>4, <2>7, <2>8 DEF EmbInv, EmbType, Followed
  <1>. QED
    BY <1>2, <1>3 DEF EmbUpdate

\* Deciding: the confidence may be noted, coverage validated, links ranked.
LEMMA DecideEmbInv ==
    ASSUME EmbInv, UNCHANGED <<strategy, state, saved_semantic>>, pc # "idle" \/ pc' = "idle",
           Follows(saved.state, saved_semantic) => Follows(saved'.state, saved_semantic),
           semantic' \in {semantic, Noted},
           embedder' \in {embedder, Validating, [Validating EXCEPT !.validation_passed = TRUE]}
              \/ \E e \in GoingOn : embedder' \in {e, Ranking(e)}
    PROVE  EmbInv'
  <1>1. EmbType /\ Found /\ Followed
    BY DEF EmbInv
  <1>2. /\ SemanticType(semantic') /\ semantic'.kb_embeddings = semantic.kb_embeddings
        /\ semantic'.crawl_order = semantic.crawl_order
        /\ semantic'.query_embeddings = semantic.query_embeddings
        /\ semantic'.resumed = semantic.resumed
    BY <1>1, NotedType DEF EmbType
  <1>3. /\ EmbedderType(embedder')
        /\ \/ embedder'.matrix = embedder.matrix
           \/ embedder'.matrix = [queries |-> semantic.query_embeddings,
                                  kb |-> semantic.kb_embeddings]
    <2>1. /\ EmbedderType(Validating) /\ Validating.matrix = embedder.matrix
          /\ \A e \in GoingOn : EmbedderType(e) /\ e.matrix = embedder.matrix
      BY <1>1, ValidatingType DEF EmbType
    <2>2. CASE embedder' = [Validating EXCEPT !.validation_passed = TRUE]
      <3>1. /\ DOMAIN embedder' = EmbedderFields
            /\ embedder'.validation_queries = Validating.validation_queries
            /\ embedder'.validation_embeddings = Validating.validation_embeddings
            /\ embedder'.matrix = Validating.matrix
        BY <2>1, <2>2 DEF EmbedderType, EmbedderFields
      <3>2. embedder'.validation_passed \in BOOLEAN
        <4>1. "validation_passed" \in DOMAIN Validating
          BY <2>1 DEF EmbedderType, EmbedderFields
        <4>2. embedder'.validation_passed = TRUE
          BY <2>2, <4>1
        <4>. QED
          BY <4>2
      <3>. QED
        BY <2>1, <3>1, <3>2 DEF EmbedderType
    <2>3. ASSUME NEW e \in GoingOn, embedder' = Ranking(e)
          PROVE  /\ EmbedderType(embedder')
                 /\ \/ embedder'.matrix = embedder.matrix
                    \/ embedder'.matrix = [queries |-> semantic.query_embeddings,
                                           kb |-> semantic.kb_embeddings]
      BY <1>1, <2>1, <2>3, RankingType DEF EmbType
    <2>. QED
      BY <1>1, <2>1, <2>2, <2>3 DEF EmbType
  <1>4. EmbType' /\ Found'
    BY <1>1, <1>2, <1>3 DEF EmbType, Found
  <1>5. Followed'
    BY <1>1, <1>2, SameFollows DEF Followed
  <1>. QED
    BY <1>4, <1>5 DEF EmbInv

\* Every step of a crawler preserves the invariant.
LEMMA EmbInvNext == LoopType /\ EmbInv /\ [CrawlerNext]_crawlerVars => EmbInv'
  <1> SUFFICES ASSUME LoopType, EmbInv, [CrawlerNext]_crawlerVars PROVE EmbInv'
    OBVIOUS
  <1>0. /\ state.knowledge_base \in Seq(Url) /\ batch \in Seq(Url) /\ start_url \in Url
        /\ IsState(state)
        /\ (saved.file = "torn" => saved.state = NewState)
    BY PagesAssumption DEF LoopType, TypeOK, States
  <1>1. ASSUME EmbStart PROVE EmbInv'
    <2>1. CASE StartLoaded /\ EmbUpdate(<<start_url>>)
      <3>1. state'.knowledge_base = Append(state.knowledge_base, start_url)
            /\ pc = "starting" /\ UNCHANGED <<strategy, saved>>
        BY <1>0, <2>1 DEF StartLoaded, IsState
      <3>2. Append(state.knowledge_base, start_url)
               = state.knowledge_base \o <<start_url>> /\ <<start_url>> \in Seq(Url)
        BY <1>0, AppendIsConcat
      <3>. QED
        BY <1>0, <2>1, <3>1, <3>2, UpdateEmbInv
    <2>2. CASE StartFailed /\ UNCHANGED embVars
      BY <2>2 DEF StartFailed, embVars, EmbInv, EmbType, Found, Followed
    <2>. QED
      BY <1>1, <2>1, <2>2 DEF EmbStart
  <1>2. ASSUME NEW ok \in SUBSET DOMAIN batch, EmbBatch(ok) PROVE EmbInv'
    <2>1. Loaded(ok) \in Seq(Url)
      BY <1>0, PickedFacts DEF Loaded
    <2>2. state'.knowledge_base = state.knowledge_base \o Loaded(ok)
          /\ pc = "crawling" /\ UNCHANGED <<strategy, saved>>
      BY <1>0, <1>2 DEF EmbBatch, BatchDone, IsState
    <2>. QED
      BY <1>0, <1>2, <2>1, <2>2, UpdateEmbInv DEF EmbBatch
  <1>3. ASSUME NEW b, EmbSelect(b) PROVE EmbInv'
    BY <1>3, DecideEmbInv DEF EmbSelect, Select
  <1>4. ASSUME EmbStop PROVE EmbInv'
    BY <1>4, DecideEmbInv DEF EmbStop, Stop
  <1>5. ASSUME EmbSave PROVE EmbInv'
    <2>1. /\ UNCHANGED <<strategy, state, semantic, embedder>> /\ pc # "idle"
          /\ saved'.state = state
          /\ saved_semantic' = [semantic EXCEPT !.confidence_history = 0]
      BY <1>5 DEF EmbSave, Save
    <2>2. /\ SemanticType(saved_semantic')
          /\ saved_semantic'.kb_embeddings = semantic.kb_embeddings
          /\ saved_semantic'.crawl_order = semantic.crawl_order
      BY <2>1 DEF EmbInv, EmbType, SemanticType, SemanticFields
    <2>3. Followed'
      BY <2>1, <2>2, SameFollows DEF EmbInv, Followed
    <2>. QED
      BY <2>1, <2>2, <2>3 DEF EmbInv, EmbType, Found
  <1>6. ASSUME EmbDie PROVE EmbInv'
    <2>1. /\ UNCHANGED <<strategy, state, semantic>> /\ pc' = "idle"
          /\ saved' = saved \/ (saved'.file = "torn" /\ saved'.state = NewState)
          /\ saved_semantic' = IF saved'.file = "torn" THEN NewSemantic ELSE saved_semantic
          /\ embedder' = embedder \/ \E e \in GoingOn : embedder' = Ranking(e)
      BY <1>6 DEF EmbDie, Die, NoFile
    <2>2. SemanticType(saved_semantic')
      BY <2>1, NewEmbType DEF EmbInv, EmbType
    <2>3. strategy = "embedding" => Follows(saved'.state, saved_semantic')
      BY <1>0, <2>1, NewEmbType, NewFollows DEF EmbInv, Followed
    <2>4. EmbedderType(embedder') /\ Found'
      <3>1. CASE embedder' = embedder
        BY <2>1, <3>1 DEF EmbInv, EmbType, Found
      <3>2. ASSUME NEW e \in GoingOn, embedder' = Ranking(e)
            PROVE  EmbedderType(embedder') /\ Found'
        <4>1. EmbedderType(e) /\ e.matrix = embedder.matrix
          BY ValidatingType DEF EmbInv, EmbType
        <4>2. /\ EmbedderType(embedder')
              /\ embedder'.matrix =
                    IF e.matrix.kb = semantic.kb_embeddings THEN e.matrix
                    ELSE [queries |-> semantic.query_embeddings,
                          kb |-> semantic.kb_embeddings]
          BY <3>2, <4>1, RankingType DEF EmbInv, EmbType
        <4>. QED
          BY <2>1, <4>1, <4>2 DEF EmbInv, Found
      <3>. QED
        BY <2>1, <3>1, <3>2
    <2>. QED
      BY <2>1, <2>2, <2>3, <2>4 DEF EmbInv, EmbType, Followed
  <1>7. CASE Embedding(EmbNext)
    BY <1>1, <1>2, <1>3, <1>4, <1>5, <1>6, <1>7, DigestEmbInv, ResumeEmbInv
    DEF Embedding, EmbNext, EmbDigestStep
  <1>8. CASE UNCHANGED crawlerVars
    BY <1>8 DEF crawlerVars, digestVars, embVars, EmbInv, EmbType, Found, Followed
  <1>. QED
    BY <1>7, <1>8, StatisticalEmbInv DEF CrawlerNext

\* It holds in every state.
LEMMA EmbInvHolds == CrawlerSpec => []EmbInv
  BY EmbInvInit, EmbInvNext, LoopTypeCorrect, PTL DEF CrawlerSpec

\* The strategy and its file stay in their ranges.
LEMMA EmbInvType == EmbInv => EmbTypeOK
  BY DEF EmbInv, EmbType, SemanticType, EmbedderType, EmbTypeOK

\* Over failures, resumptions and deaths, and with texts left out that the base
\* has already, the embeddings follow the pages of the knowledge base and every
\* text is represented (update_state, CrawlState.save and load).
THEOREM KbFollows == CrawlerSpec => []KbFollowsPages
  <1>1. ASSUME EmbInv PROVE KbFollowsPages
    BY <1>1 DEF EmbInv, Followed, Follows, KbFollowsPages
  <1>. QED
    BY <1>1, EmbInvHolds, PTL

\* However many digests a strategy object has served, links are ranked by the
\* gaps of the queries of the digest that runs (_get_cached_distance_matrix).
THEOREM GapsFollowQueries == CrawlerSpec => GapsOfTheseQueries
  <1>1. ASSUME EmbInv, NEW b \in Batches, EmbSelect(b), ~semantic.resumed
        PROVE  embedder'.matrix.queries = semantic.query_embeddings
    <2>1. PICK e \in GoingOn : embedder' = Ranking(e)
      BY <1>1 DEF EmbSelect
    <2>2. EmbedderType(e) /\ e.matrix = embedder.matrix
      BY <1>1, ValidatingType DEF EmbInv, EmbType
    <2>3. embedder'.matrix =
             IF e.matrix.kb = semantic.kb_embeddings THEN e.matrix
             ELSE [queries |-> semantic.query_embeddings, kb |-> semantic.kb_embeddings]
      BY <1>1, <2>1, <2>2, RankingType DEF EmbInv, EmbType
    <2>4. semantic.kb_embeddings # <<>>
      BY <1>1 DEF EmbSelect, MayBeRelevant
    <2>. QED
      BY <1>1, <2>2, <2>3, <2>4 DEF EmbInv, Found
  <1>2. EmbInv => [\A b \in Batches : EmbSelect(b) /\ ~semantic.resumed =>
                      embedder'.matrix.queries = semantic.query_embeddings]_embVars
    BY <1>1
  <1>. QED
    BY <1>2, EmbInvHolds, PTL DEF GapsOfTheseQueries
=============================================================================
