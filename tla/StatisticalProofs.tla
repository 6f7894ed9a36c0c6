------------------------- MODULE StatisticalProofs -------------------------
(***************************************************************************)
(* TermsAgree and HistoriesAgree for every site and every batch, and that  *)
(* both strategies and the loop stay in their ranges.                      *)
(*                                                                         *)
(* TermsAgree is kept by the update for one page, because the id under     *)
(* which a page is filed is new: ids in use are below total_documents.     *)
(* update_state is that update in a loop, so a batch keeps it as well.     *)
(* What a loop does is shown of the least number of rounds after which it  *)
(* would not hold.                                                         *)
(***************************************************************************)
EXTENDS EmbeddingProofs

-----------------------------------------------------------------------------
(* Loops *)

\* update_state goes through a state per page, the last of which it leaves.
LEMMA UpdateStateLoops ==
    ASSUME NEW s, NEW results \in Seq(Url)
    PROVE  \E f : /\ f = [k \in 0..Len(results) |->
                             IF k = 0 THEN s ELSE UpdateOne(f[k - 1], results[k])]
                  /\ UpdateState(s, results) = f[Len(results)]
  <1> DEFINE n == Len(results)
             Loops(f, m) == f = [k \in 0..m |->
                                    IF k = 0 THEN s ELSE UpdateOne(f[k - 1], results[k])]
             S == {m \in 0..n : ~ \E f : Loops(f, m)}
  <1>1. n \in Nat
    OBVIOUS
  <1>2. ASSUME S # {} PROVE FALSE
    <2>1. PICK m \in S : \A k \in S : m <= k
      <3>1. S \in SUBSET Nat
        BY <1>1
      <3> HIDE DEF S
      <3>. QED
        BY <1>2, <3>1, LeastNumber
    <2>2. m \in 0..n /\ ~ \E f : Loops(f, m)
      BY <2>1
    <2>3. m # 0
      <3> DEFINE f == [k \in 0..0 |-> s]
      <3>1. Loops(f, 0)
        OBVIOUS
      <3>. QED
        BY <2>2, <3>1
    <2>4. m - 1 \in 0..n /\ m - 1 \notin S
      <3>1. m - 1 \in 0..n /\ ~(m <= m - 1)
        BY <1>1, <2>2, <2>3
      <3> HIDE DEF S
      <3>. QED
        BY <2>1, <3>1
    <2>5. PICK f : Loops(f, m - 1)
      BY <2>4
    <2> DEFINE g == [k \in 0..m |->
                        IF k = m THEN UpdateOne(f[m - 1], results[m]) ELSE f[k]]
    <2>6. \A k \in 0..m : g[k] = IF k = 0 THEN s ELSE UpdateOne(g[k - 1], results[k])
      <3> TAKE k \in 0..m
      <3>1. CASE k = 0
        BY <1>1, <2>2, <2>3, <2>5, <3>1
      <3>2. CASE k = m
        <4>1. m - 1 \in 0..m /\ g[m - 1] = f[m - 1] /\ g[m] = UpdateOne(f[m - 1], results[m])
          BY <2>2, <2>3
        <4>. QED
          BY <2>3, <3>2, <4>1
      <3>3. CASE k # 0 /\ k # m
        <4>1. k \in 0..(m - 1) /\ k - 1 \in 0..m /\ k - 1 # m
          BY <2>2, <3>3
        <4>2. f[k] = UpdateOne(f[k - 1], results[k])
          BY <2>5, <3>3, <4>1
        <4>3. g[k] = f[k] /\ g[k - 1] = f[k - 1]
          BY <3>3, <4>1
        <4>. QED
          BY <3>3, <4>2, <4>3
      <3>. QED
        BY <3>1, <3>2, <3>3
    <2>7. g = [k \in 0..m |-> g[k]]
      OBVIOUS
    <2> HIDE DEF g
    <2>8. Loops(g, m)
      BY <2>6, <2>7
    <2>. QED
      BY <2>2, <2>8
  <1>3. \E f : Loops(f, n)
    BY <1>1, <1>2
  <1> DEFINE after == CHOOSE f : Loops(f, n)
  <1>4. Loops(after, n)
    BY <1>3
  <1>5. UpdateState(s, results) = after[n]
    BY DEF UpdateState
  <1>. QED
    BY <1>4, <1>5

\* The sum of a history goes up by what is appended to it.
LEMMA TotalLoops ==
    ASSUME NEW h \in Seq(Nat)
    PROVE  \E f : /\ f = [k \in 0..Len(h) |-> IF k = 0 THEN 0 ELSE f[k - 1] + h[k]]
                  /\ Total(h) = f[Len(h)]
  <1> DEFINE n == Len(h)
             Loops(f, m) == f = [k \in 0..m |-> IF k = 0 THEN 0 ELSE f[k - 1] + h[k]]
             S == {m \in 0..n : ~ \E f : Loops(f, m)}
  <1>1. n \in Nat
    OBVIOUS
  <1>2. ASSUME S # {} PROVE FALSE
    <2>1. PICK m \in S : \A k \in S : m <= k
      <3>1. S \in SUBSET Nat
        BY <1>1
      <3> HIDE DEF S
      <3>. QED
        BY <1>2, <3>1, LeastNumber
    <2>2. m \in 0..n /\ ~ \E f : Loops(f, m)
      BY <2>1
    <2>3. m # 0
      <3> DEFINE f == [k \in 0..0 |-> 0]
      <3>1. Loops(f, 0)
        OBVIOUS
      <3>. QED
        BY <2>2, <3>1
    <2>4. m - 1 \in 0..n /\ m - 1 \notin S
      <3>1. m - 1 \in 0..n /\ ~(m <= m - 1)
        BY <1>1, <2>2, <2>3
      <3> HIDE DEF S
      <3>. QED
        BY <2>1, <3>1
    <2>5. PICK f : Loops(f, m - 1)
      BY <2>4
    <2> DEFINE g == [k \in 0..m |-> IF k = m THEN f[m - 1] + h[m] ELSE f[k]]
    <2>6. \A k \in 0..m : g[k] = IF k = 0 THEN 0 ELSE g[k - 1] + h[k]
      <3> TAKE k \in 0..m
      <3>1. CASE k = 0
        BY <1>1, <2>2, <2>3, <2>5, <3>1
      <3>2. CASE k = m
        <4>1. m - 1 \in 0..m /\ g[m - 1] = f[m - 1] /\ g[m] = f[m - 1] + h[m]
          BY <2>2, <2>3
        <4>. QED
          BY <2>3, <3>2, <4>1
      <3>3. CASE k # 0 /\ k # m
        <4>1. k \in 0..(m - 1) /\ k - 1 \in 0..m /\ k - 1 # m
          BY <2>2, <3>3
        <4>2. f[k] = f[k - 1] + h[k]
          BY <2>5, <3>3, <4>1
        <4>3. g[k] = f[k] /\ g[k - 1] = f[k - 1]
          BY <3>3, <4>1
        <4>. QED
          BY <3>3, <4>2, <4>3
      <3>. QED
        BY <3>1, <3>2, <3>3
    <2>7. g = [k \in 0..m |-> g[k]]
      OBVIOUS
    <2> HIDE DEF g
    <2>8. Loops(g, m)
      BY <2>6, <2>7
    <2>. QED
      BY <2>2, <2>8
  <1>3. \E f : Loops(f, n)
    BY <1>1, <1>2
  <1> DEFINE upto == CHOOSE f : Loops(f, n)
  <1>4. Loops(upto, n)
    BY <1>3
  <1>5. Total(h) = upto[n]
    BY DEF Total
  <1>. QED
    BY <1>4, <1>5


\* Appending to a history adds to its sum, and an empty one sums up to 0.
LEMMA TotalFacts ==
    /\ Total(<<>>) = 0
    /\ \A h \in Seq(Nat), x \in Nat : Total(Append(h, x)) = Total(h) + x
  <1>1. Total(<<>>) = 0
    <2>1. <<>> \in Seq(Nat) /\ Len(<<>>) = 0
      OBVIOUS
    <2>2. PICK f : /\ f = [k \in 0..0 |-> IF k = 0 THEN 0 ELSE f[k - 1] + <<>>[k]]
                   /\ Total(<<>>) = f[0]
      BY <2>1, TotalLoops
    <2>. QED
      BY <2>2
  <1>2. ASSUME NEW h \in Seq(Nat), NEW x \in Nat
        PROVE  Total(Append(h, x)) = Total(h) + x
    <2> DEFINE n == Len(h)
               a == Append(h, x)
    <2>1. /\ n \in Nat /\ a \in Seq(Nat) /\ Len(a) = n + 1 /\ a[n + 1] = x
          /\ \A k \in 1..n : a[k] = h[k]
      OBVIOUS
    <2>2. PICK f : /\ f = [k \in 0..n |-> IF k = 0 THEN 0 ELSE f[k - 1] + h[k]]
                   /\ Total(h) = f[n]
      BY TotalLoops
    <2>3. PICK g : /\ g = [k \in 0..(n + 1) |-> IF k = 0 THEN 0 ELSE g[k - 1] + a[k]]
                   /\ Total(a) = g[n + 1]
      <3> HIDE DEF a, n
      <3>1. PICK g : /\ g = [k \in 0..Len(a) |-> IF k = 0 THEN 0 ELSE g[k - 1] + a[k]]
                     /\ Total(a) = g[Len(a)]
        BY <2>1, TotalLoops
      <3>. QED
        BY <2>1, <3>1
    <2> HIDE DEF a, n
    <2> DEFINE S == {k \in 0..n : f[k] # g[k]}
    <2>4. ASSUME S # {} PROVE FALSE
      <3>1. PICK m \in S : \A k \in S : m <= k
        <4>1. S \in SUBSET Nat
          BY <2>1
        <4> HIDE DEF S
        <4>. QED
          BY <2>4, <4>1, LeastNumber
      <3>2. m \in 0..n /\ f[m] # g[m]
        BY <3>1
      <3>3. f[0] = 0 /\ g[0] = 0
        BY <2>1, <2>2, <2>3
      <3>4. m - 1 \in 0..n /\ m \in 1..n /\ m \in 0..(n + 1) /\ ~(m <= m - 1)
        BY <2>1, <3>2, <3>3
      <3>5. m - 1 \notin S
        <4> HIDE DEF S
        <4>. QED
          BY <3>1, <3>4
      <3>6. f[m - 1] = g[m - 1]
        BY <3>4, <3>5
      <3>7. f[m] = f[m - 1] + h[m] /\ g[m] = g[m - 1] + a[m]
        BY <2>2, <2>3, <3>2, <3>4
      <3>. QED
        BY <2>1, <3>2, <3>4, <3>6, <3>7
    <2>5. n \in 0..n /\ n + 1 \in 0..(n + 1)
      BY <2>1
    <2>6. f[n] = g[n]
      BY <2>4, <2>5
    <2>7. g[n + 1] = g[n] + a[n + 1]
      BY <2>1, <2>3, <2>5
    <2>8. Total(a) = Total(h) + x
      BY <2>1, <2>2, <2>3, <2>6, <2>7
    <2>. QED
      BY <2>8 DEF a
  <1>. QED
    BY <1>1, <1>2

-----------------------------------------------------------------------------
(* The update for one page *)

StatFields == {"term_frequencies", "document_frequencies", "documents_with_terms",
               "total_documents", "new_terms_history", "crawl_order"}

StatsType(s) ==
    /\ DOMAIN s = StatFields
    /\ s.term_frequencies \subseteq Term
    /\ s.document_frequencies \in [Term -> Nat]
    /\ s.documents_with_terms \in [Term -> SUBSET Nat]
    /\ s.total_documents \in Nat /\ s.new_terms_history \in Seq(Nat)
    /\ s.crawl_order \in Seq(Url)

\* What TermsAgree says of a term, and of the history.  That there are finitely
\* many terms known is what makes counting the new ones sound.
TermAgrees(s, t) ==
    /\ s.document_frequencies[t] = Cardinality(s.documents_with_terms[t])
    /\ s.documents_with_terms[t] \subseteq 0..(s.total_documents - 1)
    /\ t \in s.term_frequencies <=> s.document_frequencies[t] > 0

Agrees(s) ==
    /\ \A t \in Term : TermAgrees(s, t)
    /\ IsFiniteSet(s.term_frequencies)
    /\ Total(s.new_terms_history) = Cardinality(s.term_frequencies)

\* What HistoriesAgree says of the lengths.
OneEach(s) ==
    /\ s.total_documents = Len(s.crawl_order)
    /\ Len(s.new_terms_history) = s.total_documents

StatsOK(s) == StatsType(s) /\ Agrees(s) /\ OneEach(s)

\* The fields after the update for a page.
LEMMA UpdateOneFields ==
    ASSUME NEW s, StatsType(s), NEW u \in Url
    PROVE  LET r == UpdateOne(s, u) IN
           /\ DOMAIN r = StatFields
           /\ r.term_frequencies = s.term_frequencies \cup TermsOf[u]
           /\ r.document_frequencies =
                 [t \in Term |-> IF t \in TermsOf[u] THEN s.document_frequencies[t] + 1
                                 ELSE s.document_frequencies[t]]
           /\ r.documents_with_terms =
                 [t \in Term |-> IF t \in TermsOf[u]
                                 THEN s.documents_with_terms[t] \cup {s.total_documents}
                                 ELSE s.documents_with_terms[t]]
           /\ r.new_terms_history =
                 Append(s.new_terms_history, Cardinality(TermsOf[u] \ s.term_frequencies))
           /\ r.total_documents = s.total_documents + 1
           /\ r.crawl_order = Append(s.crawl_order, u)
  BY DEF UpdateOne, StatsType, StatFields

\* A page is filed under an id that is new, so the frequencies and the sets of
\* ids go up together, and what it adds to the history are the new terms.
LEMMA UpdateOneOK ==
    ASSUME NEW s, StatsOK(s), NEW u \in Url
    PROVE  /\ StatsOK(UpdateOne(s, u))
           /\ UpdateOne(s, u).crawl_order = Append(s.crawl_order, u)
  <1> DEFINE r == UpdateOne(s, u)
             terms == TermsOf[u]
             new == terms \ s.term_frequencies
             d == s.total_documents
  <1>1. /\ DOMAIN r = StatFields
        /\ r.term_frequencies = s.term_frequencies \cup terms
        /\ r.document_frequencies =
              [t \in Term |-> IF t \in terms THEN s.document_frequencies[t] + 1
                              ELSE s.document_frequencies[t]]
        /\ r.documents_with_terms =
              [t \in Term |-> IF t \in terms THEN s.documents_with_terms[t] \cup {d}
                              ELSE s.documents_with_terms[t]]
        /\ r.new_terms_history = Append(s.new_terms_history, Cardinality(new))
        /\ r.total_documents = d + 1
        /\ r.crawl_order = Append(s.crawl_order, u)
    BY UpdateOneFields DEF StatsOK
  <1>2. terms \in SUBSET Term /\ IsFiniteSet(terms)
    BY PagesAssumption
  <1>3. /\ s.term_frequencies \subseteq Term
        /\ s.document_frequencies \in [Term -> Nat]
        /\ s.documents_with_terms \in [Term -> SUBSET Nat]
        /\ d \in Nat /\ s.new_terms_history \in Seq(Nat) /\ s.crawl_order \in Seq(Url)
    BY DEF StatsOK, StatsType
  <1>4. /\ \A t \in Term : TermAgrees(s, t)
        /\ IsFiniteSet(s.term_frequencies)
        /\ Total(s.new_terms_history) = Cardinality(s.term_frequencies)
        /\ d = Len(s.crawl_order) /\ Len(s.new_terms_history) = d
    BY DEF StatsOK, Agrees, OneEach
  <1>5. IsFiniteSet(new) /\ Cardinality(new) \in Nat
    <2>1. new \in SUBSET terms
      OBVIOUS
    <2> HIDE DEF new, terms
    <2>. QED
      BY <1>2, <2>1, FS_Subset, FS_CardinalityType
  <1> HIDE DEF r, terms, d
  <1>6. StatsType(r)
    <2>1. r.document_frequencies \in [Term -> Nat]
      BY <1>1, <1>3
    <2>2. r.documents_with_terms \in [Term -> SUBSET Nat]
      BY <1>1, <1>3
    <2>3. /\ r.term_frequencies \subseteq Term /\ r.total_documents \in Nat
          /\ r.crawl_order \in Seq(Url)
      BY <1>1, <1>2, <1>3
    <2>4. r.new_terms_history \in Seq(Nat)
      BY <1>1, <1>3, <1>5
    <2>. QED
      BY <1>1, <2>1, <2>2, <2>3, <2>4 DEF StatsType
  <1>7. ASSUME NEW t \in Term PROVE TermAgrees(r, t)
    <2> DEFINE ids == s.documents_with_terms[t]
    <2>1. /\ s.document_frequencies[t] = Cardinality(ids) /\ ids \subseteq 0..(d - 1)
          /\ (t \in s.term_frequencies <=> s.document_frequencies[t] > 0)
          /\ s.document_frequencies[t] \in Nat
      BY <1>3, <1>4 DEF TermAgrees, d
    <2> HIDE DEF ids
    <2>2. d \notin ids
      BY <1>3, <2>1
    <2>3. IsFiniteSet(ids)
      <3> DEFINE last == d - 1
      <3>1. last \in Int
        BY <1>3
      <3> HIDE DEF last
      <3>2. IsFiniteSet(0..last)
        BY <3>1, FS_Interval
      <3>3. ids \subseteq 0..last
        BY <2>1 DEF last
      <3>. QED
        BY <3>2, <3>3, FS_Subset
    <2>4. Cardinality(ids \cup {d}) = Cardinality(ids) + 1
      BY <2>2, <2>3, FS_AddElement
    <2>5. CASE t \in terms
      <3>1. /\ r.document_frequencies[t] = s.document_frequencies[t] + 1
            /\ r.documents_with_terms[t] = ids \cup {d} /\ t \in r.term_frequencies
        BY <1>1, <2>5 DEF ids
      <3>2. r.documents_with_terms[t] \subseteq 0..(r.total_documents - 1)
        BY <1>1, <1>3, <2>1, <3>1
      <3>. QED
        BY <2>1, <2>4, <3>1, <3>2 DEF TermAgrees
    <2>6. CASE t \notin terms
      <3>1. /\ r.document_frequencies[t] = s.document_frequencies[t]
            /\ r.documents_with_terms[t] = ids
            /\ (t \in r.term_frequencies <=> t \in s.term_frequencies)
        BY <1>1, <2>6 DEF ids
      <3>2. r.documents_with_terms[t] \subseteq 0..(r.total_documents - 1)
        BY <1>1, <1>3, <2>1, <3>1
      <3>. QED
        BY <2>1, <3>1, <3>2 DEF TermAgrees
    <2>. QED
      BY <2>5, <2>6
  <1>8. /\ IsFiniteSet(r.term_frequencies)
        /\ Total(r.new_terms_history) = Cardinality(r.term_frequencies)
    <2> DEFINE old == s.term_frequencies
    <2>1. r.term_frequencies = old \cup new /\ old \cap new = {}
      BY <1>1
    <2>2. IsFiniteSet(old) /\ Cardinality(old) \in Nat
      BY <1>4, FS_CardinalityType
    <2> HIDE DEF new, old
    <2>3. IsFiniteSet(old \cup new)
      BY <1>5, <2>2, FS_Union
    <2>4. Cardinality(old \cup new) = Cardinality(old) + Cardinality(new) - Cardinality(old \cap new)
      BY <1>5, <2>2, FS_Union
    <2>5. Cardinality(old \cap new) = 0
      BY <2>1, FS_EmptySet
    <2>6. Cardinality(old \cup new) = Cardinality(old) + Cardinality(new)
      BY <1>5, <2>2, <2>4, <2>5
    <2>7. Total(r.new_terms_history) = Total(s.new_terms_history) + Cardinality(new)
      BY <1>1, <1>3, <1>5, TotalFacts
    <2>. QED
      BY <1>4, <2>1, <2>3, <2>6, <2>7 DEF old
  <1>9. OneEach(r)
    BY <1>1, <1>3, <1>4, <1>5 DEF OneEach
  <1>. QED
    BY <1>1, <1>6, <1>7, <1>8, <1>9 DEF StatsOK, Agrees, r


-----------------------------------------------------------------------------
(* update_state for the pages of a batch *)

\* After a sequence of pages come the first k of another.
Extends(t, s, results, k) ==
    /\ Len(t) = Len(s) + k
    /\ \A i \in 1..(Len(s) + k) :
          t[i] = IF i <= Len(s) THEN s[i] ELSE results[i - Len(s)]

\* Every round of the loop keeps the statistics right and appends its page.
LEMMA UpdateStateOK ==
    ASSUME NEW s, StatsOK(s), NEW results \in Seq(Url)
    PROVE  /\ StatsOK(UpdateState(s, results))
           /\ UpdateState(s, results).crawl_order = s.crawl_order \o results
  <1> DEFINE n == Len(results)
             Right(r, k) == StatsOK(r) /\ Extends(r.crawl_order, s.crawl_order, results, k)
  <1>1. PICK f : /\ f = [k \in 0..n |->
                            IF k = 0 THEN s ELSE UpdateOne(f[k - 1], results[k])]
                 /\ UpdateState(s, results) = f[n]
    BY UpdateStateLoops
  <1>2. /\ n \in Nat /\ s.crawl_order \in Seq(Url) /\ Len(s.crawl_order) \in Nat
        /\ \A k \in 1..n : results[k] \in Url
    BY DEF StatsOK, StatsType
  <1> HIDE DEF n
  <1>3. Right(f[0], 0)
    <2>1. f[0] = s
      BY <1>1, <1>2
    <2>. QED
      BY <1>2, <2>1 DEF Extends
  <1>4. ASSUME NEW k \in 1..n, Right(f[k - 1], k - 1) PROVE Right(f[k], k)
    <2>1. f[k] = UpdateOne(f[k - 1], results[k])
      BY <1>1, <1>2
    <2>2. /\ StatsOK(f[k])
          /\ f[k].crawl_order = Append(f[k - 1].crawl_order, results[k])
      BY <1>2, <1>4, <2>1, UpdateOneOK
    <2>3. f[k - 1].crawl_order \in Seq(Url)
      BY <1>4 DEF StatsOK, StatsType
    <2> DEFINE t == f[k - 1].crawl_order
               m == Len(s.crawl_order)
    <2>4. /\ t \in Seq(Url) /\ Len(t) = m + (k - 1) /\ m \in Nat
          /\ \A i \in 1..(m + (k - 1)) :
                t[i] = IF i <= m THEN s.crawl_order[i] ELSE results[i - m]
      BY <1>2, <1>4, <2>3 DEF Extends
    <2> HIDE DEF t, m
    <2>5. /\ Len(Append(t, results[k])) = m + k
          /\ \A i \in 1..(m + k) :
                Append(t, results[k])[i] =
                    IF i <= m THEN s.crawl_order[i] ELSE results[i - m]
      <3> DEFINE x == results[k]
      <3>1. x \in Url /\ m \in Nat /\ k \in Nat /\ n \in Nat /\ k >= 1
        BY <1>2, <2>4
      <3> HIDE DEF x
      <3>2. /\ Len(Append(t, x)) = Len(t) + 1
            /\ \A i \in 1..Len(t) : Append(t, x)[i] = t[i]
            /\ Append(t, x)[Len(t) + 1] = x
        BY <2>4, <3>1
      <3>3. Len(Append(t, x)) = m + k /\ Append(t, x)[m + k] = x
        BY <2>4, <3>1, <3>2
      <3>4. ASSUME NEW i \in 1..(m + k)
            PROVE  Append(t, x)[i] =
                       IF i <= m THEN s.crawl_order[i] ELSE results[i - m]
        <4>1. CASE i \in 1..(m + (k - 1))
          BY <2>4, <3>1, <3>2, <4>1
        <4>2. CASE i = m + k
          BY <3>1, <3>3, <4>2 DEF x
        <4>3. i \in 1..(m + (k - 1)) \/ i = m + k
          BY <3>1
        <4>. QED
          BY <4>1, <4>2, <4>3
      <3>. QED
        BY <3>3, <3>4 DEF x
    <2>. QED
      BY <2>2, <2>5 DEF Extends, t, m
  <1> HIDE DEF Right
  <1> DEFINE S == {k \in 0..n : ~Right(f[k], k)}
  <1>5. ASSUME S # {} PROVE FALSE
    <2>1. PICK m \in S : \A k \in S : m <= k
      <3>1. S \in SUBSET Nat
        BY <1>2
      <3> HIDE DEF S
      <3>. QED
        BY <1>5, <3>1, LeastNumber
    <2>2. m \in 0..n /\ ~Right(f[m], m)
      BY <2>1
    <2>3. m \in 1..n /\ m - 1 \in 0..n /\ ~(m <= m - 1)
      BY <1>2, <1>3, <2>2
    <2>4. m - 1 \notin S
      <3> HIDE DEF S
      <3>. QED
        BY <2>1, <2>3
    <2>5. Right(f[m - 1], m - 1)
      BY <2>3, <2>4
    <2>. QED
      BY <1>4, <2>2, <2>3, <2>5
  <1>6. Right(f[n], n)
    <2>1. n \in 0..n
      BY <1>2
    <2>. QED
      BY <1>5, <2>1
  <1>7. f[n].crawl_order = s.crawl_order \o results
    <2>1. f[n].crawl_order \in Seq(Url)
      BY <1>6 DEF Right, StatsOK, StatsType
    <2> DEFINE t == f[n].crawl_order
               o == s.crawl_order
    <2>2. /\ t \in Seq(Url) /\ o \in Seq(Url) /\ Len(t) = Len(o) + n /\ Len(o) \in Nat
          /\ \A i \in 1..(Len(o) + n) :
                t[i] = IF i <= Len(o) THEN o[i] ELSE results[i - Len(o)]
      BY <1>2, <1>6, <2>1 DEF Right, Extends
    <2> HIDE DEF t, o
    <2>3. t = [i \in 1..(Len(o) + n) |-> t[i]]
      BY <2>2
    <2>4. /\ o \o results = [i \in 1..(Len(o) + n) |-> (o \o results)[i]]
          /\ \A i \in 1..(Len(o) + n) :
                (o \o results)[i] = IF i <= Len(o) THEN o[i] ELSE results[i - Len(o)]
      BY <2>2, ConcatFacts DEF n
    <2>5. t = o \o results
      BY <2>2, <2>3, <2>4
    <2>. QED
      BY <2>5 DEF t, o
  <1>. QED
    BY <1>1, <1>6, <1>7 DEF Right

-----------------------------------------------------------------------------
(* Every step of a crawler *)

\* The statistics are right, and those of the knowledge base they belong to.
OfPages(s, p) == p.crawl_order = s.knowledge_base

StatInv ==
    /\ StatsOK(stats) /\ StatsOK(saved_stats)
    /\ strategy = "statistical" =>
          OfPages(state, stats) /\ OfPages(saved.state, saved_stats)

\* A new digest knows nothing.
LEMMA NewStatsOK == StatsOK(NewStats) /\ OfPages(NewState, NewStats)
  <1>1. StatsType(NewStats)
    BY DEF NewStats, StatsType, StatFields
  <1>2. \A t \in Term : TermAgrees(NewStats, t)
    BY FS_EmptySet DEF NewStats, TermAgrees
  <1>3. /\ NewStats.term_frequencies = {} /\ NewStats.new_terms_history = <<>>
        /\ NewStats.crawl_order = <<>> /\ NewStats.total_documents = 0
        /\ NewState.knowledge_base = <<>>
    BY DEF NewStats, NewState
  <1>4. Agrees(NewStats)
    BY <1>2, <1>3, TotalFacts, FS_EmptySet DEF Agrees
  <1>5. OneEach(NewStats)
    BY <1>3 DEF OneEach
  <1>. QED
    BY <1>1, <1>3, <1>4, <1>5 DEF StatsOK, OfPages

\* Nothing is crawled or saved yet.
LEMMA StatInvInit == CrawlerInit => StatInv
  <1> SUFFICES ASSUME CrawlerInit PROVE StatInv
    OBVIOUS
  <1>1. /\ stats = NewStats /\ saved_stats = NewStats
        /\ state = NewState /\ saved.state = NewState
    BY DEF CrawlerInit, Init, StatInit, NoFile
  <1>. QED
    BY <1>1, NewStatsOK DEF StatInv

\* A crawler with the other strategy leaves the statistics.
LEMMA EmbeddingStatInv == StatInv /\ LoopType /\ Embedding(EmbNext) => StatInv'
  <1> SUFFICES ASSUME StatInv, LoopType, Embedding(EmbNext) PROVE StatInv'
    OBVIOUS
  <1>1. strategy = "embedding" /\ UNCHANGED statVars /\ strategy' \in {strategy}
    <2>1. Next
      BY EmbStepIsStep DEF Embedding
    <2>. QED
      BY <2>1 DEF Embedding, Next, Digest, Resume, Begin, StartLoaded, StartFailed,
                  Select, BatchDone, Save, Stop, Die
  <1>. QED
    BY <1>1 DEF StatInv, statVars

\* Every step of a crawler preserves the invariant.
LEMMA StatInvNext == LoopType /\ StatInv /\ [CrawlerNext]_crawlerVars => StatInv'
  <1> SUFFICES ASSUME LoopType, StatInv, [CrawlerNext]_crawlerVars PROVE StatInv'
    OBVIOUS
  <1>0. /\ state.knowledge_base \in Seq(Url) /\ batch \in Seq(Url) /\ start_url \in Url
        /\ IsState(state)
        /\ (saved.file = "torn" => saved.state = NewState)
    BY PagesAssumption DEF LoopType, TypeOK, States
  <1>1. /\ StatsOK(stats) /\ StatsOK(saved_stats)
        /\ (strategy = "statistical" =>
               OfPages(state, stats) /\ OfPages(saved.state, saved_stats))
    BY DEF StatInv
  <1>2. ASSUME strategy = "statistical", StatDigest PROVE StatInv'
    <2>1. /\ UNCHANGED <<strategy, saved, saved_stats>>
          /\ state' = NewState /\ stats' = NewStats
      BY <1>2 DEF StatDigest, Digest, Begin
    <2>. QED
      BY <1>1, <2>1, NewStatsOK DEF StatInv, OfPages
  <1>3. ASSUME strategy = "statistical", StatResume PROVE StatInv'
    <2>1. /\ UNCHANGED <<strategy, saved, saved_stats>>
          /\ state' = saved.state /\ stats' = saved_stats
      BY <1>3 DEF StatResume, Resume, Begin
    <2>. QED
      BY <1>1, <1>3, <2>1 DEF StatInv, OfPages
  <1>4. ASSUME strategy = "statistical", StatStart PROVE StatInv'
    <2>1. CASE StartLoaded /\ stats' = UpdateOne(stats, start_url) /\ UNCHANGED saved_stats
      <3>1. /\ state'.knowledge_base = Append(state.knowledge_base, start_url)
            /\ UNCHANGED <<strategy, saved>>
        BY <1>0, <2>1 DEF StartLoaded, IsState
      <3>2. StatsOK(stats') /\ stats'.crawl_order = Append(stats.crawl_order, start_url)
        BY <1>0, <1>1, <2>1, UpdateOneOK
      <3>. QED
        BY <1>1, <1>4, <2>1, <3>1, <3>2 DEF StatInv, OfPages
    <2>2. CASE StartFailed /\ UNCHANGED statVars
      BY <1>1, <2>2 DEF StartFailed, statVars, StatInv, OfPages
    <2>. QED
      BY <1>4, <2>1, <2>2 DEF StatStart
  <1>5. ASSUME NEW b, StatSelect(b) PROVE StatInv'
    BY <1>1, <1>5 DEF StatSelect, Select, statVars, StatInv, OfPages
  <1>6. ASSUME strategy = "statistical", NEW ok \in SUBSET DOMAIN batch, StatBatch(ok)
        PROVE  StatInv'
    <2>1. Loaded(ok) \in Seq(Url)
      BY <1>0, PickedFacts DEF Loaded
    <2>2. /\ state'.knowledge_base = state.knowledge_base \o Loaded(ok)
          /\ UNCHANGED <<strategy, saved, saved_stats>>
          /\ stats' = UpdateState(stats, Loaded(ok))
      BY <1>0, <1>6 DEF StatBatch, BatchDone, IsState
    <2>3. StatsOK(stats') /\ stats'.crawl_order = stats.crawl_order \o Loaded(ok)
      BY <1>1, <2>1, <2>2, UpdateStateOK
    <2>. QED
      BY <1>1, <1>6, <2>2, <2>3 DEF StatInv, OfPages
  <1>7. ASSUME StatSave PROVE StatInv'
    <2>1. /\ UNCHANGED <<strategy, state, stats>>
          /\ saved'.state = state /\ saved_stats' = stats
      BY <1>7 DEF StatSave, Save
    <2>. QED
      BY <1>1, <2>1 DEF StatInv, OfPages
  <1>8. ASSUME StatStop PROVE StatInv'
    BY <1>1, <1>8 DEF StatStop, Stop, statVars, StatInv, OfPages
  <1>9. ASSUME StatDie PROVE StatInv'
    <2>1. /\ UNCHANGED <<strategy, state, stats>>
          /\ saved' = saved \/ (saved'.file = "torn" /\ saved'.state = NewState)
          /\ saved_stats' = IF saved'.file = "torn" THEN NewStats ELSE saved_stats
      BY <1>9 DEF StatDie, Die, NoFile
    <2>. QED
      BY <1>0, <1>1, <2>1, NewStatsOK DEF StatInv, OfPages
  <1>10. CASE Statistical(StatNext)
    BY <1>2, <1>3, <1>4, <1>5, <1>6, <1>7, <1>8, <1>9, <1>10
    DEF Statistical, StatNext, StatDigestStep
  <1>11. CASE UNCHANGED crawlerVars
    BY <1>1, <1>11 DEF crawlerVars, digestVars, statVars, StatInv, OfPages
  <1>. QED
    BY <1>10, <1>11, EmbeddingStatInv DEF CrawlerNext

\* It holds in every state.
LEMMA StatInvHolds == CrawlerSpec => []StatInv
  BY StatInvInit, StatInvNext, LoopTypeCorrect, PTL DEF CrawlerSpec

\* Over batches with failures, empty pages and resumed digests, document
\* frequencies, the documents filed under the terms and the history of new
\* terms agree (update_state).
THEOREM TermsKept == CrawlerSpec => []TermsAgree
  <1>1. ASSUME StatInv PROVE TermsAgree
    BY <1>1 DEF StatInv, StatsOK, Agrees, TermAgrees, TermsAgree, Stats
  <1>. QED
    BY <1>1, StatInvHolds, PTL

\* In memory and in the file, the statistics are those of the pages they are
\* kept with (update_state, CrawlState.save and load).
THEOREM HistoriesKept == CrawlerSpec => []HistoriesAgree
  <1>1. ASSUME StatInv PROVE HistoriesAgree
    BY <1>1 DEF StatInv, StatsOK, OneEach, OfPages, HistoriesAgree
  <1>. QED
    BY <1>1, StatInvHolds, PTL

\* The digest and both strategies stay in their ranges, for every site, query
\* space and configuration.
THEOREM CrawlerTypeCorrect == CrawlerSpec => []CrawlerTypeOK
  <1>1. ASSUME StatInv PROVE StatTypeOK
    BY <1>1 DEF StatInv, StatsOK, StatsType, StatTypeOK, Stats
  <1>2. LoopType => TypeOK
    BY DEF LoopType
  <1>. QED
    BY <1>1, <1>2, EmbInvType, LoopTypeCorrect, EmbInvHolds, StatInvHolds, PTL
    DEF CrawlerTypeOK
=============================================================================
