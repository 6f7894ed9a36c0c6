-------------------------- MODULE AdaptiveCrawler --------------------------
(***************************************************************************)
(* An AdaptiveCrawler of component/crawl4ai/adaptive_crawler.py: digest    *)
(* with the strategy its configuration names.                              *)
(***************************************************************************)
EXTENDS StatisticalStrategy, EmbeddingStrategy

crawlerVars == <<digestVars, statVars, embVars>>

CrawlerInit == Init /\ StatInit /\ EmbInit

Statistical(A) == strategy = "statistical" /\ A /\ UNCHANGED embVars
Embedding(A) == strategy = "embedding" /\ A /\ UNCHANGED statVars

DigestStep ==
    \/ Statistical(StatDigestStep)
    \/ Embedding(EmbDigestStep)

CrawlerNext ==
    \/ Statistical(StatNext)
    \/ Embedding(EmbNext)

CrawlerSpec == CrawlerInit /\ [][CrawlerNext]_crawlerVars

\* The awaits of a digest come back: every page load and every call of the
\* embedding service has a timeout.
FairSpec == CrawlerSpec /\ WF_crawlerVars(DigestStep)

-----------------------------------------------------------------------------
(* Properties *)

\* Each variable of the digest and of both strategies stays in its range.
CrawlerTypeOK == TypeOK /\ StatTypeOK /\ EmbTypeOK
=============================================================================
