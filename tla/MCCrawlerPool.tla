--------------------------- MODULE MCCrawlerPool ---------------------------
(***************************************************************************)
(* Small instances of CrawlerPool for TLC.                                 *)
(***************************************************************************)
EXTENDS CrawlerPool, TLC

\* Tasks and crawler objects are interchangeable.
Interchangeable == Permutations(Task) \cup Permutations(Crawler)
=============================================================================
