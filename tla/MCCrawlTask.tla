---------------------------- MODULE MCCrawlTask ----------------------------
(***************************************************************************)
(* Small instances of CrawlTask for TLC.                                   *)
(***************************************************************************)
EXTENDS CrawlTask, TLC

\* Tasks and clients are interchangeable.
Interchangeable == Permutations(Task) \cup Permutations(Client)
=============================================================================
