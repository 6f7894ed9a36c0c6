------------------------- MODULE MCAdaptiveCrawler -------------------------
(***************************************************************************)
(* Small instances of AdaptiveCrawler for TLC.                             *)
(***************************************************************************)
EXTENDS AdaptiveCrawler, TLC

\* A site of four pages: "a" leads to "b", twice to "c", and to "d"; "b" has
\* no text, "c" leads back, "d" leads nowhere and has the text of "a".
SmallUrl == {"a", "b", "c", "d"}
Leads(links) == [v \in SmallUrl |-> IF v \in DOMAIN links THEN links[v] ELSE 0]
SmallLinks ==
    [u \in SmallUrl |-> CASE u = "a" -> Leads([b |-> 1, c |-> 2, d |-> 1])
                          [] u = "b" -> Leads([c |-> 1])
                          [] u = "c" -> Leads([a |-> 1, d |-> 1])
                          [] u = "d" -> Leads(<<>>)]
SmallTerms ==
    [u \in SmallUrl |-> CASE u = "b" -> {} [] u = "c" -> {"x", "y"}
                          [] OTHER -> {"x"}]
=============================================================================
