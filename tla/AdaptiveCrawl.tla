--------------------------- MODULE AdaptiveCrawl ---------------------------
(***************************************************************************)
(* AdaptiveCrawler.digest (component/crawl4ai/adaptive_crawler.py): crawl  *)
(* a start page, then batches of the best ranked links until the strategy  *)
(* has enough or the depth is used up, saving the state after every batch  *)
(* so that a later digest can resume from it.                              *)
(*                                                                         *)
(* This module is the loop for any strategy: which links rank first and    *)
(* whether the strategy stops are choices.  StatisticalStrategy and        *)
(* EmbeddingStrategy add the state of a strategy to these actions and      *)
(* restrict the choices; AdaptiveCrawler puts them together.               *)
(*                                                                         *)
(* Pages are their URLs, with given links and text.  Any page may fail to  *)
(* load, and the digest may end at any await by an exception or a          *)
(* cancellation, or the process die there or while it writes the file.     *)
(***************************************************************************)
EXTENDS Integers, Sequences, FiniteSets, SequencesExt, FiniteSetsExt

CONSTANTS
    Url,
    StartUrls,      \* the start pages digest is called with
    LinksOf,        \* page -> URL -> how many of its links lead there
    Term,
    TermsOf,        \* page -> the terms of its text
    max_depth,
    max_pages,
    top_k_links,
    MaxDigests      \* bound on the calls of digest

ASSUME ConfigAssumption ==
    /\ max_depth \in Nat \ {0} /\ max_pages \in Nat \ {0}
    /\ top_k_links \in Nat \ {0} /\ MaxDigests \in Nat
ASSUME PagesAssumption ==
    /\ StartUrls \subseteq Url
    /\ LinksOf \in [Url -> [Url -> Nat]]
    /\ TermsOf \in [Url -> SUBSET Term]
    /\ \A u \in Url : IsFiniteSet(TermsOf[u])

VARIABLES
    strategy, \* self.config.strategy
    state,    \* self.state: what digest itself reads and writes of it
    saved,    \* the file at state_path, as far as `state` goes
    pc,       \* where digest is
    depth,
    batch,    \* to_crawl
    digests,  \* how often digest was called
    start_url \* the start page of the digest

digestVars == <<strategy, state, saved, pc, depth, batch, digests, start_url>>

\* CrawlState.  knowledge_base holds pages, pending_links counts the links per
\* target.
NewState ==
    [crawled_urls |-> {},
     knowledge_base |-> <<>>,
     pending_links |-> [u \in Url |-> 0]]

\* The file at state_path; a torn one is left by a writer that died.
NoFile == [file |-> "none", state |-> NewState]

Init ==
    /\ strategy \in {"statistical", "embedding"}
    /\ state = NewState
    /\ saved = NoFile
    /\ pc = "idle"
    /\ depth = 0
    /\ batch = <<>>
    /\ digests = 0
    /\ start_url \in StartUrls

-----------------------------------------------------------------------------
(* Choices of the strategy *)

\* rank_links skips crawled URLs; a strategy may rank a link as often as it
\* was met, or rank fewer.
Ranked == [u \in Url |->
              IF u \in state.crawled_urls THEN 0 ELSE state.pending_links[u]]
CountIn(seq, u) == Cardinality({i \in DOMAIN seq : seq[i] = u})
Links(bag) == MapThenSumSet(LAMBDA u : bag[u], Url)

\* Mutant: > for >=.
LimitReachedLate == Cardinality(state.crawled_urls) > max_pages
LimitReached == Cardinality(state.crawled_urls) >= max_pages

\* to_crawl: the first top_k_links of a ranking, in any order of scores.
Batches ==
    {b \in SeqOf(Url, top_k_links) :
        Len(b) > 0 /\ \A u \in Url : CountIn(b, u) <= Ranked[u]}

-----------------------------------------------------------------------------
(* digest *)

\* Where digest goes on when the strategy is done with its part, or ends
\* because that raised an exception.
OnOrRaise(next) == pc' = next \/ pc' = "idle"

Begin(u, s) ==
    /\ digests < MaxDigests
    /\ pc = "idle"
    /\ digests' = digests + 1
    /\ state' = s
    /\ depth' = 0
    /\ start_url' = u
    /\ OnOrRaise(IF u \in s.crawled_urls THEN "deciding" ELSE "starting")
    /\ UNCHANGED <<strategy, saved, batch>>

\* A new state, or the saved one (a torn file raises and changes nothing).
Digest == \E u \in StartUrls : Begin(u, NewState)
Resume == saved.file = "whole" /\ \E u \in StartUrls : Begin(u, saved.state)

\* The start page is loaded: its links are added without a look at what is
\* crawled already.
StartLoaded ==
    /\ pc = "starting"
    /\ state' = [state EXCEPT
                    !.knowledge_base = Append(@, start_url),
                    !.crawled_urls = @ \cup {start_url},
                    !.pending_links =
                        [v \in Url |-> @[v] + LinksOf[start_url][v]]]
    /\ OnOrRaise("deciding")
    /\ UNCHANGED <<strategy, saved, depth, batch, digests, start_url>>

\* It fails or raises: digest goes on with what it has.
StartFailed ==
    /\ pc = "starting"
    /\ pc' = "deciding"
    /\ UNCHANGED <<strategy, state, saved, depth, batch, digests, start_url>>

\* Mutant: the loop goes on while depth <= max_depth.
SelectTooDeep(b) ==
    /\ pc = "deciding"
    /\ depth <= max_depth
    /\ ~LimitReached
    /\ batch' = b
    /\ pc' = "crawling"
    /\ UNCHANGED <<strategy, state, saved, depth, digests, start_url>>
Select(b) ==
    /\ pc = "deciding"
    /\ depth < max_depth
    /\ ~LimitReached
    /\ batch' = b
    /\ pc' = "crawling"
    /\ UNCHANGED <<strategy, state, saved, depth, digests, start_url>>

\* The loop over zip(new_results, to_crawl): the i-th page that loaded is
\* taken for the i-th link selected, whichever link it came from.  Its links
\* are appended unless they are crawled by then.
ZipCrawled(i) == state.crawled_urls \cup {batch[j] : j \in 1..i}
ZipLinks(results, v) ==
    UNION {{i} \X (1..LinksOf[results[i]][v]) :
              i \in {j \in DOMAIN results : v \notin ZipCrawled(j)}}
ZipPending(results) ==
    [v \in Url |-> state.pending_links[v] + Cardinality(ZipLinks(results, v))]

\* The elements of a sequence at some of its positions, in its order.
Picked(seq, positions) ==
    [k \in 1..Cardinality(positions) |->
        seq[CHOOSE i \in positions :
                Cardinality({j \in positions : j < i}) = k - 1]]

\* The pages of the batch that load, in the order of the batch.
Loaded(ok) == Picked(batch, ok)

\* Mutant: depth is only counted for a batch with results.
BatchDoneDepthInside(ok) ==
    /\ pc = "crawling"
    /\ state' = [state EXCEPT
                    !.knowledge_base = @ \o Loaded(ok),
                    !.crawled_urls = ZipCrawled(Cardinality(ok)),
                    !.pending_links = ZipPending(Loaded(ok))]
    /\ depth' = IF ok = {} THEN depth ELSE depth + 1
    /\ batch' = <<>>
    /\ OnOrRaise("saving")
    /\ UNCHANGED <<strategy, saved, digests, start_url>>

\* _crawl_batch is back: the pages at the positions ok of the batch loaded, in
\* the order of the batch, the others failed or raised.
BatchDone(ok) ==
    /\ pc = "crawling"
    /\ state' = [state EXCEPT
                    !.knowledge_base = @ \o Loaded(ok),
                    !.crawled_urls = ZipCrawled(Cardinality(ok)),
                    !.pending_links = ZipPending(Loaded(ok))]
    /\ depth' = depth + 1
    /\ batch' = <<>>
    /\ OnOrRaise("saving")
    /\ UNCHANGED <<strategy, saved, digests, start_url>>

\* CrawlState.save between two batches, and when digest returns.  JSON keeps
\* what CrawlState.load restores.
Save ==
    /\ pc \in {"saving", "finishing"}
    /\ saved' = [file |-> "whole", state |-> state]
    /\ pc' = IF pc = "saving" THEN "deciding" ELSE "idle"
    /\ UNCHANGED <<strategy, state, depth, batch, digests, start_url>>

Stop ==
    /\ pc = "deciding"
    /\ pc' = "finishing"
    /\ UNCHANGED <<strategy, state, saved, depth, batch, digests, start_url>>

\* The digest is cancelled, an await of it raises, or its process dies: the
\* file stays, or is torn if it was being written.
Die ==
    /\ pc # "idle"
    /\ \/ UNCHANGED saved
       \/ /\ pc \in {"saving", "finishing"}
          /\ saved' = [NoFile EXCEPT !.file = "torn"]
    /\ pc' = "idle"
    /\ batch' = <<>>
    /\ UNCHANGED <<strategy, state, depth, digests, start_url>>

Next ==
    \/ Digest \/ Resume
    \/ StartLoaded \/ StartFailed
    \/ \E b \in Batches : Select(b)
    \/ \E ok \in SUBSET DOMAIN batch : BatchDone(ok)
    \/ Save \/ Stop
    \/ Die

Spec == Init /\ [][Next]_digestVars

-----------------------------------------------------------------------------
(* Properties *)

States == {state, saved.state}

\* Each variable stays in its range.
TypeOK ==
    /\ strategy \in {"statistical", "embedding"}
    /\ \A s \in States :
          /\ s.crawled_urls \subseteq Url
          /\ s.knowledge_base \in Seq(Url)
          /\ s.pending_links \in [Url -> Nat]
    /\ saved.file \in {"none", "whole", "torn"}
    /\ pc \in {"idle", "starting", "deciding", "crawling", "saving",
              "finishing"}
    /\ depth \in 0..max_depth
    /\ batch \in Seq(Url) /\ Len(batch) <= top_k_links
    /\ digests \in 0..MaxDigests
    /\ start_url \in StartUrls

\* max_pages is looked at before a batch only, so a digest counts at most the
\* rest of one batch more; a resumed one, at most its start page more than that.
PagesBounded ==
    \A s \in States :
        Cardinality(s.crawled_urls) <= max_pages - 2 + top_k_links + digests

\* Every digest comes to an end, also when no page loads any more.
DigestEnds == pc # "idle" ~> pc = "idle"

\* rank_links: "Skip already crawled URLs".  No page that was loaded is
\* selected for a batch again.
SkipsCrawled ==
    [][\A i \in DOMAIN batch' : pc' = "crawling" =>
          batch'[i] \notin ToSet(state.knowledge_base)]_digestVars
=============================================================================
