---------------------------- MODULE MCCrawlSystem ----------------------------
(***************************************************************************)
(* A crawl of one or two submitted URLs, the hooks of the first of which   *)
(* discover a third, or none.                                              *)
(***************************************************************************)
EXTENDS CrawlSystem
CONSTANTS crawl, a, b, k
MCOneRoot  == {a}
MCTwoRoots == {a, b}
MCNoKids   == [s \in {} |-> {}]
MCKids     == [s \in {a} |-> {k}]
=============================================================================
