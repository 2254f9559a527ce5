--------------------------- MODULE MCCrawlSchedules ---------------------------
(***************************************************************************)
(* All constants are numbers, which the cfgs give.                         *)
(***************************************************************************)
EXTENDS CrawlSchedules
=============================================================================
