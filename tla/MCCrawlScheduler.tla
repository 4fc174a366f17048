-------------------------- MODULE MCCrawlScheduler --------------------------
(* A small instance of CrawlScheduler for TLC. *)
EXTENDS CrawlScheduler

CONSTANTS p1, g1, g2, g3, t1, h1, h2
=============================================================================
