-------------------------------- MODULE MCCrawling --------------------------------
(* A small instance of the crawler: one job, crawled, failed and requested again,   *)
(* whose document two administrators upload to and review at the same time.         *)
EXTENDS Crawling, TLC

CONSTANTS j1, s1

OneSource == [j \in {j1} |-> s1]

CrawlSymmetry == Permutations(Workers) \cup Permutations(Clients)
===================================================================================
