--------------------------- MODULE MCCrawlService ---------------------------
(* CrawlService for TLC.  Requests are interchangeable, websites are, and so *)
(* are the URLs other than the root.                                         *)
EXTENDS CrawlService, TLC

ServiceSymmetry ==
    Permutations(Ids) \cup Permutations(Websites) \cup Permutations(URLs \ {Root})
=============================================================================
