--------------------------- MODULE CrawlLifecycle ---------------------------
(***************************************************************************)
(* What the API promises about the crawls to those who read them, however  *)
(* requests, runs, failures and restarts interleave behind it: the states  *)
(* of internal/models/crawl.go in their order, and the pages of a crawl    *)
(* all at once while it is running.  CrawlService implements this module;  *)
(* Api reads the crawls of any system that does.                           *)
(***************************************************************************)
CONSTANTS
    Ids,          \* crawls.id
    URLs          \* the pages a website may list

VARIABLES
    status,       \* the status of each crawl, "none" before there is one
    listing       \* the pages of each crawl

crawlVars == <<status, listing>>

Open == {"pending", "running"}
Terminal == {"completed", "failed"}   \* CrawlStatus.IsTerminal
Stored == Open \cup Terminal

LifecycleTypeOK ==
    /\ status \in [Ids -> Stored \cup {"none", "gone"}]
    /\ listing \in [Ids -> SUBSET URLs]

LifecycleInit ==
    /\ status = [i \in Ids |-> "none"]
    /\ listing = [i \in Ids |-> {}]

Becomes(i, s) == status' = [status EXCEPT ![i] = s]

\* Only a request that was not answered with a crawl yet creates one ...
Create(i) ==
    /\ status[i] = "none"
    /\ Becomes(i, "pending")
    /\ UNCHANGED listing

\* ... and the ids of those that will not are never used.
Discard(S) ==
    /\ \A i \in S : status[i] = "none"
    /\ status' = [i \in Ids |-> IF i \in S THEN "gone" ELSE status[i]]
    /\ UNCHANGED listing

Start(i) ==
    /\ status[i] = "pending"
    /\ Becomes(i, "running")
    /\ UNCHANGED listing

\* The pages of a crawl appear together, once, before its final status.
Publish(i) ==
    /\ status[i] = "running"
    /\ listing[i] = {}
    /\ \E S \in SUBSET URLs : listing' = [listing EXCEPT ![i] = S]
    /\ UNCHANGED status

\* A crawl that never started can only fail.
Finish(i) ==
    /\ \/ status[i] = "pending" /\ Becomes(i, "failed")
       \/ status[i] = "running" /\ \E s \in Terminal : Becomes(i, s)
    /\ UNCHANGED listing

\* A deleted crawl takes its pages with it, and stays deleted.
Delete(i) ==
    /\ status[i] \in Stored
    /\ Becomes(i, "gone")
    /\ listing' = [listing EXCEPT ![i] = {}]

LifecycleNext ==
    \/ \E i \in Ids : Create(i) \/ Start(i) \/ Publish(i) \/ Finish(i) \/ Delete(i)
    \/ \E S \in SUBSET Ids : Discard(S)

LifecycleSpec == LifecycleInit /\ [][LifecycleNext]_crawlVars
=============================================================================
