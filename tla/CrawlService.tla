---------------------------- MODULE CrawlService ----------------------------
(***************************************************************************)
(* internal/service/crawl_service.go over the tables of CrawlStore: the    *)
(* POST /crawls requests, which share the inflight map under inflightMu,   *)
(* and the background goroutine (runCrawl) each created crawl gets.        *)
(*                                                                         *)
(* Request i asks to crawl site[i], already normalised; the row, if it     *)
(* creates one, is row i and its goroutine is run i.  Discovery and the    *)
(* worker pool are each one step here; their own modules look inside.      *)
(***************************************************************************)
EXTENDS CrawlStore

CONSTANTS
    Websites,     \* normalised websites, the keys of inflight
    Root,         \* the page crawled when no sitemap lists any
    MaxPages,     \* cfg.MaxPagesPerCrawl, 0 for no limit
    CanRestart,   \* can the process stop and start again?
    None

ASSUME ServiceAssumption ==
    /\ Root \in URLs
    /\ MaxPages \in Nat
    /\ CanRestart \in BOOLEAN
    /\ None \notin Ids

VARIABLES
    inflight,     \* website -> id of the crawl in flight, None for no entry
    mutex,        \* the request that holds inflightMu across a statement
    site,         \* the website each request asks for
    req,          \* where each request is
    existing,     \* the id a request read from inflight
    reply,        \* what each request was answered
    run,          \* where each background goroutine is
    urls,         \* the URLs a run hands to the workers
    results,      \* what the workers reported, as rows for the table pages
    expired       \* the runs whose 60s deadline of persistAndFinalize passed

shared == <<inflight, mutex>>
requests == <<req, existing, reply>>
locals == <<urls, results, expired>>
vars == <<crawls, pages, inflight, mutex, site, req, existing, reply,
          run, urls, results, expired>>

NoReply == [code |-> 0, crawl |-> None, status |-> "absent"]
InCriticalSection == {"creating", "registering"}
NotRunning == {"none", "done", "killed"}
Active(i) == run[i] \notin NotRunning

TypeOK ==
    /\ StoreTypeOK
    /\ inflight \in [Websites -> Ids \cup {None}]
    /\ mutex \in Ids \cup {None}
    /\ site \in [Ids -> Websites]
    /\ req \in [Ids -> {"new", "lookup", "replied", "aborted"} \cup InCriticalSection]
    /\ existing \in [Ids -> Ids \cup {None}]
    /\ reply \in [Ids -> [code : {0, 201, 202, 500}, crawl : Ids \cup {None},
                          status : Open \cup Terminal \cup {"absent"}]]
    /\ run \in [Ids -> NotRunning \cup {"markRunning", "discover", "dispatch",
                         "bulkInsert", "complete", "markFailed", "release"}]
    /\ urls \in [Ids -> SUBSET URLs]
    /\ results \in [Ids -> SUBSET Page]
    /\ expired \subseteq Ids

Init ==
    /\ StoreInit
    /\ inflight = [w \in Websites |-> None]
    /\ mutex = None
    /\ site \in [Ids -> Websites]
    /\ req = [i \in Ids |-> "new"]
    /\ existing = [i \in Ids |-> None]
    /\ reply = [i \in Ids |-> NoReply]
    /\ run = [i \in Ids |-> "none"]
    /\ urls = [i \in Ids |-> {}]
    /\ results = [i \in Ids |-> {}]
    /\ expired = {}

-----------------------------------------------------------------------------

\* The handler writes the response of request i.
Answer(i, code, crawl, status) ==
    /\ reply' = [reply EXCEPT ![i] = [code |-> code, crawl |-> crawl, status |-> status]]
    /\ req' = [req EXCEPT ![i] = "replied"]

Goto(i, step) == run' = [run EXCEPT ![i] = step]

(* Faulty variants, used only to show that the properties can fail: each is  *)
(* a plausible slip in crawl_service.go, and no specification uses it.       *)

\* check, unlock, create: the lock is not held across the statement
LockToCreateReleased(i) ==
    /\ req[i] = "new"
    /\ mutex = None
    /\ inflight[site[i]] = None
    /\ req' = [req EXCEPT ![i] = "creating"]
    /\ UNCHANGED <<store, shared, site, existing, reply, run, locals>>

\* the inflight map consulted without the website as its key
JoinAnyInflight(i) ==
    /\ req[i] = "new"
    /\ mutex = None
    /\ \E w \in Websites :
          /\ inflight[w] # None
          /\ existing' = [existing EXCEPT ![i] = inflight[w]]
    /\ req' = [req EXCEPT ![i] = "lookup"]
    /\ UNCHANGED <<store, shared, site, reply, run, locals>>

\* no Unlock on the error path
CreateFailsLocked(i) ==
    /\ req[i] = "creating"
    /\ \E o \in Undated \ {"ok"} : InsertCrawl(i, o)
    /\ Answer(i, 500, None, "absent")
    /\ UNCHANGED <<shared, site, existing, run, locals>>

\* return without markFailed
MarkRunningOrGiveUp(i) ==
    /\ run[i] = "markRunning"
    /\ \E o \in Undated :
          /\ UpdateStatus(i, "running", o)
          /\ Goto(i, IF Updates(i, o) THEN "discover" ELSE "release")
    /\ UNCHANGED <<shared, site, requests, locals>>

DiscoverFailsSilently(i) ==
    /\ run[i] = "discover"
    /\ Goto(i, "release")
    /\ UNCHANGED <<store, shared, site, requests, locals>>

\* a mixed crawl failed, or given a status of its own
FinalStatusStrict(rows) ==
    IF \E p \in rows : p.kind \notin {"ok", "okUnstorable"} THEN "failed" ELSE "completed"
FinalStatusPartial(rows) ==
    IF \E p \in rows : p.kind \notin {"ok", "okUnstorable"} THEN "partial" ELSE "completed"

\* markFailed without the return that follows it
MarkFailedAndGoOn(i) ==
    /\ run[i] = "markFailed"
    /\ \E o \in Undated : CompleteCrawl(i, "failed", 0, 0, 0, o)
    /\ Goto(i, "discover")
    /\ UNCHANGED <<shared, site, requests, locals>>

\* the inflight entry deleted at the end of runCrawl, not in a defer
MarkFailedAndLeave(i) ==
    /\ run[i] = "markFailed"
    /\ \E o \in Undated : CompleteCrawl(i, "failed", 0, 0, 0, o)
    /\ Goto(i, "done")
    /\ UNCHANGED <<shared, site, requests, locals>>

-----------------------------------------------------------------------------
(* StartCrawl, called by request i.                                          *)

\* Lock, the website is in flight, unlock.
JoinInflight(i) ==
    /\ req[i] = "new"
    /\ mutex = None
    /\ inflight[site[i]] # None
    /\ existing' = [existing EXCEPT ![i] = inflight[site[i]]]
    /\ req' = [req EXCEPT ![i] = "lookup"]
    /\ UNCHANGED <<store, shared, site, reply, run, locals>>

\* GetByID for the crawl in flight: 202 with the row as it is by now ...
LookupFinds(i) ==
    /\ req[i] = "lookup"
    /\ Exists(existing[i])
    /\ Answer(i, 202, existing[i], crawls[existing[i]].status)
    /\ UNCHANGED <<store, shared, site, existing, run, locals>>

\* ... or an error of any kind, ErrCrawlNotFound included: 500.
LookupFails(i) ==
    /\ req[i] = "lookup"
    /\ ~Exists(existing[i]) \/ Undated # {"ok"}
    /\ Answer(i, 500, None, "absent")
    /\ UNCHANGED <<store, shared, site, existing, run, locals>>

\* Lock, the website is not in flight, keep the lock while the row is created.
LockToCreate(i) ==
    /\ req[i] = "new"
    /\ mutex = None
    /\ inflight[site[i]] = None
    /\ mutex' = i
    /\ req' = [req EXCEPT ![i] = "creating"]
    /\ UNCHANGED <<store, inflight, site, existing, reply, run, locals>>

CreateRow(i) ==
    /\ req[i] = "creating"
    /\ InsertCrawl(i, "ok")
    /\ req' = [req EXCEPT ![i] = "registering"]
    /\ UNCHANGED <<shared, site, existing, reply, run, locals>>

CreateFails(i) ==
    /\ req[i] = "creating"
    /\ \E o \in Undated \ {"ok"} : InsertCrawl(i, o)
    /\ mutex' = None
    /\ Answer(i, 500, None, "absent")
    /\ UNCHANGED <<inflight, site, existing, run, locals>>

\* The inflight entry, unlock, go runCrawl, 201 with the row as created.
Register(i) ==
    /\ req[i] = "registering"
    /\ inflight' = [inflight EXCEPT ![site[i]] = i]
    /\ mutex' = None
    /\ run' = [run EXCEPT ![i] = "markRunning"]
    /\ Answer(i, 201, i, "pending")
    /\ UNCHANGED <<store, site, existing, locals>>

-----------------------------------------------------------------------------
(* runCrawl(i), and the functions it calls.                                  *)

MarkRunning(i) ==
    /\ run[i] = "markRunning"
    /\ \E o \in Undated :
          /\ UpdateStatus(i, "running", o)
          /\ Goto(i, IF Updates(i, o) THEN "discover" ELSE "markFailed")
    /\ UNCHANGED <<shared, site, requests, locals>>

Limit(n) == IF MaxPages > 0 /\ n > MaxPages THEN MaxPages ELSE n

\* Any URLs may be found, in any order: cutting the list off at MaxPages
\* keeps any of them.
Discover(i) ==
    /\ run[i] = "discover"
    /\ \E found \in SUBSET URLs :
       LET listed == IF found = {} THEN {Root} ELSE found
       IN  \E kept \in SUBSET listed :
              /\ Cardinality(kept) = Limit(Cardinality(listed))
              /\ urls' = [urls EXCEPT ![i] = kept]
    /\ Goto(i, "dispatch")
    /\ UNCHANGED <<store, shared, site, requests, results, expired>>

\* Discover cannot parse the website again.
DiscoverFails(i) ==
    /\ run[i] = "discover"
    /\ Goto(i, "markFailed")
    /\ UNCHANGED <<store, shared, site, requests, locals>>

\* One result for each URL (ParallelMap), turned into one page each.
Dispatch(i) ==
    /\ run[i] = "dispatch"
    /\ \E kind \in [urls[i] -> Kinds] :
          results' = [results EXCEPT ![i] =
              {[crawl |-> i, url |-> u, kind |-> kind[u]] : u \in urls[i]}]
    /\ Goto(i, "bulkInsert")
    /\ UNCHANGED <<store, shared, site, requests, urls, expired>>

\* An error of BulkInsert is only logged; a missed deadline stays missed.
InsertPages(i) ==
    /\ run[i] = "bulkInsert"
    /\ \E o \in Outcomes :
          /\ BulkInsert(results[i], o)
          /\ expired' = IF o \in {"timeout", "late"} THEN expired \cup {i} ELSE expired
    /\ Goto(i, "complete")
    /\ UNCHANGED <<shared, site, requests, urls, results>>

Succeeded(p) == p.kind \in {"ok", "okUnstorable"}
Success(rows) == Cardinality({p \in rows : Succeeded(p)})
Failed(rows) == Cardinality({p \in rows : ~Succeeded(p)})
FinalStatus(rows) ==
    IF Failed(rows) > 0 /\ Success(rows) = 0 THEN "failed" ELSE "completed"

Complete(i) ==
    /\ run[i] = "complete"
    /\ i \notin expired
    /\ \E o \in Undated :
          CompleteCrawl(i, FinalStatus(results[i]), Cardinality(results[i]),
                        Success(results[i]), Failed(results[i]), o)
    /\ Goto(i, "release")
    /\ UNCHANGED <<shared, site, requests, locals>>

\* The same context as for BulkInsert: the statement is not even sent.
CompleteTooLate(i) ==
    /\ run[i] = "complete"
    /\ i \in expired
    /\ Goto(i, "release")
    /\ UNCHANGED <<store, shared, site, requests, locals>>

MarkFailed(i) ==
    /\ run[i] = "markFailed"
    /\ \E o \in Undated : CompleteCrawl(i, "failed", 0, 0, 0, o)
    /\ Goto(i, "release")
    /\ UNCHANGED <<shared, site, requests, locals>>

\* The deferred function: every way out of runCrawl passes here.
Release(i) ==
    /\ run[i] = "release"
    /\ mutex = None
    /\ inflight' = [inflight EXCEPT ![site[i]] = None]
    /\ run' = [run EXCEPT ![i] = "done"]
    /\ urls' = [urls EXCEPT ![i] = {}]
    /\ results' = [results EXCEPT ![i] = {}]
    /\ expired' = expired \ {i}
    /\ UNCHANGED <<store, mutex, site, requests>>

-----------------------------------------------------------------------------

\* DELETE /crawls/:id at any time; nobody tells the run or the inflight map.
DeleteCrawl(i) ==
    /\ Exists(i)
    /\ DeleteRow(i)
    /\ UNCHANGED <<shared, site, requests, run, locals>>

\* The process stops, by a crash or at the end of main.run, and starts again:
\* the tables are all that is left, and nothing reads the open rows back.
Restart ==
    /\ CanRestart
    /\ inflight' = [w \in Websites |-> None]
    /\ mutex' = None
    /\ req' = [i \in Ids |-> IF req[i] \in {"new", "replied"} THEN req[i] ELSE "aborted"]
    /\ run' = [i \in Ids |-> IF Active(i) THEN "killed" ELSE run[i]]
    /\ urls' = [i \in Ids |-> {}]
    /\ results' = [i \in Ids |-> {}]
    /\ expired' = {}
    /\ UNCHANGED <<store, site, existing, reply>>

Request(i) ==
    \/ JoinInflight(i) \/ LookupFinds(i) \/ LookupFails(i)
    \/ LockToCreate(i) \/ CreateRow(i) \/ CreateFails(i) \/ Register(i)

RunCrawl(i) ==
    \/ MarkRunning(i) \/ Discover(i) \/ DiscoverFails(i) \/ Dispatch(i)
    \/ InsertPages(i) \/ Complete(i) \/ CompleteTooLate(i) \/ MarkFailed(i)
    \/ Release(i)

Next ==
    \/ \E i \in Ids : Request(i) \/ RunCrawl(i) \/ DeleteCrawl(i)
    \/ Restart

\* Every goroutine that can run does; every statement returns.  No client has
\* to delete anything and the process does not have to restart.
Fairness == \A i \in Ids : WF_vars(Request(i)) /\ WF_vars(RunCrawl(i))

Spec == Init /\ [][Next]_vars /\ Fairness

-----------------------------------------------------------------------------
(* Safety, whatever fails.                                                   *)

\* Two crawls of one website never run at the same time, whatever requests
\* meet whatever runs: what the inflight map is for.
OneRunPerWebsite ==
    \A i, j \in Ids : Active(i) /\ Active(j) /\ site[i] = site[j] => i = j

\* inflight has an entry exactly for the runs that have not ended, so a
\* website is neither blocked for ever nor released by somebody else's run.
InflightTracksRuns ==
    \A w \in Websites, i \in Ids :
        inflight[w] = i <=> Active(i) /\ site[i] = w

\* A request that is told of a crawl is told of one of the website it asked
\* for, and a 201 and a 202 never name the crawl of the wrong request.
RepliesNameTheRightCrawl ==
    \A i \in Ids :
        /\ reply[i].code = 201 => reply[i].crawl = i
        /\ reply[i].code = 202 => /\ reply[i].crawl # i
                                  /\ site[reply[i].crawl] = site[i]

\* What a client that polls can see of a row: pending, running, then final
\* for good, until it is deleted for good.  Late steps of a run never take a
\* status back or bring a deleted row back.
RowLifecycle ==
    \A i \in Ids :
        LET before == crawls[i].status
            after == crawls'[i].status
        IN  \/ crawls'[i] = crawls[i]
            \/ before = "absent" /\ after = "pending" /\ req[i] = "creating"
            \/ before = "pending" /\ after \in {"running", "failed"}
            \/ before = "running" /\ after \in Terminal
            \/ after = "absent"

RowsNeverGoBack == [][RowLifecycle]_vars

\* A final row is finished and its counts add up to the pages attempted, at
\* most MaxPages; it is "failed" exactly when no page was a success; an open
\* row has no counts yet.
RowsConsistent ==
    \A i \in Ids :
        LET r == crawls[i]
        IN  /\ r.finished <=> r.status \in Terminal
            /\ r.total = r.success + r.failed
            /\ r.status \in Terminal => (r.status = "failed" <=> r.success = 0)
            /\ r.status \in Open => r.total = 0
            /\ MaxPages > 0 => r.total <= MaxPages

\* The pages of a final row are all there or none is, and those that are
\* there agree with its counts; there is no page without its crawl.
PagesMatchRow ==
    /\ \A p \in pages : Exists(p.crawl)
    /\ \A i \in Ids :
          crawls[i].status \in Terminal /\ PagesOf(i) # {} =>
              /\ Cardinality(PagesOf(i)) = crawls[i].total
              /\ Success(PagesOf(i)) = crawls[i].success

\* What a client reads of a crawl.  A request that will never have one, or
\* whose crawl is deleted, has "gone".
Seen(i) ==
    IF Exists(i) THEN crawls[i].status
    ELSE IF req[i] \in {"new", "lookup", "creating"} THEN "none" ELSE "gone"

seenStatus == [i \in Ids |-> Seen(i)]
seenPages == [i \in Ids |-> {p.url : p \in PagesOf(i)}]

Lifecycle == INSTANCE CrawlLifecycle WITH status <- seenStatus, listing <- seenPages

\* To those who read the tables, requests, runs, failing statements, deletions
\* and restarts in any order look like crawls that go through their states
\* one by one and get their pages all at once, while they are running.
ImplementsLifecycle == Lifecycle!LifecycleSpec

-----------------------------------------------------------------------------
(* While every statement is executed, even if its reply is lost, and the     *)
(* process stays up.                                                         *)

\* A pending or running row has somebody at work on it: a request about to
\* start its run, or the run.  The exception is a row whose requester was told
\* that there is none: the reply to its INSERT was lost.
OpenRowHasOwner ==
    \A i \in Ids :
        crawls[i].status \in Open =>
            \/ req[i] = "registering"
            \/ Active(i) /\ run[i] # "release"
            \/ reply[i].code = 500

\* A run that has ended has left its row final, or found it deleted.
FinishedRunLeavesFinalRow ==
    \A i \in Ids : run[i] = "done" => crawls[i].status \notin Open

\* The row of every crawl a client was told of gets a final status: polling
\* it ends.
EveryCrawlFinishes ==
    \A i \in Ids :
        reply[i].code = 201 /\ crawls[i].status \in Open
            ~> crawls[i].status \notin Open

-----------------------------------------------------------------------------
(* Liveness, whatever fails.                                                 *)

\* However a crawl ends, its website can be crawled again.
InflightIsReleased ==
    \A w \in Websites : inflight[w] # None ~> inflight[w] = None

-----------------------------------------------------------------------------
(* What the repository says and the code does not do.                        *)

\* README: a missing row is told from a failing database.  With a database
\* that never fails there is no 500.
NoServerErrorFromHealthyDatabase == \A i \in Ids : reply[i].code # 500
=============================================================================
