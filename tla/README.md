# Crawliq in TLA+

Crawliq is an HTTP service. `POST /crawls` starts a crawl of one website in the
background: discover pages through robots.txt and sitemaps, fetch them with a
pool of workers, store the pages and the outcome in PostgreSQL. Clients poll
`GET /crawls/:id`, read the pages, and may delete a crawl at any time.

This directory holds TLA+ models of the parts of that program that are hard to
test, TLC configurations for them, and proofs checked by TLAPS.

| file | what it is |
|---|---|
| `CrawlLifecycle.tla` | what the API promises about crawls to those who read them |
| `CrawlStore.tla` | the tables `crawls` and `pages`, the statements that change them, and how statements fail |
| `CrawlService.tla` | `CrawlService`: requests, the inflight map, background runs, deletions, restarts; it implements `CrawlLifecycle` |
| `Server.tla` | `main.go` around `CrawlService`: serving, draining, the closed connection pool, the end and the next start |
| `Api.tla` | a client, the middleware and all handlers in front of crawls that change as `CrawlLifecycle` allows |
| `ParallelMap.tla` | what `Dispatch` and `Pool.Run` promise to their caller |
| `WorkerPool.tla` | one call of `Pool.Run`, goroutine by goroutine; it implements `ParallelMap` |
| `Sitemap.tla` | `Discoverer.Discover` |
| `Fetcher.tla` | one `ProcessJob`: a fetch, its redirects and what is reported of it |
| `CrawlServiceProofs`, `CrawlTablesProofs` | proofs about `CrawlService`: map, locks and replies; rows, pages and the refinement of `CrawlLifecycle` |
| `ServerProofs`, `ApiProofs`, `WorkerPoolProofs`, `SitemapProofs`, `FetcherProofs` | proofs about the others |
| `DataLemmas` | induction over numbers, stated about sets of them, and the range of a sequence |
| `MC*.tla`, `*.cfg` | instances for TLC |
| `PROJECT.json` | components, runs, source map, findings, hazards, theorems |

    tlc -config WorkerPool.cfg WorkerPool
    tlapm CrawlServiceProofs.tla

Line numbers below are those of the modelled commit.

## Inventory

### Crawl service (`internal/service/crawl_service.go`)

*State:* `inflight`, a map from normalised website to the id of its crawl,
under `inflightMu`; one goroutine `runCrawl` per created crawl, with its URLs,
results and deadlines in local variables.

*Operations:* `StartCrawl` (look in the map, answer with the crawl in flight or
create a row and a run), `runCrawl` (mark running, discover, cut off at
`MaxPagesPerCrawl`, dispatch, then `persistAndFinalize`, or `markFailed` when
an early step fails), the deferred deletion of the map entry, `DeleteCrawl`,
and the reads `GetCrawl`, `GetCrawlPages`, `GetPage`.

*Hard:* requests race with each other and with the ends of runs; the INSERT
runs under the mutex but the lookup of an existing crawl does not; a run has
three ways out and its last statements may fail; `DeleteCrawl` tells neither
the run nor the map; the process may stop anywhere and keeps no memory of its
runs outside the tables.

*Correct when:* no website has two runs; the map is exact; a reply names the
right crawl; a row goes pending, running, final and never back, and its
counts, status and pages agree; nobody waits for ever and no website stays
blocked.

### Storage (`internal/storage`, `migrations`)

*State:* the tables. `pages.crawl_id` references `crawls` with `ON DELETE
CASCADE`; `(crawl_id, url)` is unique.

*Operations:* `CrawlRepository.Create`, `GetByID`, `UpdateStatus`, `Complete`,
`Delete`; `PageRepository.BulkInsert` (one `COPY`), `GetByCrawlID` (a COUNT and
a SELECT), `GetByID`, and `Create`, which nobody calls.

*Hard:* each statement is a transaction of its own, so a run's pages and its
final row are two separate steps; a statement may take effect although its
caller sees an error; a `COPY` stores all its rows or none.

*Correct when:* what the tables say about a crawl is consistent at any time.

### Worker pool (`internal/workers`)

*State of one call of `Run`:* `jobCh`, filled and closed before the workers
start; `resultCh` with room for every result; a wait group; the slice of
results.

*Operations:* a worker takes a job, or stops because the channel is drained or
the context is done; processes it; sends the result. A further goroutine
closes `resultCh` when the wait group is down to zero; the caller ranges over
it.

*Hard:* closing order (a send on a closed channel ends the process),
cancellation between taking and sending, blocking on a full buffer, goroutines
that outlive the call.

*Correct when:* each job taken is reported once, all jobs are without
cancellation, nothing blocks, panics or leaks, and the call returns.

### Sitemap discovery (`internal/sitemap`)

*State of one call of `Discover`:* the result (URLs, counters, errors), the set
of URLs seen, the recursion.

*Operations:* read robots.txt, and if it names no sitemap or its fetch fails,
guess two common paths; per sitemap: refuse beyond `maxRecursionDepth`, fetch,
parse, take the URLs of a urlset, recurse into an index.

*Hard:* cycles, sitemaps shared by several indexes, errors in the middle of the
recursion, a deadline in the middle of the walk. A page found twice would
violate the unique constraint and lose the pages of the whole crawl.

*Correct when:* it ends, finds each page within its depth once, and what it
missed shows among its errors, except what a robots.txt costs that could not be
fetched.

### Page fetcher (`internal/crawler`)

*State of one `ProcessJob`:* the current URL, the requests sent so far, the
timeout. Nothing that changes is shared between fetches.

*Operations:* build the request; send it; for each redirect ask
`CheckRedirect`, which sees the requests sent so far; read the body; parse
HTML for its title. Any step but the last may fail, and the timeout may pass in
any of them.

*Hard:* the limit counts requests and not redirects, its configured value is
replaced outside 1..50, redirects may form circles, a body may break off after
its status code has arrived.

*Correct when:* the result is the response at the end of the chain of
redirects or an error, never a mixture, and circles end.

### HTTP handlers, responses, middleware, routes (`internal/api`)

*State:* none between requests; in one request the status and body written so
far, and the local variables of a listing.

*Operations:* seven routes: `POST /crawls`, `GET` and `DELETE /crawls/:id`,
`GET /crawls/:id/pages`, `GET /pages/:id`, `GET /health`, and the preflight
that `CORS` answers. Around each: `Recovery`, then `Logger`, then `CORS`.

*Hard:* a listing is three statements without a transaction; sentinel errors
become status codes after three layers of wrapping; every error branch must
answer and return; the key of a website is made from free text.

*Correct when:* each request is answered, nothing a client was told is taken
back, pages listed piece by piece are the pages of the crawl, and two spellings
of a website have one key.

### Process lifecycle (`cmd/api/main.go`)

*State:* serving, draining, or returned with the connection pool closed; the
requests accepted so far.

*Operations:* SIGINT or SIGTERM; a listener that fails; `server.Shutdown` with
its 30 seconds; the deferred `pool.Close`; the end of the process and the next
start.

*Hard:* `Shutdown` waits for requests, not for crawls; the pool is closed under
runs that are still working, and under requests when the drain timed out.

*Correct when:* after "shut down cleanly" nothing is left half done, nobody
waits for ever, and the tables are as consistent after any end as before it.

### The rest

*Connection pool, configuration, logger*: set up once; no state afterwards that
a property could be about.

### Interactions

    Server: main.go
      Api: Recovery > Logger > CORS > handlers
        |                          reads (CrawlLifecycle <= CrawlService)
        +-> CrawlService.StartCrawl -- inflight, CrawlStore
                  | go runCrawl
                  +-> Discoverer.Discover      (Sitemap)
                  +-> Dispatcher.Dispatch      (ParallelMap <= WorkerPool)
                  |        +-> ProcessJob      (Fetcher)
                  +-> BulkInsert, Complete     (CrawlStore)

`CrawlService` extends `CrawlStore`. In it a discovery is one step that finds
any set of pages (`Discover`), and a dispatch one step that reports each page
once with any outcome (`Dispatch`). `Sitemap` justifies the first, its
`NoDuplicateURLs` being what makes a *set* of pages the right abstraction, and
`WorkerPool` the second: `ParallelMap` is the contract between the two. A
result of `Fetcher` is one of the `Kinds` of `CrawlStore`: `"error"` for
`Failure`, `"status"` for a code that is not 2xx and `"ok"` for the others, or
their unstorable variants.

`Server` extends `CrawlService`: every step of the service is taken inside it,
restricted by what has been accepted and by whether the pool is open. `Api`
extends `CrawlLifecycle`, so its crawls change in every way that contract
allows. That `CrawlService` stays within the contract is checked
(`ImplementsLifecycle`) and proved (`RefinesLifecycle`), and carries what `Api`
shows over to the service with its requests, runs, failures and restarts.

## The models

### CrawlStore

A crawl's row holds its status, its three counts and whether `finished_at` is
set; `NoRow` stands for no row. Ids are never reused (`BIGSERIAL`), so the row a
request creates has the request's name. A page is its crawl, its URL and how
the fetch ended: `"ok"`, `"status"` (not 2xx) or `"error"`. The HTML of a
response is kept whatever its code, so the first two also come as
`"okUnstorable"` and `"statusUnstorable"`: text that PostgreSQL refuses (a NUL or
invalid UTF-8).

Each statement is an operator with an outcome. `"ok"` executes it; the constant
`Faults` gives the other outcomes a run admits:

| outcome | executed | caller sees |
|---|---|---|
| `error` | no | an error |
| `lost` | yes | an error: connection lost before the reply |
| `timeout` | no | the deadline of its context passed |
| `late` | yes | the deadline of its context passed |

Only `persistAndFinalize` uses one context for two statements, so `timeout` and
`late` differ from `error` and `lost` only there, and the other statements leave
them out (`Undated`). An UPDATE that finds no row executes and reports
`ErrCrawlNotFound`. `Accepts` are the constraints of the `COPY`.

A statement that is executed takes effect before its caller goes on, also when
the caller sees an error. That a server executes an UPDATE after its client gave
up on it and sent the next one is outside the model, and so is what that could
do to the order of a run's statements.

### CrawlService

`Ids` are at once the requests, the rows they may create and the runs they may
start. `site[i]` is what request `i` asks for after `normalizeWebsite`.

| action | code |
|---|---|
| `JoinInflight` | `StartCrawl`, lines 88-90: the entry is there, unlock |
| `LookupFinds`, `LookupFails` | `GetByID` after the unlock: 202, or 500 for any error |
| `LockToCreate`, `CreateRow`, `CreateFails`, `Register` | lines 88-116: the mutex is held from the check over the INSERT to the new entry |
| `MarkRunning` | `UpdateStatus(running)`; an error leads to `markFailed` |
| `Discover`, `DiscoverFails` | discovery, the root page for an empty one, the cut at `MaxPages`; the error |
| `Dispatch` | the pool's results, turned into pages |
| `InsertPages` | `BulkInsert`; an error is only logged, but a passed deadline stays passed |
| `Complete`, `CompleteTooLate` | the final UPDATE, or nothing if the shared context is already done |
| `MarkFailed` | `Complete` with status failed, with a context of its own |
| `Release` | the deferred deletion of the entry |
| `DeleteCrawl` | `DELETE /crawls/:id`, at any time |
| `Restart` | the process ends and starts again: only the tables survive |

`mutex` is the request that holds `inflightMu` across a statement. A critical
section without a statement in it (`JoinInflight`, `Release`) is one step that
needs the mutex free.

### CrawlLifecycle

Two functions: the status of each crawl, `"none"` before there is one and
`"gone"` after it was deleted or will never be, and its pages. A crawl is
created, started, gets its pages all at once, ends, and may be deleted at any
time; one that was never started can only fail. The mapping is `seenStatus` and
`seenPages` of `CrawlService`: an absent row is `"none"` as long as its request
may still create it, and `"gone"` afterwards.

### Server

`phase` is `serving`, `draining` (inside `server.Shutdown`) or `closed` (run has
returned and the deferred `pool.Close` has run). `Accept` lets a request in;
`Handle`, `Crawl` and `Delete` are the steps of `CrawlService` inside `Works`,
which lets them execute no statement once the pool is closed. Runs are
goroutines that `Shutdown` knows nothing of: they go on while it drains and
after it, and `Stop` or `Crash` (`Restart` of `CrawlService`) ends them where
they are. A run that meets the closed pool cannot even mark its row failed: the
row stays open, as after a crash.

### Api

One client sends one request after the other, any request at any time; others
(`Others`) change the crawls between any two of its steps. Each statement is a
step, so a listing is `FindCrawl` (GetByID), `CountPages`, `SelectPages`. `code`
and `body` are the status and the envelopes written; what is logged is left out.
A statement that fails is `Fail`, a handler that panics `Panic`, answered by
`Recovery`. Two variables are there for the properties: `known`, the last status
the client was told of each crawl, and `walk`, the pages it has listed, without
gap or overlap, since it saw a final status. Whether a `POST` creates or reuses
is left open here (`StartCreates`, `StartReuses`): `CrawlService` decides it.

`normalizeWebsite` works on what it can tell apart: a scheme or none, a host or
none, capitals in it or not, a path or query or none, a `"://"` in it, and a tail
that it keeps (a fragment, a bare `?`).

A page is named by its crawl and its URL instead of its own id. `Order` is the
order in which the pages of a crawl got their ids. `DefaultLimit`, `MaxLimit`
and `MaxOffset` stand for 50, 500 and 1,000,000.

### WorkerPool and ParallelMap

`jobCh` is complete and closed before the first receive, so it is a position
`taken` in the list of jobs. `resultCh` is the log `sent` with the position
`received`. The select of a worker is a choice between `Take` and
`StopCancelled`: with both ready Go picks either.

`ParallelMap` has no goroutines: it hands jobs out in order, reports each one
handed out once in any order, and returns when all that was handed out is
reported, which is everything unless it was cancelled. The mapping is `handed
<- taken`, `out <- SubSeq(sent, 1, received)`, `returned <- run = "returned"`.

### Sitemap

The web is a function from sitemap URLs to documents: a urlset, an index,
something malformed or none; and a robots.txt, which is the list of sitemaps it
names. `GuessCommonPaths` is taken if it names none, or if its fetch fails. The
recursion of `resolveSitemap` is the list `todo` of calls still to make; an
index puts the calls for its entries in front. `TakeLoc` is one turn of the loop
over a urlset, so the deadline may pass between any two turns; it then fails
every later fetch. On a web that is `flaky` any single fetch may fail too; the
run has webs of both kinds and a deadline with both. What a discovery *should*
find is defined by levels (`Reach`) from the sitemaps the website declares
(`Declared`), not by recursion.

### Fetcher

`web` says how each URL answers; `http.Client` is modelled by what it does for
the one policy the code gives it: requests are counted in `requests`, which is
`len(via)` when `CheckRedirect` is called. `maxRedirects` is chosen from
`Settings`, values below, inside and above the accepted range, and `Limit` is
what `NewFetcher` makes of it. `Timeout` stands for the context of `ProcessJob`
and for `http.Client.Timeout`, which are of the same length. A reference
definition without requests (`After`) says where a chain of redirects leads.

## What is checked

Symmetry is used in `service_rows` only, which has no liveness property
(`RowsNeverGoBack` and `ImplementsLifecycle` are of the form `[][A]_v`, the
latter with an initial condition). Deadlock is not checked: a crawl ends, and
then the model stops. That nobody is stuck is a liveness property of its own in
each module.

| run | instance | shows |
|---|---|---|
| `pool` | 3 workers, 4 jobs | closing order, buffer, accounting of jobs and goroutines, under cancellation; every call returns; the pool implements `ParallelMap` |
| `service_rows` | 2 requests, 2 websites, 3 pages cut at 2, all faults, restarts | one run per website, an exact map, right replies; rows and pages are consistent and never go back; the service implements `CrawlLifecycle` |
| `service_owners` | 3 requests, 2 websites, `lost` only, no restart | every open row has an owner, every run leaves a final row, every crawl a client knows of gets a final status |
| `server` | 2 requests, 2 websites, `error` and `lost`; signals, drains, closed pool, crashes | a clean shutdown leaves `inflightMu` free and every open row handed to a run; every request ends; every website becomes free again |
| `api` | 2 crawls, 2 pages, parameters and websites of every class | nothing told is taken back; a walk through the pages is complete; every request is answered |
| `sitemap` | 3 sitemaps, 2 entries each, a robots.txt, depth 2, a deadline, fetches that fail | exactly the pages within the depth, once each, on every web; without a recorded error nothing was missed but what an unread robots.txt names; a discovery ends |
| `fetch_redirects` | 3 URLs, 6 settings, a hard limit of 3 | the end of the chain or an error is reported; circles of redirects end |

*Why these bounds.* In the pool more jobs than workers makes workers take a
second job, and three workers are one that closes the wait group, one that still
holds a result and one that has left. Two requests for a website are enough for
a crawl in flight and its contender, and the third, in `service_owners`, starts
the crawl after that; two websites are enough to tell keys of the map apart.
Three pages cut at two give complete, mixed, failed and truncated crawls and a
page that the COPY refuses. In the server two requests are one that is accepted
before the signal and waits for `inflightMu`, and the one that holds it. Two
pages and a limit of one give a walk of two listings and, with an offset of two,
an empty one at its end; limits and offsets are tried missing, malformed, below,
inside and above their range, whose ends are scaled down to 2. Three sitemaps
with two entries give shared children, cycles of every length up to three, an
index beside a urlset, and pages just inside and just outside a depth of two; a
robots.txt names no sitemap, one of the two common paths or the sitemap that is
neither, and with none the common paths are both tried. The real depth of five
only makes the same walks longer. Three URLs give chains of two redirects and
circles of one to three; the hard limit of 3 instead of 50 is reached by the
circles, and settings on both sides of every comparison of `NewFetcher` are
tried. The theorems below hold without any of these bounds.

*Fairness.* Weak fairness for each goroutine: the Go scheduler runs each
goroutine that can run, statements return because their contexts or connections
end, and a fetch ends with its timeout. In `Fetcher` itself the timeout is left
out of the fairness, so that `RedirectsEnd` is the merit of the limit alone.
(Some statements of `StartCrawl` and `runCrawl` carry no timeout of their own,
lines 94, 100, 190: for them the assumption is that the driver notices a broken
connection.) A request that waits for `inflightMu` needs no strong fairness,
since finitely many requests compete for it. In `Server` the drain ends one way
or the other (`Shutdown` returns when all is answered or after 30 seconds) and a
process whose `main` has returned ends. In `Api` it is the handler that goes on,
without a statement that fails or a panic to help it, so that a branch that
forgets its answer is noticed; nobody has to send a request. (The one failure in
its fairness is that of a `POST` when the two ids of the bound are used up.) No
fairness at all for deletions, signals,
crashes, cancellations and deadlines: none of them has to happen.

### Where code and documentation disagree

Each of these runs checks one statement of the repository and TLC finds a
counterexample.

* `service_shared_deadline`: `BulkInsert` and `Complete` share one context of
  60 s. If the insert uses it up, `Complete` fails at once and the row stays
  `running` with no run behind it. The comment at `crawl_service.go:276-279`
  says such a row would be the worse outcome and that the crawl is marked in
  any case. `markFailed` has a context of its own.
* `service_deleted_in_flight`: delete a running crawl, then `POST` its website
  again: 500, until the run ends, although nothing failed in the database. The
  project README (256-259) says that sentinel errors exist to keep "not found"
  apart from database failures.
* `api_invalid_website`: the case of `ErrInvalidURL` in `CrawlHandler.StartCrawl`
  does not return, so line 68 adds a second envelope, `success: true` without
  data, to the body of the 400. `response.go:9-12` promises one shape with the
  same top-level keys for every response. (gin keeps the 400, so a client that
  looks at the status only does not notice.)
* `api_spellings`: `normalizeWebsite` clears path and query and keeps the host as
  it was typed. `https://Example.com/` and `example.com`, the two examples of its
  comment (`crawl_service.go:327-330`, "don't get duplicate inflight entries"),
  get two keys, and so two entries and two crawls at once.
* `service_restart`: rows that were open when the process stopped stay open for
  ever, so a client that polls as the project README (244-246) tells it to never
  sees a final status.

Noticed while modelling, without a run of its own:

* A 202 may carry a crawl that has ended: the map entry outlives the final
  UPDATE until the deferred deletion, and the row is read outside the lock.
  `crawl_handler.go:53` calls it "an in-progress crawl".
* `normalizeWebsite` also keeps user, port, fragment and a bare `?`, and a website
  without a scheme whose path or query contains `://` is refused.
* `config.example.yaml:35` says of `max_redirects` "0 = follow none; -1 =
  unlimited"; `NewFetcher` (line 43) makes 50 of both. The limit is on requests,
  so 5 follows four redirects and 1 is the value that follows none. `Settings`
  has these values, and `ReportsTheEndOfTheChain` is about the limit made of them.
* A robots.txt that exists and cannot be fetched is taken for a missing one, which
  `discovery.go:78-80` calls a normal condition: the pages only its sitemaps list
  are lost without an entry in `Errors`. `OnlyRobotsIsLostSilently` says that
  nothing else is.
* `Recovery` is outside `Logger`, so a request whose handler panics has no
  `HTTP request` line although `logger.go:14` says every request gets one. Log
  lines are not modelled.
* The health check sends its 503 through `Success`, whose comment says 2xx.
* While a run stores its pages, `total` and `pages` of one listing may be of
  different moments; `WalkIsComplete` is therefore about clients that wait for
  the final status first.
* Runs that meet the closed connection pool at a shutdown leave open rows behind,
  also after "server shut down cleanly".

## What is proved

All theorems hold for every value of the constants under the assumptions named
in the modules: for the pool, a finite and nonempty set of workers
(`WorkersAssumption`; the configuration refuses zero), `NumJobs \in Nat`; for
the service `StoreAssumption` (finitely many URLs) and `ServiceAssumption`; for
the others the assumption of their module (`ApiAssumption`: the limits are
numbers and the order has each page once).

### WorkerPool

`Inv` is `TypeOK`, `WaitGroupInv`, `JobInv` and `ReadInv`.

* `WaitGroupInv`: the counter is the number of workers that have not exited;
  `closed` only when there is none; a worker has left only because the context
  was done or the jobs had run out. None of the properties about closing is
  inductive without it: from `closed` alone nothing says that no worker is left.
* `JobInv`: each job taken is at exactly one worker or at one place of the log,
  stated by positions, so that a step of one worker changes one position.
* `ReadInv`: the caller has not read beyond the log, and returns at its end.

From it follow `NeverSendsOnClosedChannel`, `JobsAreAccountedFor`,
`WorkersNeverBlock` (results in the buffer and results in hands are different
jobs, so there are at most `NumJobs`), `NoGoroutineLeaks`, `RunIsComplete`, and
`TypeCorrect`. `RefinesParallelMap` is `Spec => Map!SafeSpec`: the initial state
maps to the initial state; `Take`, `Receive`, `Return` and `Cancel` to their
counterparts, every other step to a stutter.

### CrawlService

`Inv` is `TypeOK`, `ResultsInv`, `LockInv`, `InflightTracksRuns`, `LookupInv`,
`RepliesNameTheRightCrawl` and `RowInv`.

* `InflightTracksRuns` implies `OneRunPerWebsite`, which is not inductive: from
  it alone a registration could join a run whose entry is missing.
* `LockInv`: the mutex is held by the one request in its critical section, whose
  website still has no entry. It is what makes `Register` preserve the map.
* `LookupInv`: an id read from the map stays the id of another request for the
  same website, also after its entry has gone.
* `RowInv`: what the status of a row may be for each place of its request and
  its run. `RowsNeverGoBack` follows for each step from it: `UPDATE ... SET
  status = 'running'` has no condition on the old status in the SQL, and it is
  the order of the run that makes it safe, given that a statement takes effect
  before the run goes on (see CrawlStore).

The theorems are `OneRunAtATime`, `InflightIsExact`, `RepliesAreRight`,
`StatusOnlyGoesForward`, `TypeCorrect`; all of them with every kind of fault
and with restarts.

### The tables

`TablesInv` adds to `Inv` what rows and pages are at each place of a run.

* `RunsInv`: the results a run holds are of its own crawl, at least one (the root
  page stands in for an empty discovery) and at most `MaxPages`.
* `PagesInv`: a crawl has no pages before its COPY, and at the final UPDATE all of
  its results or none. Without it nothing relates the counts that `Complete`
  writes to the pages an earlier statement stored.

From these follow `RowsAreConsistent` and `PagesAgreeWithRows`, for every kind of
fault, with deletions and restarts at any time. `OwnersInv` is inductive only
when statements are executed and nothing restarts (`Faults \subseteq {"lost"}`,
`CanRestart = FALSE`, assumptions of the theorems): no deadline has passed, no
run was killed, and a run about to release its entry has left its row final. It
gives `OpenRowsHaveOwners` and `RunsLeaveFinalRows`. The violation runs
`service_shared_deadline` and `service_restart` show that neither assumption can
be dropped.

### CrawlLifecycle

`RefinesLifecycle` is `Spec => Lifecycle!LifecycleSpec`, one lemma per kind of
step: an executed INSERT is `Create`, a reply without a row, or a request that
ends with its process, `Discard`, an UPDATE `Start` or `Finish`, a COPY
`Publish`, a DELETE `Delete`; statements that were not executed or found no row,
and all that happens in memory only, are stutters. It rests on `TablesInv`: that
`Publish` finds no pages, and that `running` is written over `pending` only.

`ServerRefinesLifecycle` says the same of the whole server (`StepsAreSeen` is
used for both). What `Api` assumes of the crawls it reads is thus what the
program provides, drains, the closed pool and new starts included.

### Server

Every step of `Server` is a step of `CrawlService` or leaves it alone, so
`TablesInv` carries over (`OneRunAtATimeInServer`, `TablesAgreeInServer`): closing
the pool under the runs cannot make the tables contradict themselves.
`CleanShutdownLeavesNothingHalfDone` is not about the guard of the drain, which
waits for answers, but about what an answer means. `HandedOver` says for every
open row that its request is about to hand it to a run, has done so, has told its
client that there is none, or went down with its process; it is inductive, by one
case for each step of a request, because `CreateFails` and a lost reply end in a
500 and everything else under the mutex ends in `Register`. `DrainInv` adds that
after a clean drain no accepted request is under way, and only one that is can
hold the mutex. `StatusOnlyGoesForwardInServer` is `RowsNeverGoBack` for every
step of the server.

### DataLemmas

What a recursion computes is proved by induction over a number: the number of
levels, of redirects, of pages in order. The library states induction for
operators; `Induct` states it for sets (a set of numbers that has 0 and with
each number the next one is `Nat`), from `Least`, which comes from the
well-foundedness of `<`. A proof by induction over `P(k)` applies it to
`{k \in Nat : P(k)}`.

### Sitemap

* `SeenInv`: `seen` is the set of what was found, and has as many elements as the
  list. `FindsEachPageOnce` follows, for every web, depth and deadline.
* `AccountInv` is what makes `FindsAllWithinDepth` inductive. The account of a
  discovery is what it has seen, the rest of the urlset it is reading, and for
  each call still to make what is listed within the depth that call has left.
  Nothing outside `Listed(Within(MaxDepth))` ever enters the account, and as
  long as nothing fails nothing leaves it. When there are no calls left, the
  account is what was found: `FindsAll`.
* `StartInv`: the walk starts where the website says, unless the fetch of robots.txt
  failed. `FindsAll` and the next theorem speak of the website through it.
* `CoverInv` is the same for `OnlyRobotsIsLostSilently`: without an error every
  sitemap, however deep, is an index already read, a urlset read or being read,
  or reachable from a call still to make. `LosesNothingElseSilently` follows.
* Both need lemmas about `Reach`: the levels are unique and grow; what a sitemap
  reaches in `n + 1` steps is itself and what its entries reach in `n`; and after
  as many levels as there are sitemaps nothing new comes (`ReachStops`: a level
  that adds nothing is the last one, and one that adds something has one sitemap
  more, so there are at most `Cardinality(Maps)` of these). That is why
  `Within(Cardinality(Maps))` is everything, cycles or not.

### Fetcher

* `RequestsInv`: the requests sent are within `Limit`, and fewer when one is about
  to be sent. `RequestsWithinLimit` and `FetcherTypeCorrect` follow.
* `ChainInv`: the fetch is always where the chain of redirects is after as many
  requests, and it looks at the answer of the one before while it decides.
  `AfterTheEnd` says that a chain that has met something else than a redirect
  stays there, so that a fetch that ends early has the end of the whole chain.
  `ReportsAreRight` follows: the limit on the requests, the end of the chain and
  the timeout together.

### Api

`RowsFacts` is what everything about listings rests on: `Rows(i)` has exactly the
pages of the crawl, each once, so it is as long as `SELECT COUNT` says. It is
proved by induction along `Order`.

* `ToldForGood` is `NothingTakenBack`, inductive with the types of what it is
  about; its main lemma says that no step of `CrawlLifecycle` contradicts what a
  client knows. With `ServerRefinesLifecycle` it holds of the program itself.
* `RequestInv`: only a listing with valid parameters for a crawl gets to its
  statements. `TypesAreKept` is not inductive without it: `req.id` and `limit`
  would not have to exist.
* `WalkInv` makes `WalkIsComplete` inductive. Nothing is walked before the client
  knows of the end of a crawl, and between COUNT and SELECT of a crawl known to have
  ended, the count is the number of its rows; `EndIsFinal` says why it stays so
  although others act in between: only a deletion touches an ended crawl.
  `WalksOn` says that rows `offset + 1` to `offset + limit`, put behind the first
  `offset` rows, are again the first rows; `Slices`, that a listing is empty only
  at the end. `PaginationIsComplete` follows for any limits and offsets.

### Only model-checked

Every invariant and every action property of the runs that pass is a theorem.
What is left to TLC is liveness: `RunReturns`, the fairness of `ParallelMap!Spec`,
`EveryRequestEnds`, `InflightIsReleased`, `EveryCrawlFinishes`, `DiscoveryEnds`,
`RedirectsEnd` and `EveryRequestIsAnswered`. It needs ENABLED and well-founded
induction over temporal formulas, which are out of the prover's reach.

## What is not modelled

* The content of pages, HTML parsing, XML syntax and header handling: no state;
  documents are classified by what the program does next.
* `PageRepository.Create` and `Page.Succeeded`: nobody calls them.
* The connection pool's set-up (`postgres.go`), `config.go` and `logger.go`: pure
  I/O and parsing at the start, before any of the behaviour here. What they
  decide is in constants and their assumptions.
* Several pools at once: each call of `Run` has goroutines and channels of its
  own, so calls do not interact; that their number adds up needs no model.
* The number of fetches of a discovery: a sitemap that is reachable on many paths
  is fetched once per path. Nothing in the repository promises otherwise.
* A second instance of the program on the same database: the inflight map is
  per process, and nothing in the repository says it may run twice.
* A request whose client disconnects: a lost reply to its INSERT (`lost`) covers
  the row it leaves behind. `OpenRowHasOwner` makes it the only kind of open row
  without an owner; nothing ever finishes such a row.

## What could come next

The modules were written from the core outwards: tables and service, pool,
discovery, fetcher; then the contract `CrawlLifecycle`, the API on top of it and
the process around the service; the proofs followed the modules. What would add
something from here:

1. `Api` over `Server` directly instead of over `CrawlLifecycle`, to check how a
   shutdown looks to a client that pages through a result.
2. Two processes on one database, should the service ever be meant to run so.
3. The liveness properties with a prover that knows ENABLED, or the measures
   that each step of a fetch, a discovery or a pool decreases, as action
   properties.
