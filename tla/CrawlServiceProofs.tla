------------------------- MODULE CrawlServiceProofs -------------------------
(***************************************************************************)
(* Safety of CrawlService for any requests, websites, pages and faults,    *)
(* with and without restarts.                                              *)
(***************************************************************************)
EXTENDS CrawlService, FiniteSetTheorems, TLAPS

Working == {"markRunning", "discover", "dispatch", "bulkInsert",
            "complete", "markFailed", "release"}
Unanswered == {"new", "lookup"} \cup InCriticalSection

(* inflightMu is held by the one request inside its critical section, which  *)
(* has seen no entry for its website, and a request has no run before its    *)
(* answer.                                                                   *)
LockInv ==
    /\ \A i \in Ids : req[i] \in InCriticalSection <=> mutex = i
    /\ \A i \in Ids : req[i] \in InCriticalSection => inflight[site[i]] = None
    /\ \A i \in Ids : req[i] \in Unanswered => run[i] = "none"

(* What a row may be, given where its request and its run are.               *)
RowInv ==
    \A i \in Ids :
        /\ req[i] \in {"new", "lookup", "creating"} => crawls[i].status = "absent"
        /\ req[i] = "registering" => crawls[i].status \in {"absent", "pending"}
        /\ run[i] = "markRunning" => crawls[i].status \in {"absent", "pending"}
        /\ run[i] \in {"discover", "dispatch", "bulkInsert", "complete"} =>
              crawls[i].status \in {"absent", "running"}
        /\ run[i] = "markFailed" =>
              crawls[i].status \in {"absent", "pending", "running"}

(* A request that found an entry looks up another crawl of its website.      *)
LookupInv ==
    \A i \in Ids :
        req[i] = "lookup" => /\ existing[i] \in Ids \ {i}
                             /\ site[existing[i]] = site[i]

(* The results of a run are finitely many.                                   *)
ResultsInv == \A i \in Ids : IsFiniteSet(results[i])

Inv ==
    /\ TypeOK
    /\ ResultsInv
    /\ LockInv
    /\ InflightTracksRuns
    /\ LookupInv
    /\ RepliesNameTheRightCrawl
    /\ RowInv

-----------------------------------------------------------------------------
(* All steps of a run but its last change nothing that requests share.       *)
RunGoesOn(i) ==
    \/ MarkRunning(i) \/ Discover(i) \/ DiscoverFails(i) \/ Dispatch(i)
    \/ InsertPages(i) \/ Complete(i) \/ CompleteTooLate(i) \/ MarkFailed(i)

\* A run between its first and last step touches neither requests nor map.
LEMMA RunGoesOnQuietly ==
    ASSUME TypeOK, NEW i \in Ids, RunGoesOn(i)
    PROVE  /\ UNCHANGED <<inflight, mutex, site, req, existing, reply>>
           /\ run[i] \in Working
           /\ \E s \in Working : run' = [run EXCEPT ![i] = s]
  <1> USE DEF Goto, Working, shared, requests
  <1>1. CASE MarkRunning(i)
    BY <1>1 DEF MarkRunning
  <1>2. CASE Discover(i)
    BY <1>2 DEF Discover
  <1>3. CASE DiscoverFails(i)
    BY <1>3 DEF DiscoverFails
  <1>4. CASE Dispatch(i)
    BY <1>4 DEF Dispatch
  <1>5. CASE InsertPages(i)
    BY <1>5 DEF InsertPages
  <1>6. CASE Complete(i)
    BY <1>6 DEF Complete
  <1>7. CASE CompleteTooLate(i)
    BY <1>7 DEF CompleteTooLate
  <1>8. CASE MarkFailed(i)
    BY <1>8 DEF MarkFailed
  <1> QED
    BY <1>1, <1>2, <1>3, <1>4, <1>5, <1>6, <1>7, <1>8 DEF RunGoesOn

\* Every step keeps inflightMu with the one request in its critical section.
LEMMA NextLockInv ==
    ASSUME Inv, [Next]_vars
    PROVE  LockInv'
  <1> USE DEF Inv, TypeOK, LockInv, InCriticalSection, Unanswered
  <1>1. ASSUME NEW i \in Ids, JoinInflight(i) PROVE LockInv'
    BY <1>1 DEF JoinInflight, shared
  <1>2. ASSUME NEW i \in Ids, LookupFinds(i) \/ LookupFails(i) PROVE LockInv'
    BY <1>2 DEF LookupFinds, LookupFails, Answer, shared
  <1>3. ASSUME NEW i \in Ids, LockToCreate(i) PROVE LockInv'
    BY <1>3, ServiceAssumption DEF LockToCreate
  <1>4. ASSUME NEW i \in Ids, CreateRow(i) PROVE LockInv'
    BY <1>4 DEF CreateRow, shared
  <1>5. ASSUME NEW i \in Ids, CreateFails(i) PROVE LockInv'
    BY <1>5, ServiceAssumption DEF CreateFails, Answer
  <1>6. ASSUME NEW i \in Ids, Register(i) PROVE LockInv'
    BY <1>6, ServiceAssumption DEF Register, Answer
  <1>7. ASSUME NEW i \in Ids, RunGoesOn(i) PROVE LockInv'
    <2>1. run[i] # "none"
      BY <1>7, RunGoesOnQuietly DEF Working
    <2> QED
      BY <1>7, <2>1, RunGoesOnQuietly
  <1>8. ASSUME NEW i \in Ids, Release(i) PROVE LockInv'
    BY <1>8, ServiceAssumption DEF Release, requests
  <1>9. ASSUME NEW i \in Ids, DeleteCrawl(i) PROVE LockInv'
    BY <1>9 DEF DeleteCrawl, shared, requests
  <1>10. CASE Restart
    <2>1. \A i \in Ids : req'[i] \notin InCriticalSection /\ mutex' # i
      BY <1>10, ServiceAssumption DEF Restart
    <2>2. ASSUME NEW i \in Ids, req'[i] \in Unanswered PROVE run'[i] = "none"
      <3>1. req'[i] = IF req[i] \in {"new", "replied"} THEN req[i] ELSE "aborted"
        BY <1>10 DEF Restart
      <3>2. run[i] = "none"
        BY <2>2, <3>1
      <3> QED
        BY <1>10, <3>2 DEF Restart, Active, NotRunning
    <2> QED
      BY <2>1, <2>2
  <1>11. CASE UNCHANGED vars
    BY <1>11 DEF vars
  <1> QED
    BY <1>1, <1>2, <1>3, <1>4, <1>5, <1>6, <1>7, <1>8, <1>9, <1>10, <1>11
       DEF Next, Request, RunCrawl, RunGoesOn

\* Every step keeps the map exact.
LEMMA NextInflightTracksRuns ==
    ASSUME Inv, [Next]_vars
    PROVE  InflightTracksRuns'
  <1> USE DEF Inv, TypeOK, InflightTracksRuns, Active, NotRunning
  <1>1. ASSUME NEW i \in Ids,
               JoinInflight(i) \/ LookupFinds(i) \/ LookupFails(i)
                   \/ LockToCreate(i) \/ CreateRow(i) \/ CreateFails(i)
                   \/ DeleteCrawl(i)
        PROVE  InflightTracksRuns'
    BY <1>1 DEF JoinInflight, LookupFinds, LookupFails, LockToCreate, CreateRow,
                CreateFails, DeleteCrawl, shared
  <1>2. ASSUME NEW i \in Ids, Register(i) PROVE InflightTracksRuns'
    <2>1. inflight[site[i]] = None /\ run[i] = "none"
      BY <1>2 DEF Register, LockInv, InCriticalSection, Unanswered
    <2> QED
      BY <1>2, <2>1, ServiceAssumption DEF Register
  <1>3. ASSUME NEW i \in Ids, RunGoesOn(i) PROVE InflightTracksRuns'
    BY <1>3, RunGoesOnQuietly DEF Working
  <1>4. ASSUME NEW i \in Ids, Release(i) PROVE InflightTracksRuns'
    BY <1>4, ServiceAssumption DEF Release
  <1>5. CASE Restart
    BY <1>5, ServiceAssumption DEF Restart
  <1>6. CASE UNCHANGED vars
    BY <1>6 DEF vars
  <1> QED
    BY <1>1, <1>2, <1>3, <1>4, <1>5, <1>6 DEF Next, Request, RunCrawl, RunGoesOn

\* Every step keeps ids read from the map, and replies, right.
LEMMA NextRequests ==
    ASSUME Inv, [Next]_vars
    PROVE  LookupInv' /\ RepliesNameTheRightCrawl'
  <1> USE DEF Inv, TypeOK, LookupInv, RepliesNameTheRightCrawl
  <1>1. ASSUME NEW i \in Ids, JoinInflight(i)
        PROVE  LookupInv' /\ RepliesNameTheRightCrawl'
    <2> DEFINE c == inflight[site[i]]
    <2>1. c \in Ids
      BY <1>1 DEF JoinInflight
    <2>2. Active(c) /\ site[c] = site[i]
      BY <2>1 DEF InflightTracksRuns
    <2>3. run[i] = "none"
      BY <1>1 DEF JoinInflight, LockInv, Unanswered
    <2>4. c # i
      BY <2>2, <2>3 DEF Active, NotRunning
    <2> QED
      BY <1>1, <2>1, <2>2, <2>4 DEF JoinInflight
  <1>2. ASSUME NEW i \in Ids,
               LookupFinds(i) \/ LookupFails(i) \/ CreateFails(i) \/ Register(i)
        PROVE  LookupInv' /\ RepliesNameTheRightCrawl'
    BY <1>2 DEF LookupFinds, LookupFails, CreateFails, Register, Answer
  <1>3. ASSUME NEW i \in Ids, LockToCreate(i) \/ CreateRow(i)
        PROVE  LookupInv' /\ RepliesNameTheRightCrawl'
    BY <1>3 DEF LockToCreate, CreateRow
  <1>4. ASSUME NEW i \in Ids, RunGoesOn(i) \/ Release(i) \/ DeleteCrawl(i)
        PROVE  LookupInv' /\ RepliesNameTheRightCrawl'
    <2>1. UNCHANGED <<site, req, existing, reply>>
      BY <1>4, RunGoesOnQuietly DEF Release, DeleteCrawl, requests
    <2> QED
      BY <2>1
  <1>5. CASE Restart
    <2>1. \A i \in Ids : req'[i] # "lookup"
      BY <1>5 DEF Restart
    <2> QED
      BY <1>5, <2>1 DEF Restart
  <1>6. CASE UNCHANGED vars
    BY <1>6 DEF vars
  <1> QED
    BY <1>1, <1>2, <1>3, <1>4, <1>5, <1>6 DEF Next, Request, RunCrawl, RunGoesOn

(* What a statement does to one row it does to no other.                     *)
LEMMA StatementsTouchOneRow ==
    ASSUME TypeOK, NEW i \in Ids, NEW o, NEW j \in Ids \ {i}
    PROVE  /\ InsertCrawl(i, o) => crawls'[j] = crawls[j]
           /\ \A s : UpdateStatus(i, s, o) => crawls'[j] = crawls[j]
           /\ \A s, t, m, n : CompleteCrawl(i, s, t, m, n, o) => crawls'[j] = crawls[j]
           /\ DeleteRow(i) => crawls'[j] = crawls[j]
  BY DEF TypeOK, StoreTypeOK, InsertCrawl, UpdateStatus, CompleteCrawl, DeleteRow

(* The status a statement leaves in its row.                                 *)
LEMMA StatusAfter ==
    ASSUME TypeOK, NEW i \in Ids, NEW o
    PROVE  /\ InsertCrawl(i, o) =>
                 crawls'[i] = IF Executed(o) THEN Fresh("pending") ELSE crawls[i]
           /\ \A s : UpdateStatus(i, s, o) =>
                 /\ Executed(o) /\ Exists(i) => crawls'[i].status = s
                 /\ ~(Executed(o) /\ Exists(i)) => crawls'[i] = crawls[i]
           /\ \A s, t, m, n : CompleteCrawl(i, s, t, m, n, o) =>
                 /\ Executed(o) /\ Exists(i) => crawls'[i].status = s
                 /\ ~(Executed(o) /\ Exists(i)) => crawls'[i] = crawls[i]
           /\ DeleteRow(i) => crawls'[i] = NoRow
  <1> USE DEF TypeOK, StoreTypeOK
  <1>1. InsertCrawl(i, o) =>
           crawls'[i] = IF Executed(o) THEN Fresh("pending") ELSE crawls[i]
    BY DEF InsertCrawl
  <1>2. \A s : UpdateStatus(i, s, o) =>
           /\ Executed(o) /\ Exists(i) => crawls'[i].status = s
           /\ ~(Executed(o) /\ Exists(i)) => crawls'[i] = crawls[i]
    BY DEF UpdateStatus, Row
  <1>3. \A s, t, m, n : CompleteCrawl(i, s, t, m, n, o) =>
           /\ Executed(o) /\ Exists(i) => crawls'[i].status = s
           /\ ~(Executed(o) /\ Exists(i)) => crawls'[i] = crawls[i]
    BY DEF CompleteCrawl
  <1>4. DeleteRow(i) => crawls'[i] = NoRow
    BY DEF DeleteRow
  <1> QED
    BY <1>1, <1>2, <1>3, <1>4

\* Every step keeps each row where its request and its run have brought it.
LEMMA NextRowInv ==
    ASSUME Inv, [Next]_vars
    PROVE  RowInv'
  <1> USE DEF Inv, RowInv
  <1>0. /\ TypeOK
        /\ \A i \in Ids : req[i] \in Unanswered => run[i] = "none"
    BY DEF LockInv
  <1>1. ASSUME NEW i \in Ids,
               JoinInflight(i) \/ LookupFinds(i) \/ LookupFails(i) \/ LockToCreate(i)
        PROVE  RowInv'
    <2>1. UNCHANGED <<crawls, run>>
      BY <1>1 DEF JoinInflight, LookupFinds, LookupFails, LockToCreate, store
    <2>2. \/ req[i] = "new" /\ \E s \in {"lookup", "creating"} : req' = [req EXCEPT ![i] = s]
          \/ req' = [req EXCEPT ![i] = "replied"]
      BY <1>1 DEF JoinInflight, LookupFinds, LookupFails, LockToCreate, Answer
    <2> QED
      BY <1>0, <2>1, <2>2 DEF TypeOK
  <1>2. ASSUME NEW i \in Ids, CreateRow(i) PROVE RowInv'
    <2>1. /\ crawls'[i].status = "pending"
          /\ \A j \in Ids \ {i} : crawls'[j] = crawls[j]
      BY <1>0, <1>2, StatusAfter, StatementsTouchOneRow
         DEF CreateRow, Executed, Fresh
    <2>2. /\ run' = run /\ run[i] = "none"
          /\ req' = [req EXCEPT ![i] = "registering"]
      BY <1>0, <1>2 DEF CreateRow, Unanswered, InCriticalSection
    <2> QED
      BY <1>0, <2>1, <2>2 DEF TypeOK
  <1>3. ASSUME NEW i \in Ids, CreateFails(i) PROVE RowInv'
    <2>1. \A j \in Ids \ {i} : crawls'[j] = crawls[j]
      BY <1>0, <1>3, StatementsTouchOneRow DEF CreateFails
    <2>2. /\ run' = run /\ run[i] = "none"
          /\ req' = [req EXCEPT ![i] = "replied"]
      BY <1>0, <1>3 DEF CreateFails, Answer, Unanswered, InCriticalSection
    <2> QED
      BY <1>0, <2>1, <2>2 DEF TypeOK
  <1>4. ASSUME NEW i \in Ids, Register(i) PROVE RowInv'
    <2>1. /\ crawls' = crawls
          /\ run' = [run EXCEPT ![i] = "markRunning"]
          /\ req' = [req EXCEPT ![i] = "replied"]
          /\ req[i] = "registering"
      BY <1>4 DEF Register, Answer, store
    <2> QED
      BY <1>0, <2>1 DEF TypeOK
  <1>5. ASSUME NEW i \in Ids, MarkRunning(i) PROVE RowInv'
    <2>1. \A j \in Ids \ {i} : crawls'[j] = crawls[j]
      BY <1>0, <1>5, StatementsTouchOneRow DEF MarkRunning
    <2>2. PICK o \in Undated :
             /\ UpdateStatus(i, "running", o)
             /\ Goto(i, IF Updates(i, o) THEN "discover" ELSE "markFailed")
      BY <1>5 DEF MarkRunning
    <2>3. /\ Executed(o) /\ Exists(i) => crawls'[i].status = "running"
          /\ ~(Executed(o) /\ Exists(i)) => crawls'[i] = crawls[i]
      BY <1>0, <2>2, StatusAfter
    <2>4. crawls'[i].status \in {"absent", "pending", "running"}
      BY <1>5, <2>3 DEF MarkRunning
    <2>5. Updates(i, o) => crawls'[i].status = "running"
      BY <2>3 DEF Updates, Executed
    <2>6. req' = req /\ req[i] \notin Unanswered
      BY <1>0, <1>5 DEF MarkRunning, requests
    <2> QED
      BY <1>0, <2>1, <2>2, <2>4, <2>5, <2>6
         DEF TypeOK, Goto, Unanswered, InCriticalSection
  <1>6. ASSUME NEW i \in Ids,
               Discover(i) \/ DiscoverFails(i) \/ Dispatch(i) \/ InsertPages(i)
                   \/ CompleteTooLate(i) \/ Release(i)
        PROVE  RowInv'
    <2>1. crawls' = crawls /\ req' = req
      BY <1>6 DEF Discover, DiscoverFails, Dispatch, InsertPages, BulkInsert,
                  CompleteTooLate, Release, store, requests
    <2>2. \/ run[i] \in {"discover", "dispatch", "bulkInsert", "complete"}
             /\ \E s \in {"dispatch", "bulkInsert", "complete", "markFailed", "release"} :
                   run' = [run EXCEPT ![i] = s]
          \/ run' = [run EXCEPT ![i] = "done"]
      BY <1>6 DEF Discover, DiscoverFails, Dispatch, InsertPages,
                  CompleteTooLate, Release, Goto
    <2> QED
      BY <1>0, <2>1, <2>2 DEF TypeOK
  <1>7. ASSUME NEW i \in Ids, Complete(i) \/ MarkFailed(i) PROVE RowInv'
    <2>1. \A j \in Ids \ {i} : crawls'[j] = crawls[j]
      BY <1>0, <1>7, StatementsTouchOneRow DEF Complete, MarkFailed
    <2>2. /\ req' = req /\ req[i] \notin Unanswered
          /\ run' = [run EXCEPT ![i] = "release"]
      BY <1>0, <1>7 DEF Complete, MarkFailed, requests, Goto
    <2> QED
      BY <1>0, <2>1, <2>2 DEF TypeOK, Unanswered, InCriticalSection
  <1>8. ASSUME NEW i \in Ids, DeleteCrawl(i) PROVE RowInv'
    <2>1. /\ crawls'[i].status = "absent"
          /\ \A j \in Ids \ {i} : crawls'[j] = crawls[j]
      BY <1>0, <1>8, StatusAfter, StatementsTouchOneRow
         DEF DeleteCrawl, NoRow, Fresh
    <2>2. UNCHANGED <<req, run>>
      BY <1>8 DEF DeleteCrawl, requests
    <2> QED
      BY <2>1, <2>2
  <1>9. CASE Restart
    <2>1. /\ crawls' = crawls
          /\ \A i \in Ids : req'[i] \in {"new", "replied", "aborted"}
          /\ \A i \in Ids : req'[i] = "new" => req[i] = "new"
          /\ \A i \in Ids : run'[i] \in NotRunning
      BY <1>9 DEF Restart, store, Active, NotRunning
    <2> QED
      BY <2>1 DEF NotRunning
  <1>10. CASE UNCHANGED vars
    BY <1>10 DEF vars
  <1> QED
    BY <1>1, <1>2, <1>3, <1>4, <1>5, <1>6, <1>7, <1>8, <1>9, <1>10
       DEF Next, Request, RunCrawl

(* The one row a step changes goes forward.                                  *)
LEMMA StepsGoForward ==
    ASSUME Inv, [Next]_vars
    PROVE  RowLifecycle
  <1> USE DEF Inv, RowInv, RowLifecycle
  <1>1. CASE crawls' = crawls
    BY <1>1
  <1>2. ASSUME NEW i \in Ids, CreateRow(i) \/ CreateFails(i) PROVE RowLifecycle
    <2>1. /\ \A j \in Ids \ {i} : crawls'[j] = crawls[j]
          /\ crawls'[i] = crawls[i] \/ crawls'[i].status = "pending"
      BY <1>2, StatementsTouchOneRow, StatusAfter DEF CreateRow, CreateFails, Fresh
    <2> QED
      BY <1>2, <2>1 DEF CreateRow, CreateFails
  <1>3. ASSUME NEW i \in Ids, MarkRunning(i) PROVE RowLifecycle
    <2>1. /\ \A j \in Ids \ {i} : crawls'[j] = crawls[j]
          /\ \/ crawls'[i] = crawls[i]
             \/ Exists(i) /\ crawls'[i].status = "running"
      BY <1>3, StatementsTouchOneRow, StatusAfter DEF MarkRunning
    <2> QED
      BY <1>3, <2>1 DEF MarkRunning, Exists
  <1>4. ASSUME NEW i \in Ids, Complete(i) PROVE RowLifecycle
    <2>1. /\ \A j \in Ids \ {i} : crawls'[j] = crawls[j]
          /\ \/ crawls'[i] = crawls[i]
             \/ Exists(i) /\ crawls'[i].status = FinalStatus(results[i])
      BY <1>4, StatementsTouchOneRow, StatusAfter DEF Complete
    <2>2. FinalStatus(results[i]) \in Terminal
      BY DEF FinalStatus, Terminal
    <2> QED
      BY <1>4, <2>1, <2>2 DEF Complete, Exists
  <1>5. ASSUME NEW i \in Ids, MarkFailed(i) PROVE RowLifecycle
    <2>1. /\ \A j \in Ids \ {i} : crawls'[j] = crawls[j]
          /\ \/ crawls'[i] = crawls[i]
             \/ Exists(i) /\ crawls'[i].status = "failed"
      BY <1>5, StatementsTouchOneRow, StatusAfter DEF MarkFailed
    <2> QED
      BY <1>5, <2>1 DEF MarkFailed, Exists, Terminal
  <1>6. ASSUME NEW i \in Ids, DeleteCrawl(i) PROVE RowLifecycle
    <2>1. /\ \A j \in Ids \ {i} : crawls'[j] = crawls[j]
          /\ crawls'[i].status = "absent"
      BY <1>6, StatementsTouchOneRow, StatusAfter DEF DeleteCrawl, NoRow, Fresh
    <2> QED
      BY <2>1
  <1>7. ASSUME NEW i \in Ids,
               JoinInflight(i) \/ LookupFinds(i) \/ LookupFails(i) \/ LockToCreate(i)
                 \/ Register(i) \/ Discover(i) \/ DiscoverFails(i) \/ Dispatch(i)
                 \/ InsertPages(i) \/ CompleteTooLate(i) \/ Release(i)
        PROVE  crawls' = crawls
    BY <1>7 DEF JoinInflight, LookupFinds, LookupFails, LockToCreate, Register,
                Discover, DiscoverFails, Dispatch, InsertPages, BulkInsert,
                CompleteTooLate, Release, store
  <1>8. Restart \/ UNCHANGED vars => crawls' = crawls
    BY DEF Restart, vars, store
  <1> QED
    BY <1>1, <1>2, <1>3, <1>4, <1>5, <1>6, <1>7, <1>8 DEF Next, Request, RunCrawl

-----------------------------------------------------------------------------
(* Types.  The counts of a row are numbers because a run has finitely many   *)
(* results.                                                                  *)
LEMMA NextResultsInv ==
    ASSUME Inv, [Next]_vars
    PROVE  ResultsInv'
  <1> USE DEF ResultsInv
  <1>1. ASSUME NEW i \in Ids, Dispatch(i) PROVE ResultsInv'
    <2>1. PICK kind \in [urls[i] -> Kinds] :
             results' = [results EXCEPT ![i] =
                 {[crawl |-> i, url |-> u, kind |-> kind[u]] : u \in urls[i]}]
      BY <1>1 DEF Dispatch
    <2> DEFINE T == {[crawl |-> i, url |-> u, kind |-> kind[u]] : u \in urls[i]}
               f == [u \in urls[i] |-> [crawl |-> i, url |-> u, kind |-> kind[u]]]
    <2>2. IsFiniteSet(urls[i])
      BY StoreAssumption, FS_Subset DEF Inv, TypeOK
    <2>3. f \in Surjection(urls[i], T)
      BY DEF Surjection
    <2>4. IsFiniteSet(T)
      BY <2>2, <2>3, FS_Surjection
    <2> QED
      BY <2>1, <2>4 DEF Inv, TypeOK
  <1>2. ASSUME NEW i \in Ids, Release(i) PROVE ResultsInv'
    BY <1>2, FS_EmptySet DEF Inv, TypeOK, Release
  <1>3. CASE Restart
    BY <1>3, FS_EmptySet DEF Restart
  <1>4. CASE results' = results
    BY <1>4 DEF Inv
  <1>5. ASSUME NEW i \in Ids, Request(i) \/ DeleteCrawl(i) PROVE results' = results
    BY <1>5 DEF Request, JoinInflight, LookupFinds, LookupFails, LockToCreate,
                CreateRow, CreateFails, Register, DeleteCrawl, locals
  <1>6. ASSUME NEW i \in Ids, RunGoesOn(i), ~Dispatch(i) PROVE results' = results
    BY <1>6 DEF RunGoesOn, MarkRunning, Discover, DiscoverFails, InsertPages,
                Complete, CompleteTooLate, MarkFailed, locals
  <1> QED
    BY <1>1, <1>2, <1>3, <1>4, <1>5, <1>6 DEF Next, RunCrawl, RunGoesOn, vars

\* Counting a finite set of pages gives natural numbers.
LEMMA Counts ==
    ASSUME NEW rows, IsFiniteSet(rows)
    PROVE  Cardinality(rows) \in Nat /\ Success(rows) \in Nat /\ Failed(rows) \in Nat
  <1> DEFINE good == {p \in rows : Succeeded(p)}
             bad == {p \in rows : ~Succeeded(p)}
  <1>1. IsFiniteSet(good) /\ IsFiniteSet(bad)
    <2>1. good \in SUBSET rows /\ bad \in SUBSET rows
      OBVIOUS
    <2> QED
      BY <2>1, FS_Subset
  <1> QED
    BY <1>1, FS_CardinalityType DEF Success, Failed

\* No statement breaks a type or a CHECK of the tables.
LEMMA StatementsKeepTypes ==
    ASSUME StoreTypeOK, NEW i \in Ids, NEW o
    PROVE  /\ InsertCrawl(i, o) => StoreTypeOK'
           /\ UpdateStatus(i, "running", o) => StoreTypeOK'
           /\ \A s \in Terminal, t, m, n \in Nat :
                 CompleteCrawl(i, s, t, m, n, o) => StoreTypeOK'
           /\ DeleteRow(i) => StoreTypeOK'
           /\ \A rows \in SUBSET Page : BulkInsert(rows, o) => StoreTypeOK'
  <1> USE DEF StoreTypeOK, Row, Open, Terminal
  <1>1. InsertCrawl(i, o) => StoreTypeOK'
    BY DEF InsertCrawl, Fresh
  <1>2. UpdateStatus(i, "running", o) => StoreTypeOK'
    BY DEF UpdateStatus
  <1>3. ASSUME NEW s \in Terminal, NEW t \in Nat, NEW m \in Nat, NEW n \in Nat,
               CompleteCrawl(i, s, t, m, n, o)
        PROVE  StoreTypeOK'
    BY <1>3 DEF CompleteCrawl
  <1>4. DeleteRow(i) => StoreTypeOK'
    BY DEF DeleteRow, NoRow, Fresh
  <1>5. \A rows \in SUBSET Page : BulkInsert(rows, o) => StoreTypeOK'
    BY DEF BulkInsert
  <1> QED
    BY <1>1, <1>2, <1>3, <1>4, <1>5

\* Every step keeps the types of the tables.
LEMMA NextStoreTypeOK ==
    ASSUME Inv, [Next]_vars
    PROVE  StoreTypeOK'
  <1>0. StoreTypeOK /\ results \in [Ids -> SUBSET Page]
    BY DEF Inv, TypeOK
  <1>1. ASSUME NEW i \in Ids, CreateRow(i) \/ CreateFails(i) \/ MarkRunning(i)
                                \/ DeleteCrawl(i) \/ InsertPages(i)
        PROVE  StoreTypeOK'
    BY <1>0, <1>1, StatementsKeepTypes
       DEF CreateRow, CreateFails, MarkRunning, DeleteCrawl, InsertPages
  <1>2. ASSUME NEW i \in Ids, Complete(i) PROVE StoreTypeOK'
    <2>1. FinalStatus(results[i]) \in Terminal
      BY DEF FinalStatus, Terminal
    <2>2. /\ Cardinality(results[i]) \in Nat
          /\ Success(results[i]) \in Nat
          /\ Failed(results[i]) \in Nat
      BY Counts DEF Inv, ResultsInv
    <2> QED
      BY <1>0, <1>2, <2>1, <2>2, StatementsKeepTypes DEF Complete
  <1>3. ASSUME NEW i \in Ids, MarkFailed(i) PROVE StoreTypeOK'
    <2>1. "failed" \in Terminal
      BY DEF Terminal
    <2> QED
      BY <1>0, <1>3, <2>1, StatementsKeepTypes DEF MarkFailed
  <1>4. ASSUME UNCHANGED store PROVE StoreTypeOK'
    BY <1>0, <1>4 DEF StoreTypeOK, store
  <1>5. ASSUME NEW i \in Ids,
               JoinInflight(i) \/ LookupFinds(i) \/ LookupFails(i) \/ LockToCreate(i)
                 \/ Register(i) \/ Discover(i) \/ DiscoverFails(i) \/ Dispatch(i)
                 \/ CompleteTooLate(i) \/ Release(i)
        PROVE  UNCHANGED store
    BY <1>5 DEF JoinInflight, LookupFinds, LookupFails, LockToCreate, Register,
                Discover, DiscoverFails, Dispatch, CompleteTooLate, Release, store
  <1>6. Restart \/ UNCHANGED vars => UNCHANGED store
    BY DEF Restart, vars, store
  <1> QED
    BY <1>1, <1>2, <1>3, <1>4, <1>5, <1>6 DEF Next, Request, RunCrawl

\* Every step keeps all types.
LEMMA NextTypeOK ==
    ASSUME Inv, [Next]_vars
    PROVE  TypeOK'
  <1>0. StoreTypeOK'
    BY NextStoreTypeOK
  <1> USE DEF TypeOK, InCriticalSection, NotRunning, Open, Terminal, shared, requests, locals
  <1>1. ASSUME NEW i \in Ids, JoinInflight(i) PROVE TypeOK'
    BY <1>0, <1>1 DEF Inv, JoinInflight
  <1>2. ASSUME NEW i \in Ids, LookupFinds(i) PROVE TypeOK'
    <2>1. existing[i] \in Ids
      BY <1>2 DEF Inv, LookupInv, LookupFinds
    <2>2. crawls[existing[i]].status \in Open \cup Terminal
      BY <1>2, <2>1 DEF Inv, LookupFinds, Exists, StoreTypeOK, Row
    <2> QED
      BY <1>0, <1>2, <2>1, <2>2 DEF Inv, LookupFinds, Answer
  <1>3. ASSUME NEW i \in Ids, LookupFails(i) \/ CreateFails(i) PROVE TypeOK'
    BY <1>0, <1>3 DEF Inv, LookupFails, CreateFails, Answer
  <1>10. ASSUME NEW i \in Ids, LockToCreate(i) \/ CreateRow(i) PROVE TypeOK'
    BY <1>0, <1>10 DEF Inv, LockToCreate, CreateRow
  <1>11. ASSUME NEW i \in Ids, Register(i) PROVE TypeOK'
    BY <1>0, <1>11 DEF Inv, Register, Answer
  <1>4. ASSUME NEW i \in Ids, MarkRunning(i) \/ DiscoverFails(i) \/ InsertPages(i)
                  \/ Complete(i) \/ CompleteTooLate(i) \/ MarkFailed(i) \/ Release(i)
        PROVE  TypeOK'
    BY <1>0, <1>4 DEF Inv, MarkRunning, DiscoverFails, InsertPages, Complete,
                      CompleteTooLate, MarkFailed, Release, Goto
  <1>5. ASSUME NEW i \in Ids, Discover(i) PROVE TypeOK'
    <2>1. PICK kept \in SUBSET URLs : urls' = [urls EXCEPT ![i] = kept]
      BY <1>5, ServiceAssumption DEF Discover
    <2> QED
      BY <1>0, <1>5, <2>1 DEF Inv, Discover, Goto
  <1>6. ASSUME NEW i \in Ids, Dispatch(i) PROVE TypeOK'
    <2>1. PICK kind \in [urls[i] -> Kinds] :
             results' = [results EXCEPT ![i] =
                 {[crawl |-> i, url |-> u, kind |-> kind[u]] : u \in urls[i]}]
      BY <1>6 DEF Dispatch
    <2>2. {[crawl |-> i, url |-> u, kind |-> kind[u]] : u \in urls[i]} \in SUBSET Page
      BY DEF Inv, Page
    <2> QED
      BY <1>0, <1>6, <2>1, <2>2 DEF Inv, Dispatch, Goto
  <1>7. ASSUME NEW i \in Ids, DeleteCrawl(i) PROVE TypeOK'
    BY <1>0, <1>7 DEF Inv, DeleteCrawl
  <1>8. CASE Restart
    <2>1. /\ \A i \in Ids : req'[i] \in {"new", "replied", "aborted"}
          /\ \A i \in Ids : run'[i] \in NotRunning
      BY <1>8 DEF Restart, Active
    <2> QED
      BY <1>0, <1>8, <2>1 DEF Inv, Restart
  <1>9. CASE UNCHANGED vars
    BY <1>0, <1>9 DEF Inv, vars
  <1> QED
    BY <1>1, <1>2, <1>3, <1>4, <1>5, <1>6, <1>7, <1>8, <1>9, <1>10, <1>11
       DEF Next, Request, RunCrawl

\* Inv holds when the process starts with empty tables.
LEMMA InitInv == Init => Inv
  <1> SUFFICES ASSUME Init PROVE Inv
    OBVIOUS
  <1> USE DEF Init
  <1>1. StoreTypeOK
    BY DEF StoreInit, StoreTypeOK, NoRow, Fresh, Row, Open, Terminal
  <1>2. TypeOK
    <2>1. reply \in [Ids -> [code : {0, 201, 202, 500}, crawl : Ids \cup {None},
                             status : Open \cup Terminal \cup {"absent"}]]
      BY DEF NoReply
    <2> QED
      BY <1>1, <2>1 DEF TypeOK, NotRunning, InCriticalSection
  <1>3. ResultsInv
    BY FS_EmptySet DEF ResultsInv
  <1>4. LockInv
    BY ServiceAssumption DEF LockInv, InCriticalSection, Unanswered
  <1>5. InflightTracksRuns
    BY ServiceAssumption DEF InflightTracksRuns, Active, NotRunning
  <1>6. LookupInv /\ RepliesNameTheRightCrawl
    BY DEF LookupInv, RepliesNameTheRightCrawl, NoReply
  <1>7. RowInv
    BY DEF RowInv, StoreInit, NoRow, Fresh
  <1> QED
    BY <1>2, <1>3, <1>4, <1>5, <1>6, <1>7 DEF Inv

(* Inv is inductive.                                                         *)
THEOREM Invariance == Spec => []Inv
  <1>1. Inv /\ [Next]_vars => Inv'
    BY NextTypeOK, NextResultsInv, NextLockInv, NextInflightTracksRuns,
       NextRequests, NextRowInv
       DEF Inv
  <1> QED
    BY InitInv, <1>1, PTL DEF Spec

-----------------------------------------------------------------------------

\* Every variable of the service and the tables keeps its type, the CHECK
\* constraint on the status included.
THEOREM TypeCorrect == Spec => []TypeOK
  BY Invariance, PTL DEF Inv

\* The inflight map has an entry exactly for the runs that have not ended.
THEOREM InflightIsExact == Spec => []InflightTracksRuns
  BY Invariance, PTL DEF Inv

\* No website is crawled twice at the same time, however many requests and
\* websites there are, whatever fails, and across restarts.
THEOREM OneRunAtATime == Spec => []OneRunPerWebsite
  <1>1. Inv => OneRunPerWebsite
    BY DEF Inv, TypeOK, InflightTracksRuns, OneRunPerWebsite
  <1> QED
    BY <1>1, Invariance, PTL

\* A request is never told of the crawl of another website.
THEOREM RepliesAreRight == Spec => []RepliesNameTheRightCrawl
  BY Invariance, PTL DEF Inv

\* The status a client polls only goes forward, and a deleted row stays
\* deleted although its run goes on.
THEOREM StatusOnlyGoesForward == Spec => RowsNeverGoBack
  <1>1. Inv /\ [Next]_vars => [RowLifecycle]_vars
    BY StepsGoForward
  <1> QED
    BY <1>1, Invariance, PTL DEF Spec, RowsNeverGoBack
=============================================================================
