------------------------- MODULE CrawlTablesProofs -------------------------
(***************************************************************************)
(* What the two tables say, for any requests, websites, pages and faults:  *)
(* rows are consistent, and pages agree with them.  Then who is at work on *)
(* an open row, while statements are executed; and what others see of the  *)
(* tables is what CrawlLifecycle promises.                                 *)
(***************************************************************************)
EXTENDS CrawlServiceProofs

(* What a run hands on: some pages, not too many, and only its own.          *)
Allowed(S) ==
    /\ S # {}
    /\ MaxPages > 0 => Cardinality(S) <= MaxPages

RunsInv ==
    \A i \in Ids :
        /\ \A p \in results[i] : p.crawl = i
        /\ run[i] = "dispatch" => Allowed(urls[i])
        /\ run[i] \in {"bulkInsert", "complete"} => Allowed(results[i])

(* A crawl has no pages before its run has stored them, and then those the   *)
(* final row is about to count.                                              *)
PagesInv ==
    \A i \in Ids :
        /\ run[i] \notin {"complete", "release", "done", "killed"} => PagesOf(i) = {}
        /\ run[i] = "complete" => PagesOf(i) \in {{}, results[i]}

TablesInv == Inv /\ RunsInv /\ PagesInv /\ RowsConsistent /\ PagesMatchRow

-----------------------------------------------------------------------------
(* Lemmas on cardinalities.                                                  *)

LEMMA SuccessPlusFailed ==
    ASSUME NEW rows, IsFiniteSet(rows)
    PROVE  Cardinality(rows) = Success(rows) + Failed(rows)
  <1> DEFINE good == {p \in rows : Succeeded(p)}
             bad == {p \in rows : ~Succeeded(p)}
  <1>1. good \in SUBSET rows /\ bad \in SUBSET rows
    OBVIOUS
  <1>2. IsFiniteSet(good) /\ IsFiniteSet(bad)
    BY <1>1, FS_Subset
  <1>3. good \cup bad = rows /\ good \cap bad = {}
    OBVIOUS
  <1>4. Cardinality(good \cup bad)
            = Cardinality(good) + Cardinality(bad) - Cardinality(good \cap bad)
    BY <1>2, FS_Union
  <1>5. Cardinality(good) \in Nat /\ Cardinality(bad) \in Nat /\ Cardinality({}) = 0
    BY <1>2, FS_CardinalityType, FS_EmptySet
  <1> HIDE DEF good, bad
  <1>6. Cardinality(rows) = Cardinality(good) + Cardinality(bad) - Cardinality({})
    BY <1>3, <1>4
  <1>7. Cardinality(rows) = Cardinality(good) + Cardinality(bad)
    BY <1>5, <1>6
  <1> QED
    BY <1>7 DEF Success, Failed, good, bad

(* What is left of a list cut off at MaxPages is allowed.                    *)
LEMMA CutOff ==
    ASSUME NEW S \in SUBSET URLs, S # {}, NEW kept \in SUBSET S,
           Cardinality(kept) = Limit(Cardinality(S))
    PROVE  Allowed(kept)
  <1>1. IsFiniteSet(S) /\ IsFiniteSet(kept)
    BY StoreAssumption, FS_Subset
  <1>2. Cardinality(S) \in Nat /\ Cardinality(S) # 0
    BY <1>1, FS_CardinalityType, FS_EmptySet
  <1>3. Cardinality(kept) # 0 /\ (MaxPages > 0 => Cardinality(kept) <= MaxPages)
    BY <1>2, ServiceAssumption DEF Limit
  <1> QED
    BY <1>3, FS_EmptySet DEF Allowed

\* One result for each URL of an allowed set is an allowed set of pages.
LEMMA ResultsAllowed ==
    ASSUME NEW i \in Ids, NEW S \in SUBSET URLs, Allowed(S), NEW kind \in [S -> Kinds]
    PROVE  Allowed({[crawl |-> i, url |-> u, kind |-> kind[u]] : u \in S})
  <1> DEFINE T == {[crawl |-> i, url |-> u, kind |-> kind[u]] : u \in S}
             f == [u \in S |-> [crawl |-> i, url |-> u, kind |-> kind[u]]]
  <1>1. IsFiniteSet(S)
    BY StoreAssumption, FS_Subset
  <1>2. f \in Surjection(S, T)
    BY DEF Surjection
  <1>3. IsFiniteSet(T) /\ Cardinality(T) <= Cardinality(S)
    BY <1>1, <1>2, FS_Surjection
  <1>4. Cardinality(S) \in Nat /\ Cardinality(T) \in Nat
    BY <1>1, <1>3, FS_CardinalityType
  <1>5. T # {}
    BY DEF Allowed
  <1> QED
    BY <1>3, <1>4, <1>5, ServiceAssumption DEF Allowed

-----------------------------------------------------------------------------
\* Every step keeps a run's results its own and within the limit.
LEMMA NextRunsInv ==
    ASSUME TablesInv, [Next]_vars
    PROVE  RunsInv'
  <1> USE DEF RunsInv
  <1>0. TypeOK /\ RunsInv
    BY DEF TablesInv, Inv
  <1>1. ASSUME NEW i \in Ids, Discover(i) PROVE RunsInv'
    <2>1. PICK found \in SUBSET URLs :
             \E kept \in SUBSET (IF found = {} THEN {Root} ELSE found) :
                /\ Cardinality(kept) = Limit(Cardinality(IF found = {} THEN {Root} ELSE found))
                /\ urls' = [urls EXCEPT ![i] = kept]
      BY <1>1 DEF Discover
    <2> DEFINE listed == IF found = {} THEN {Root} ELSE found
    <2>2. listed \in SUBSET URLs /\ listed # {}
      BY ServiceAssumption
    <2>3. PICK kept \in SUBSET listed :
             /\ Cardinality(kept) = Limit(Cardinality(listed))
             /\ urls' = [urls EXCEPT ![i] = kept]
      BY <2>1
    <2> HIDE DEF listed
    <2>4. Allowed(kept)
      BY <2>2, <2>3, CutOff
    <2>5. results' = results /\ run' = [run EXCEPT ![i] = "dispatch"]
      BY <1>1 DEF Discover, Goto
    <2> QED
      BY <1>0, <2>3, <2>4, <2>5 DEF TypeOK, Allowed
  <1>2. ASSUME NEW i \in Ids, Dispatch(i) PROVE RunsInv'
    <2>1. PICK kind \in [urls[i] -> Kinds] :
             results' = [results EXCEPT ![i] =
                 {[crawl |-> i, url |-> u, kind |-> kind[u]] : u \in urls[i]}]
      BY <1>2 DEF Dispatch
    <2> DEFINE T == {[crawl |-> i, url |-> u, kind |-> kind[u]] : u \in urls[i]}
    <2>2. Allowed(T)
      BY <1>0, <1>2, ResultsAllowed DEF Dispatch, TypeOK
    <2>3. \A p \in T : p.crawl = i
      OBVIOUS
    <2> HIDE DEF T
    <2>4. urls' = urls /\ run' = [run EXCEPT ![i] = "bulkInsert"]
      BY <1>2 DEF Dispatch, Goto
    <2> QED
      BY <1>0, <2>1, <2>2, <2>3, <2>4 DEF TypeOK, Allowed, T
  <1>3. ASSUME NEW i \in Ids, Release(i) PROVE RunsInv'
    BY <1>0, <1>3 DEF Release, TypeOK, Allowed
  <1>4. CASE Restart
    BY <1>4 DEF Restart, Active, NotRunning
  <1>5. ASSUME NEW i \in Ids,
               MarkRunning(i) \/ DiscoverFails(i) \/ InsertPages(i)
                 \/ Complete(i) \/ CompleteTooLate(i) \/ MarkFailed(i)
        PROVE  RunsInv'
    <2>1. UNCHANGED <<urls, results>>
      BY <1>5 DEF MarkRunning, DiscoverFails, InsertPages, Complete,
                  CompleteTooLate, MarkFailed, locals
    <2>2. \/ \E s \in {"discover", "markFailed", "release"} : run' = [run EXCEPT ![i] = s]
          \/ run[i] = "bulkInsert" /\ run' = [run EXCEPT ![i] = "complete"]
      BY <1>5 DEF MarkRunning, DiscoverFails, InsertPages, Complete,
                  CompleteTooLate, MarkFailed, Goto
    <2> QED
      BY <1>0, <2>1, <2>2 DEF TypeOK, Allowed
  <1>6. ASSUME NEW i \in Ids, Request(i) \/ DeleteCrawl(i) PROVE RunsInv'
    <2>1. UNCHANGED <<urls, results>>
      BY <1>6 DEF Request, JoinInflight, LookupFinds, LookupFails, LockToCreate,
                  CreateRow, CreateFails, Register, DeleteCrawl, locals
    <2>2. run' = run \/ run' = [run EXCEPT ![i] = "markRunning"]
      BY <1>6 DEF Request, JoinInflight, LookupFinds, LookupFails, LockToCreate,
                  CreateRow, CreateFails, Register, DeleteCrawl
    <2> QED
      BY <1>0, <2>1, <2>2 DEF TypeOK, Allowed
  <1>7. CASE UNCHANGED vars
    BY <1>0, <1>7 DEF vars, Allowed
  <1> QED
    BY <1>1, <1>2, <1>3, <1>4, <1>5, <1>6, <1>7 DEF Next, RunCrawl

-----------------------------------------------------------------------------
(* The steps that leave a table alone.                                       *)
LEMMA PagesUntouched ==
    ASSUME NEW i \in Ids,
           Request(i) \/ RunCrawl(i) \/ Restart \/ UNCHANGED vars, ~InsertPages(i)
    PROVE  pages' = pages
  BY DEF Request, RunCrawl, JoinInflight, LookupFinds, LookupFails, LockToCreate,
         CreateRow, CreateFails, Register, InsertCrawl, MarkRunning, UpdateStatus,
         Discover, DiscoverFails, Dispatch, Complete, CompleteTooLate, MarkFailed,
         CompleteCrawl, Release, Restart, store, vars

\* Steps without a statement on crawls leave every row as it is.
LEMMA RowsUntouched ==
    ASSUME NEW i \in Ids,
           \/ JoinInflight(i) \/ LookupFinds(i) \/ LookupFails(i) \/ LockToCreate(i)
           \/ Register(i) \/ Discover(i) \/ DiscoverFails(i) \/ Dispatch(i)
           \/ InsertPages(i) \/ CompleteTooLate(i) \/ Release(i)
           \/ Restart \/ UNCHANGED vars
    PROVE  crawls' = crawls
  BY DEF JoinInflight, LookupFinds, LookupFails, LockToCreate, Register, Discover,
         DiscoverFails, Dispatch, InsertPages, BulkInsert, CompleteTooLate, Release,
         Restart, store, vars

(* The COPY of a run adds its results or nothing, a deletion takes the pages *)
(* of its row: neither touches those of another crawl.                       *)
LEMMA PagesAfterInsert ==
    ASSUME TablesInv, NEW i \in Ids, InsertPages(i)
    PROVE  /\ PagesOf(i)' \in {{}, results[i]}
           /\ \A j \in Ids \ {i} : PagesOf(j)' = PagesOf(j)
           /\ \A p \in pages' \ pages : Exists(p.crawl)
  <1>0. PICK o \in Outcomes : BulkInsert(results[i], o)
    BY DEF InsertPages
  <1>1. \/ pages' = pages
        \/ pages' = pages \cup results[i] /\ Accepts(results[i])
    BY <1>0 DEF BulkInsert
  <1>2. PagesOf(i) = {} /\ \A p \in results[i] : p.crawl = i
    BY DEF TablesInv, PagesInv, RunsInv, InsertPages
  <1> QED
    BY <1>1, <1>2 DEF PagesOf, Accepts

\* ON DELETE CASCADE takes the pages of the deleted crawl and no others.
LEMMA PagesAfterDelete ==
    ASSUME NEW i \in Ids, DeleteCrawl(i)
    PROVE  /\ PagesOf(i)' = {}
           /\ \A j \in Ids \ {i} : PagesOf(j)' = PagesOf(j)
  BY DEF DeleteCrawl, DeleteRow, PagesOf

\* Every step keeps stored pages to those of the run that stored them.
LEMMA NextPagesInv ==
    ASSUME TablesInv, [Next]_vars
    PROVE  PagesInv'
  <1>0. TypeOK /\ PagesInv /\ \A i \in Ids : req[i] \in Unanswered => run[i] = "none"
    BY DEF TablesInv, Inv, LockInv
  <1>1. ASSUME NEW i \in Ids, InsertPages(i) PROVE PagesInv'
    <2>1. results' = results /\ run' = [run EXCEPT ![i] = "complete"]
      BY <1>1 DEF InsertPages, Goto
    <2> QED
      BY <1>0, <1>1, <2>1, PagesAfterInsert DEF PagesInv, TypeOK
  <1>2. ASSUME NEW i \in Ids, DeleteCrawl(i) PROVE PagesInv'
    <2>1. results' = results /\ run' = run
      BY <1>2 DEF DeleteCrawl, locals
    <2> QED
      BY <1>0, <1>2, <2>1, PagesAfterDelete DEF PagesInv
  <1>3. ASSUME NEW i \in Ids, Request(i) PROVE PagesInv'
    <2>1. results' = results
      BY <1>3 DEF Request, JoinInflight, LookupFinds, LookupFails, LockToCreate,
                  CreateRow, CreateFails, Register, locals
    <2>2. \/ run' = run
          \/ run' = [run EXCEPT ![i] = "markRunning"] /\ run[i] = "none"
      BY <1>0, <1>3 DEF Request, JoinInflight, LookupFinds, LookupFails, LockToCreate,
                  CreateRow, CreateFails, Register, Unanswered, InCriticalSection
    <2>3. pages' = pages
      BY <1>3, PagesUntouched DEF Request, InsertPages, JoinInflight, LookupFinds,
         LookupFails, LockToCreate, CreateRow, CreateFails, Register, InsertCrawl, store
    <2> QED
      BY <1>0, <2>1, <2>2, <2>3 DEF PagesInv, PagesOf, TypeOK
  <1>4. ASSUME NEW i \in Ids, RunCrawl(i), ~InsertPages(i) PROVE PagesInv'
    <2>1. pages' = pages
      BY <1>4, PagesUntouched
    <2>2. \A j \in Ids \ {i} : run'[j] = run[j] /\ results'[j] = results[j]
      BY <1>0, <1>4 DEF RunCrawl, MarkRunning, Discover, DiscoverFails, Dispatch,
         Complete, CompleteTooLate, MarkFailed, Release, Goto, locals, TypeOK
    <2>3. /\ run'[i] # "complete"
          /\ run[i] \in {"complete", "release", "done", "killed"} =>
                run'[i] \in {"release", "done"}
          /\ run'[i] \in {"release", "done", "killed"} \/ PagesOf(i) = {}
      BY <1>0, <1>4 DEF RunCrawl, MarkRunning, Discover, DiscoverFails, Dispatch,
         Complete, CompleteTooLate, MarkFailed, Release, Goto, TypeOK, PagesInv
    <2> QED
      BY <1>0, <2>1, <2>2, <2>3 DEF PagesInv, PagesOf
  <1>5. CASE Restart
    <2>1. \A i \in Ids : /\ run'[i] \in NotRunning
                         /\ run'[i] = "none" => run[i] = "none"
      BY <1>5 DEF Restart, Active, NotRunning
    <2> QED
      BY <1>0, <1>5, <2>1 DEF PagesInv, PagesOf, NotRunning, Restart, store
  <1>6. CASE UNCHANGED vars
    BY <1>0, <1>6 DEF vars, PagesInv, PagesOf
  <1> QED
    BY <1>1, <1>2, <1>3, <1>4, <1>5, <1>6 DEF Next

-----------------------------------------------------------------------------
\* Every step keeps status, counts and finished_at in agreement.
LEMMA NextRowsConsistent ==
    ASSUME TablesInv, [Next]_vars
    PROVE  RowsConsistent'
  <1> USE DEF RowsConsistent
  <1>0. TypeOK /\ RowsConsistent /\ RowInv
    BY DEF TablesInv, Inv
  <1>1. ASSUME NEW i \in Ids, CreateRow(i) \/ CreateFails(i) PROVE RowsConsistent'
    <2>1. \A j \in Ids \ {i} : crawls'[j] = crawls[j]
      BY <1>0, <1>1, StatementsTouchOneRow DEF CreateRow, CreateFails
    <2>2. crawls'[i] = crawls[i] \/ crawls'[i] = Fresh("pending")
      BY <1>0, <1>1, StatusAfter DEF CreateRow, CreateFails
    <2> QED
      BY <1>0, <2>1, <2>2, ServiceAssumption DEF Fresh, Open, Terminal
  <1>2. ASSUME NEW i \in Ids, MarkRunning(i) PROVE RowsConsistent'
    <2>1. \A j \in Ids \ {i} : crawls'[j] = crawls[j]
      BY <1>0, <1>2, StatementsTouchOneRow DEF MarkRunning
    <2>2. \/ crawls'[i] = crawls[i]
          \/ crawls'[i] = [crawls[i] EXCEPT !.status = "running"] /\ Exists(i)
      BY <1>0, <1>2 DEF MarkRunning, UpdateStatus, TypeOK, StoreTypeOK
    <2>3. crawls[i].status \in {"absent", "pending"} /\ crawls[i] \in Row
      BY <1>0, <1>2 DEF RowInv, MarkRunning, TypeOK, StoreTypeOK
    <2> QED
      BY <1>0, <2>1, <2>2, <2>3 DEF Exists, Open, Terminal, Row
  <1>3. ASSUME NEW i \in Ids, Complete(i) PROVE RowsConsistent'
    <2> DEFINE S == results[i]
    <2>1. \A j \in Ids \ {i} : crawls'[j] = crawls[j]
      BY <1>0, <1>3, StatementsTouchOneRow DEF Complete
    <2>2. \/ crawls'[i] = crawls[i]
          \/ crawls'[i] = [status |-> FinalStatus(S), total |-> Cardinality(S),
                           success |-> Success(S), failed |-> Failed(S), finished |-> TRUE]
      BY <1>0, <1>3 DEF Complete, CompleteCrawl, TypeOK, StoreTypeOK
    <2>3. /\ IsFiniteSet(S) /\ Allowed(S)
          /\ Success(S) \in Nat /\ Failed(S) \in Nat
          /\ Cardinality(S) = Success(S) + Failed(S)
      BY <1>3, Counts, SuccessPlusFailed
         DEF TablesInv, Inv, ResultsInv, RunsInv, Complete
    <2>4. Cardinality(S) # 0
      BY <2>3, FS_EmptySet DEF Allowed
    <2> HIDE DEF S
    <2> QED
      BY <1>0, <2>1, <2>2, <2>3, <2>4 DEF Allowed, FinalStatus, Open, Terminal
  <1>4. ASSUME NEW i \in Ids, MarkFailed(i) PROVE RowsConsistent'
    <2>1. \A j \in Ids \ {i} : crawls'[j] = crawls[j]
      BY <1>0, <1>4, StatementsTouchOneRow DEF MarkFailed
    <2>2. \/ crawls'[i] = crawls[i]
          \/ crawls'[i] = [status |-> "failed", total |-> 0, success |-> 0,
                           failed |-> 0, finished |-> TRUE]
      BY <1>0, <1>4 DEF MarkFailed, CompleteCrawl, TypeOK, StoreTypeOK
    <2> QED
      BY <1>0, <2>1, <2>2, ServiceAssumption DEF Open, Terminal
  <1>5. ASSUME NEW i \in Ids, DeleteCrawl(i) PROVE RowsConsistent'
    <2>1. /\ crawls'[i] = NoRow
          /\ \A j \in Ids \ {i} : crawls'[j] = crawls[j]
      BY <1>0, <1>5, StatusAfter, StatementsTouchOneRow DEF DeleteCrawl
    <2> QED
      BY <1>0, <2>1, ServiceAssumption DEF NoRow, Fresh, Open, Terminal
  <1>6. CASE crawls' = crawls
    BY <1>0, <1>6
  <1> QED
    BY <1>1, <1>2, <1>3, <1>4, <1>5, <1>6, RowsUntouched DEF Next, Request, RunCrawl

\* Every step keeps pages and counts in agreement.
LEMMA NextPagesMatchRow ==
    ASSUME TablesInv, [Next]_vars
    PROVE  PagesMatchRow'
  <1> USE DEF PagesMatchRow, Exists
  <1>0. TypeOK /\ PagesMatchRow /\ RowInv /\ pages \subseteq Page
    BY DEF TablesInv, Inv, TypeOK, StoreTypeOK
  <1>1. ASSUME NEW i \in Ids, CreateRow(i) \/ CreateFails(i) \/ MarkRunning(i)
        PROVE  PagesMatchRow'
    <2>1. \A j \in Ids \ {i} : crawls'[j] = crawls[j]
      BY <1>0, <1>1, StatementsTouchOneRow DEF CreateRow, CreateFails, MarkRunning
    <2>2. crawls'[i] = crawls[i] \/ crawls'[i].status \in Open
      BY <1>0, <1>1, StatusAfter DEF CreateRow, CreateFails, MarkRunning, Fresh, Open
    <2>3. pages' = pages
      BY <1>1 DEF CreateRow, CreateFails, MarkRunning, InsertCrawl, UpdateStatus
    <2> QED
      BY <1>0, <2>1, <2>2, <2>3 DEF PagesOf, Open, Terminal, Page
  <1>2. ASSUME NEW i \in Ids, Complete(i) PROVE PagesMatchRow'
    <2> DEFINE S == results[i]
    <2>1. \A j \in Ids \ {i} : crawls'[j] = crawls[j]
      BY <1>0, <1>2, StatementsTouchOneRow DEF Complete
    <2>2. \/ crawls'[i] = crawls[i]
          \/ crawls'[i] = [status |-> FinalStatus(S), total |-> Cardinality(S),
                           success |-> Success(S), failed |-> Failed(S), finished |-> TRUE]
      BY <1>0, <1>2 DEF Complete, CompleteCrawl, TypeOK, StoreTypeOK
    <2>3. PagesOf(i) \in {{}, S} /\ pages' = pages
      BY <1>2 DEF TablesInv, PagesInv, Complete, CompleteCrawl
    <2>4. FinalStatus(S) # "absent"
      BY DEF FinalStatus
    <2> HIDE DEF S
    <2>5. \A p \in pages' : Exists(p.crawl)'
      BY <1>0, <2>1, <2>2, <2>3, <2>4 DEF Page
    <2>6. \A j \in Ids : PagesOf(j)' = PagesOf(j)
      BY <2>3 DEF PagesOf
    <2>7. PagesOf(i) # {} /\ crawls'[i] # crawls[i] =>
             /\ Cardinality(PagesOf(i)) = crawls'[i].total
             /\ Success(PagesOf(i)) = crawls'[i].success
      BY <2>2, <2>3
    <2> QED
      BY <1>0, <2>1, <2>5, <2>6, <2>7
  <1>3. ASSUME NEW i \in Ids, MarkFailed(i) PROVE PagesMatchRow'
    <2>1. \A j \in Ids \ {i} : crawls'[j] = crawls[j]
      BY <1>0, <1>3, StatementsTouchOneRow DEF MarkFailed
    <2>2. crawls'[i] = crawls[i] \/ crawls'[i].status = "failed"
      BY <1>0, <1>3, StatusAfter DEF MarkFailed
    <2>3. PagesOf(i) = {} /\ pages' = pages
      BY <1>3 DEF TablesInv, PagesInv, MarkFailed, CompleteCrawl
    <2> QED
      BY <1>0, <2>1, <2>2, <2>3 DEF PagesOf, Page
  <1>4. ASSUME NEW i \in Ids, DeleteCrawl(i) PROVE PagesMatchRow'
    <2>1. \A j \in Ids \ {i} : crawls'[j] = crawls[j]
      BY <1>0, <1>4, StatementsTouchOneRow DEF DeleteCrawl
    <2>2. pages' = pages \ PagesOf(i)
      BY <1>4 DEF DeleteCrawl, DeleteRow
    <2> QED
      BY <1>0, <2>1, <2>2 DEF PagesOf, Page
  <1>5. ASSUME NEW i \in Ids, InsertPages(i) PROVE PagesMatchRow'
    <2>1. crawls' = crawls /\ crawls[i].status \notin Terminal
      BY <1>0, <1>5, RowsUntouched DEF InsertPages, RowInv, Terminal
    <2> QED
      BY <1>0, <1>5, <2>1, PagesAfterInsert
  <1>6. CASE UNCHANGED <<crawls, pages>>
    BY <1>0, <1>6 DEF PagesOf
  <1>7. ASSUME NEW i \in Ids,
               \/ JoinInflight(i) \/ LookupFinds(i) \/ LookupFails(i) \/ LockToCreate(i)
               \/ Register(i) \/ Discover(i) \/ DiscoverFails(i) \/ Dispatch(i)
               \/ CompleteTooLate(i) \/ Release(i)
        PROVE  UNCHANGED <<crawls, pages>>
    BY <1>7 DEF JoinInflight, LookupFinds, LookupFails, LockToCreate, Register,
       Discover, DiscoverFails, Dispatch, CompleteTooLate, Release, store
  <1>8. Restart \/ UNCHANGED vars => UNCHANGED <<crawls, pages>>
    BY DEF Restart, vars, store
  <1> QED
    BY <1>1, <1>2, <1>3, <1>4, <1>5, <1>6, <1>7, <1>8 DEF Next, Request, RunCrawl

\* TablesInv holds when the tables are empty.
LEMMA InitTables == Init => TablesInv
  <1> SUFFICES ASSUME Init PROVE TablesInv
    OBVIOUS
  <1>1. RunsInv /\ PagesInv
    BY DEF Init, StoreInit, RunsInv, PagesInv, PagesOf
  <1>2. RowsConsistent
    BY ServiceAssumption
       DEF Init, StoreInit, RowsConsistent, NoRow, Fresh, Open, Terminal
  <1>3. PagesMatchRow
    BY DEF Init, StoreInit, PagesMatchRow, PagesOf
  <1> QED
    BY InitInv, <1>1, <1>2, <1>3 DEF TablesInv

(* TablesInv is inductive.                                                   *)
LEMMA NextTables == TablesInv /\ [Next]_vars => TablesInv'
  <1> SUFFICES ASSUME TablesInv, [Next]_vars PROVE TablesInv'
    OBVIOUS
  <1>1. Inv'
    BY NextTypeOK, NextResultsInv, NextLockInv, NextInflightTracksRuns,
       NextRequests, NextRowInv
       DEF Inv, TablesInv
  <1> QED
    BY <1>1, NextRunsInv, NextPagesInv, NextRowsConsistent, NextPagesMatchRow
       DEF TablesInv

(* TablesInv holds in every state, with every kind of fault and restarts.    *)
THEOREM TablesInvariance == Spec => []TablesInv
  BY InitTables, NextTables, PTL DEF Spec

\* A final row is finished, its counts add up to the pages attempted and its
\* status fits them; an open row has no counts: for any way statements fail.
THEOREM RowsAreConsistent == Spec => []RowsConsistent
  BY TablesInvariance, PTL DEF TablesInv

\* The pages of a crawl that has ended are those its row counts, or none, and
\* no page is left without its crawl: for any way statements fail.
THEOREM PagesAgreeWithRows == Spec => []PagesMatchRow
  BY TablesInvariance, PTL DEF TablesInv

-----------------------------------------------------------------------------
(* Who works on an open row.                                                 *)

OwnersInv ==
    /\ expired = {}
    /\ \A i \in Ids :
          /\ run[i] # "killed"
          /\ run[i] \in {"release", "done"} => crawls[i].status \notin Open
          /\ run[i] = "none" /\ crawls[i].status \in Open =>
                req[i] = "registering" \/ reply[i].code = 500

\* Every step leaves an owner to each open row, if statements are executed.
LEMMA NextOwnersInv ==
    ASSUME Faults \subseteq {"lost"}, CanRestart = FALSE, Inv, OwnersInv, [Next]_vars
    PROVE  OwnersInv'
  <1> USE DEF OwnersInv
  <1>0. /\ TypeOK /\ RowInv
        /\ \A i \in Ids : req[i] \in Unanswered => run[i] = "none"
    BY DEF Inv, LockInv
  <1>1. \A o \in Outcomes : Executed(o) /\ o \notin {"timeout", "late"}
    BY DEF Outcomes, Executed
  <1>2. ASSUME NEW i \in Ids,
               JoinInflight(i) \/ LookupFinds(i) \/ LookupFails(i) \/ LockToCreate(i)
        PROVE  OwnersInv'
    <2>1. UNCHANGED <<crawls, run, expired>>
      BY <1>2 DEF JoinInflight, LookupFinds, LookupFails, LockToCreate, store, locals
    <2>2. \A j \in Ids \ {i} : req'[j] = req[j] /\ reply'[j] = reply[j]
      BY <1>0, <1>2 DEF JoinInflight, LookupFinds, LookupFails, LockToCreate,
                        Answer, TypeOK
    <2>3. crawls[i].status = "absent"
      BY <1>0, <1>2 DEF RowInv, JoinInflight, LookupFinds, LookupFails, LockToCreate
    <2> QED
      BY <2>1, <2>2, <2>3 DEF Open
  <1>3. ASSUME NEW i \in Ids, CreateRow(i) \/ CreateFails(i) PROVE OwnersInv'
    <2>1. /\ \A j \in Ids \ {i} : crawls'[j] = crawls[j]
          /\ \A j \in Ids \ {i} : req'[j] = req[j] /\ reply'[j] = reply[j]
      BY <1>0, <1>3, StatementsTouchOneRow DEF CreateRow, CreateFails, Answer, TypeOK
    <2>2. req'[i] = "registering" \/ reply'[i].code = 500
      BY <1>0, <1>3 DEF CreateRow, CreateFails, Answer, TypeOK
    <2>3. UNCHANGED <<run, expired>> /\ run[i] = "none"
      BY <1>0, <1>3 DEF CreateRow, CreateFails, locals, Unanswered, InCriticalSection
    <2> QED
      BY <2>1, <2>2, <2>3
  <1>4. ASSUME NEW i \in Ids, Register(i) PROVE OwnersInv'
    BY <1>0, <1>4 DEF Register, Answer, store, locals, TypeOK
  <1>5. ASSUME NEW i \in Ids, MarkRunning(i) PROVE OwnersInv'
    <2>1. \A j \in Ids \ {i} : crawls'[j] = crawls[j]
      BY <1>0, <1>5, StatementsTouchOneRow DEF MarkRunning
    <2>2. /\ UNCHANGED <<req, reply, expired>>
          /\ \A j \in Ids \ {i} : run'[j] = run[j]
          /\ run'[i] \in {"discover", "markFailed"}
      BY <1>0, <1>5 DEF MarkRunning, Goto, requests, locals, TypeOK
    <2> QED
      BY <2>1, <2>2
  <1>6. ASSUME NEW i \in Ids, Discover(i) \/ DiscoverFails(i) \/ Dispatch(i) PROVE OwnersInv'
    <2>1. UNCHANGED <<crawls, req, reply, expired>>
      BY <1>6 DEF Discover, DiscoverFails, Dispatch, store, requests, locals
    <2>2. /\ \A j \in Ids \ {i} : run'[j] = run[j]
          /\ run'[i] \in {"dispatch", "bulkInsert", "markFailed"}
      BY <1>0, <1>6 DEF Discover, DiscoverFails, Dispatch, Goto, TypeOK
    <2> QED
      BY <2>1, <2>2
  <1>7. ASSUME NEW i \in Ids, InsertPages(i) PROVE OwnersInv'
    <2>1. UNCHANGED <<crawls, req, reply, expired>>
      BY <1>1, <1>7 DEF InsertPages, BulkInsert, requests
    <2>2. /\ \A j \in Ids \ {i} : run'[j] = run[j]
          /\ run'[i] = "complete"
      BY <1>0, <1>7 DEF InsertPages, Goto, TypeOK
    <2> QED
      BY <2>1, <2>2
  <1>8. ASSUME NEW i \in Ids, Complete(i) \/ MarkFailed(i) PROVE OwnersInv'
    <2>1. \A j \in Ids \ {i} : crawls'[j] = crawls[j]
      BY <1>0, <1>8, StatementsTouchOneRow DEF Complete, MarkFailed
    <2>4. /\ UNCHANGED <<req, reply, expired>>
          /\ \A j \in Ids \ {i} : run'[j] = run[j]
          /\ run'[i] = "release"
      BY <1>0, <1>8 DEF Complete, MarkFailed, Goto, requests, locals, TypeOK
    <2>2. FinalStatus(results[i]) \in Terminal /\ "failed" \in Terminal
      BY DEF FinalStatus, Terminal
    <2>3. crawls'[i].status \in Terminal \cup {"absent"}
      <3>1. ASSUME NEW s \in Terminal, NEW t, NEW m, NEW n, NEW o \in Outcomes,
                   CompleteCrawl(i, s, t, m, n, o)
            PROVE  crawls'[i].status \in Terminal \cup {"absent"}
        <4>1. Executed(o)
          BY <1>1
        <4>2. Exists(i) => crawls'[i].status = s
          BY <1>0, <3>1, <4>1, StatusAfter
        <4>3. ~Exists(i) => crawls'[i] = crawls[i]
          BY <1>0, <3>1, <4>1, StatusAfter
        <4> QED
          BY <4>2, <4>3 DEF Exists
      <3> QED
        BY <1>8, <2>2, <3>1 DEF Complete, MarkFailed, Undated
    <2> QED
      BY <2>1, <2>3, <2>4 DEF Open, Terminal
  <1>9. ASSUME NEW i \in Ids, CompleteTooLate(i) PROVE OwnersInv'
    BY <1>9 DEF CompleteTooLate
  <1>10. ASSUME NEW i \in Ids, Release(i) PROVE OwnersInv'
    BY <1>0, <1>10 DEF Release, store, requests, TypeOK
  <1>11. ASSUME NEW i \in Ids, DeleteCrawl(i) PROVE OwnersInv'
    <2>1. /\ crawls'[i].status = "absent"
          /\ \A j \in Ids \ {i} : crawls'[j] = crawls[j]
      BY <1>0, <1>11, StatusAfter, StatementsTouchOneRow DEF DeleteCrawl, NoRow, Fresh
    <2>2. UNCHANGED <<req, reply, run, expired>>
      BY <1>11 DEF DeleteCrawl, requests, locals
    <2> QED
      BY <2>1, <2>2 DEF Open
  <1>12. ~Restart
    BY DEF Restart
  <1>13. CASE UNCHANGED vars
    BY <1>13 DEF vars
  <1> QED
    BY <1>2, <1>3, <1>4, <1>5, <1>6, <1>7, <1>8, <1>9, <1>10, <1>11, <1>12, <1>13
       DEF Next, Request, RunCrawl

(* OwnersInv holds as long as statements are executed and nothing restarts.  *)
THEOREM OwnersInvariance ==
    ASSUME Faults \subseteq {"lost"}, CanRestart = FALSE
    PROVE  Spec => []OwnersInv
  <1>1. Init => OwnersInv
    BY DEF Init, StoreInit, NoRow, Fresh, OwnersInv, Open
  <1>2. Inv /\ OwnersInv /\ [Next]_vars => OwnersInv'
    BY NextOwnersInv
  <1> QED
    BY <1>1, <1>2, Invariance, PTL DEF Spec

\* While statements are executed, even if replies are lost, and the process
\* stays up, an open row has a request or a run that will change it, unless
\* the reply to its INSERT was lost.
THEOREM OpenRowsHaveOwners ==
    ASSUME Faults \subseteq {"lost"}, CanRestart = FALSE
    PROVE  Spec => []OpenRowHasOwner
  <1>1. OwnersInv => OpenRowHasOwner
    BY DEF OwnersInv, OpenRowHasOwner, Active, NotRunning
  <1> QED
    BY <1>1, OwnersInvariance, PTL

\* Under the same conditions a run that has ended leaves no open row.
THEOREM RunsLeaveFinalRows ==
    ASSUME Faults \subseteq {"lost"}, CanRestart = FALSE
    PROVE  Spec => []FinishedRunLeavesFinalRow
  <1>1. OwnersInv => FinishedRunLeavesFinalRow
    BY DEF OwnersInv, FinishedRunLeavesFinalRow
  <1> QED
    BY <1>1, OwnersInvariance, PTL

-----------------------------------------------------------------------------
(* To those who read the tables, every step of a request, a run, a deletion *)
(* or a restart is one step of one crawl, or nothing.                       *)

(* A step that is about crawl i changes what is seen of i at most.           *)
LEMMA OneChanges ==
    ASSUME NEW i \in Ids, \A j \in Ids \ {i} : Seen(j)' = Seen(j)
    PROVE  /\ seenStatus' = [seenStatus EXCEPT ![i] = Seen(i)']
           /\ Seen(i)' = Seen(i) => seenStatus' = seenStatus
  BY DEF seenStatus

\* What is seen of the pages depends on the table only.
LEMMA SamePages ==
    ASSUME pages' = pages
    PROVE  seenPages' = seenPages
  BY DEF seenPages, PagesOf

(* What is seen of a crawl depends on its row and its request only.          *)
LEMMA SameRowAndRequest ==
    ASSUME NEW j \in Ids, crawls'[j] = crawls[j], req'[j] = req[j]
    PROVE  Seen(j)' = Seen(j)
  BY DEF Seen, Exists

\* An INSERT is seen as a new crawl, or as none if it is not executed.
LEMMA SeesCreation ==
    ASSUME TablesInv, NEW i \in Ids, CreateRow(i) \/ CreateFails(i)
    PROVE  \/ Lifecycle!Create(i)
           \/ Lifecycle!Discard({i})
  <1>0. TypeOK /\ crawls[i].status = "absent" /\ req[i] = "creating"
    BY DEF TablesInv, Inv, RowInv, CreateRow, CreateFails
  <1>1. \A j \in Ids \ {i} : Seen(j)' = Seen(j)
    <2>1. \A j \in Ids \ {i} : crawls'[j] = crawls[j]
      BY <1>0, StatementsTouchOneRow DEF CreateRow, CreateFails
    <2>2. \A j \in Ids \ {i} : req'[j] = req[j]
      BY <1>0 DEF CreateRow, CreateFails, Answer, TypeOK
    <2> QED
      BY <2>1, <2>2, SameRowAndRequest
  <1>2. Seen(i) = "none" /\ Seen(i)' \in {"pending", "gone"}
    <2>1. \/ crawls'[i] = Fresh("pending")
          \/ crawls'[i] = crawls[i] /\ CreateFails(i)
      BY <1>0, StatusAfter DEF CreateRow, CreateFails, Executed
    <2>2. CreateFails(i) => req'[i] = "replied"
      BY <1>0 DEF CreateFails, Answer, TypeOK
    <2> QED
      BY <1>0, <2>1, <2>2 DEF Seen, Exists, Fresh
  <1>3. seenPages' = seenPages
    BY SamePages DEF CreateRow, CreateFails, InsertCrawl
  <1>4. seenStatus[i] = "none" /\ seenStatus' = [seenStatus EXCEPT ![i] = Seen(i)']
    BY <1>1, <1>2, OneChanges DEF seenStatus
  <1>5. seenStatus' = [j \in Ids |-> IF j \in {i} THEN Seen(i)' ELSE seenStatus[j]]
    BY <1>4 DEF seenStatus
  <1> QED
    BY <1>2, <1>3, <1>4, <1>5
       DEF Lifecycle!Create, Lifecycle!Becomes, Lifecycle!Discard

\* A request answered without a row of its own will never have one.
LEMMA SeesRefusal ==
    ASSUME TablesInv, NEW i \in Ids, LookupFinds(i) \/ LookupFails(i)
    PROVE  Lifecycle!Discard({i})
  <1>0. TypeOK /\ crawls[i].status = "absent" /\ req[i] = "lookup"
    BY DEF TablesInv, Inv, RowInv, LookupFinds, LookupFails
  <1>1. /\ UNCHANGED <<crawls, pages>>
        /\ req'[i] = "replied"
        /\ \A j \in Ids \ {i} : req'[j] = req[j]
    BY <1>0 DEF LookupFinds, LookupFails, Answer, store, TypeOK
  <1>2. \A j \in Ids \ {i} : Seen(j)' = Seen(j)
    BY <1>1, SameRowAndRequest
  <1>3. Seen(i) = "none" /\ Seen(i)' = "gone"
    BY <1>0, <1>1 DEF Seen, Exists
  <1>4. seenPages' = seenPages
    BY <1>1, SamePages
  <1> QED
    BY <1>2, <1>3, <1>4 DEF Lifecycle!Discard, seenStatus

(* An UPDATE of row i by its run: nothing, or a new status.                  *)
LEMMA SeesUpdate ==
    ASSUME TypeOK, NEW i \in Ids, NEW s, pages' = pages, req' = req,
           \A j \in Ids \ {i} : crawls'[j] = crawls[j],
           \/ crawls'[i] = crawls[i]
           \/ Exists(i) /\ crawls'[i].status = s, s # "absent"
    PROVE  /\ seenPages' = seenPages
           /\ \/ seenStatus' = seenStatus
              \/ /\ seenStatus[i] = crawls[i].status
                 /\ seenStatus' = [seenStatus EXCEPT ![i] = s]
  <1>1. \A j \in Ids \ {i} : Seen(j)' = Seen(j)
    BY SameRowAndRequest
  <1>2. crawls'[i] = crawls[i] => Seen(i)' = Seen(i)
    BY SameRowAndRequest
  <1>3. Exists(i) /\ crawls'[i].status = s =>
           seenStatus[i] = crawls[i].status /\ Seen(i)' = s
    BY DEF Seen, Exists, seenStatus
  <1> QED
    BY <1>1, <1>2, <1>3, SamePages, OneChanges

\* UPDATE ... SET status = 'running' is seen as the start, or not at all.
LEMMA SeesStart ==
    ASSUME TablesInv, NEW i \in Ids, MarkRunning(i)
    PROVE  Lifecycle!Start(i) \/ UNCHANGED <<seenStatus, seenPages>>
  <1>0. TypeOK /\ crawls[i].status \in {"absent", "pending"}
    BY DEF TablesInv, Inv, RowInv, MarkRunning
  <1>1. /\ \A j \in Ids \ {i} : crawls'[j] = crawls[j]
        /\ \/ crawls'[i] = crawls[i]
           \/ Exists(i) /\ crawls'[i].status = "running"
    BY <1>0, StatementsTouchOneRow, StatusAfter DEF MarkRunning
  <1>2. pages' = pages /\ req' = req
    BY DEF MarkRunning, UpdateStatus, requests
  <1>3. /\ seenPages' = seenPages
        /\ \/ seenStatus' = seenStatus
           \/ /\ seenStatus[i] = crawls[i].status
              /\ seenStatus' = [seenStatus EXCEPT ![i] = "running"]
    BY <1>0, <1>1, <1>2, SeesUpdate
  <1>4. crawls[i].status = "absent" => seenStatus' = seenStatus
    BY <1>0, <1>1, <1>2, SameRowAndRequest, OneChanges DEF Exists
  <1> QED
    BY <1>0, <1>3, <1>4 DEF Lifecycle!Start, Lifecycle!Becomes

\* The last UPDATE of a run is seen as its end, or not at all.
LEMMA SeesFinish ==
    ASSUME TablesInv, NEW i \in Ids, Complete(i) \/ MarkFailed(i)
    PROVE  Lifecycle!Finish(i) \/ UNCHANGED <<seenStatus, seenPages>>
  <1> DEFINE s == IF Complete(i) THEN FinalStatus(results[i]) ELSE "failed"
  <1>0. /\ TypeOK
        /\ Complete(i) => crawls[i].status \in {"absent", "running"}
        /\ MarkFailed(i) => crawls[i].status \in {"absent", "pending", "running"}
    BY DEF TablesInv, Inv, RowInv, Complete, MarkFailed
  <1>1. \A j \in Ids \ {i} : crawls'[j] = crawls[j]
    BY <1>0, StatementsTouchOneRow DEF Complete, MarkFailed
  <1>2. /\ \/ crawls'[i] = crawls[i]
           \/ Exists(i) /\ crawls'[i].status = s
        /\ s \in Terminal /\ (MarkFailed(i) => s = "failed")
    <2>1. CASE Complete(i)
      BY <1>0, <2>1, StatusAfter DEF Complete, MarkFailed, FinalStatus, Terminal
    <2>2. CASE ~Complete(i)
      BY <1>0, <2>2, StatusAfter DEF MarkFailed, Terminal
    <2> QED
      BY <2>1, <2>2
  <1> HIDE DEF s
  <1>3. pages' = pages /\ req' = req
    BY DEF Complete, MarkFailed, CompleteCrawl, requests
  <1>4. s # "absent"
    BY <1>2 DEF Terminal
  <1>5. /\ seenPages' = seenPages
        /\ \/ seenStatus' = seenStatus
           \/ /\ seenStatus[i] = crawls[i].status
              /\ seenStatus' = [seenStatus EXCEPT ![i] = s]
    BY <1>0, <1>1, <1>2, <1>3, <1>4, SeesUpdate
  <1>6. crawls[i].status = "absent" => seenStatus' = seenStatus
    BY <1>1, <1>2, <1>3, SameRowAndRequest, OneChanges DEF Exists
  <1> QED
    BY <1>0, <1>2, <1>5, <1>6
       DEF Lifecycle!Finish, Lifecycle!Becomes, Lifecycle!Terminal, Terminal

\* A COPY is seen as all its pages at once, or not at all.
LEMMA SeesPages ==
    ASSUME TablesInv, NEW i \in Ids, InsertPages(i)
    PROVE  Lifecycle!Publish(i) \/ UNCHANGED <<seenStatus, seenPages>>
  <1>0. /\ TypeOK /\ crawls[i].status \in {"absent", "running"}
        /\ PagesOf(i) = {} /\ \A p \in results[i] : p.crawl = i
    BY DEF TablesInv, Inv, RowInv, PagesInv, RunsInv, InsertPages
  <1>1. PICK o \in Outcomes : BulkInsert(results[i], o)
    BY DEF InsertPages
  <1>2. UNCHANGED <<crawls, req>>
    BY <1>1 DEF BulkInsert, InsertPages, requests
  <1>3. seenStatus' = seenStatus
    BY <1>2, SameRowAndRequest DEF seenStatus
  <1>4. CASE pages' = pages \/ results[i] = {}
    <2>1. pages' = pages
      BY <1>1, <1>4 DEF BulkInsert
    <2> QED
      BY <1>3, <2>1, SamePages
  <1>5. CASE pages' # pages /\ results[i] # {}
    <2>1. pages' = pages \cup results[i] /\ Accepts(results[i])
      BY <1>1, <1>5 DEF BulkInsert
    <2>2. crawls[i].status = "running"
      BY <1>0, <1>5, <2>1 DEF Accepts, Exists
    <2>3. seenStatus[i] = "running" /\ seenPages[i] = {}
      BY <1>0, <2>2 DEF seenStatus, Seen, Exists, seenPages
    <2> DEFINE S == {p.url : p \in results[i]}
    <2>4. S \in SUBSET URLs
      BY <1>0 DEF TypeOK, Page
    <2>5. PagesOf(i)' = results[i] /\ \A j \in Ids \ {i} : PagesOf(j)' = PagesOf(j)
      BY <1>0, <2>1 DEF PagesOf
    <2>6. seenPages' = [seenPages EXCEPT ![i] = S]
      BY <2>5 DEF seenPages
    <2> QED
      BY <1>3, <2>3, <2>4, <2>6 DEF Lifecycle!Publish
  <1> QED
    BY <1>4, <1>5

\* A DELETE is seen as the crawl and its pages going for good.
LEMMA SeesDeletion ==
    ASSUME TablesInv, NEW i \in Ids, DeleteCrawl(i)
    PROVE  Lifecycle!Delete(i)
  <1>0. TypeOK /\ Exists(i) /\ req[i] \notin {"new", "lookup", "creating"}
    BY DEF TablesInv, Inv, RowInv, DeleteCrawl, Exists
  <1>1. /\ crawls'[i] = NoRow /\ req' = req
        /\ \A j \in Ids \ {i} : crawls'[j] = crawls[j]
    BY <1>0, StatementsTouchOneRow, StatusAfter DEF DeleteCrawl, requests
  <1>2. \A j \in Ids \ {i} : Seen(j)' = Seen(j)
    BY <1>1, SameRowAndRequest
  <1>3. seenStatus[i] = crawls[i].status /\ Seen(i)' = "gone"
    BY <1>0, <1>1 DEF Seen, Exists, NoRow, Fresh, seenStatus
  <1>4. crawls[i].status \in Open \cup Terminal
    BY <1>0 DEF TypeOK, StoreTypeOK, Row, Exists
  <1>5. seenPages' = [seenPages EXCEPT ![i] = {}]
    BY PagesAfterDelete DEF seenPages
  <1>6. seenStatus' = [seenStatus EXCEPT ![i] = "gone"]
    BY <1>2, <1>3, OneChanges
  <1> QED
    BY <1>3, <1>4, <1>5, <1>6
       DEF Lifecycle!Delete, Lifecycle!Becomes, Lifecycle!Stored, Lifecycle!Open,
           Lifecycle!Terminal, Open, Terminal

\* A restart cuts off the requests that were in the middle of something.
LEMMA SeesRestart ==
    ASSUME TablesInv, Restart
    PROVE  \E S \in SUBSET Ids : Lifecycle!Discard(S)
  <1> DEFINE S == {i \in Ids : req[i] \in {"lookup", "creating"}}
  <1>0. RowInv
    BY DEF TablesInv, Inv
  <1>1. UNCHANGED <<crawls, pages>>
    BY DEF Restart, store
  <1>2. \A i \in Ids :
           req'[i] = IF req[i] \in {"new", "replied"} THEN req[i] ELSE "aborted"
    BY DEF Restart
  <1>3. \A i \in S : Seen(i) = "none" /\ Seen(i)' = "gone"
    BY <1>0, <1>1, <1>2 DEF Seen, Exists, RowInv
  <1>4. \A i \in Ids \ S : Seen(i)' = Seen(i)
    BY <1>1, <1>2 DEF Seen, Exists
  <1> HIDE DEF S
  <1>5. seenStatus' = [i \in Ids |-> IF i \in S THEN "gone" ELSE seenStatus[i]]
    BY <1>3, <1>4 DEF seenStatus
  <1>6. \A i \in S \cap Ids : seenStatus[i] = "none"
    BY <1>3 DEF seenStatus
  <1>7. S \in SUBSET Ids
    BY DEF S
  <1> QED
    BY <1>1, <1>5, <1>6, <1>7, SamePages DEF Lifecycle!Discard

\* What happens in memory only is not seen.
LEMMA SeesNothing ==
    ASSUME TablesInv, NEW i \in Ids,
           \/ JoinInflight(i) \/ LockToCreate(i) \/ Register(i) \/ Discover(i)
           \/ DiscoverFails(i) \/ Dispatch(i) \/ CompleteTooLate(i) \/ Release(i)
    PROVE  UNCHANGED <<seenStatus, seenPages>>
  <1>1. UNCHANGED <<crawls, pages>>
    BY DEF JoinInflight, LockToCreate, Register, Discover, DiscoverFails, Dispatch,
           CompleteTooLate, Release, store
  <1>2. \A j \in Ids \ {i} : req'[j] = req[j]
    BY DEF JoinInflight, LockToCreate, Register, Answer, Discover, DiscoverFails,
           Dispatch, CompleteTooLate, Release, requests, TablesInv, Inv, TypeOK
  <1>3. \/ req' = req
        \/ req[i] = "new" /\ req'[i] \in {"lookup", "creating"}
        \/ req[i] = "registering" /\ req'[i] = "replied"
    BY DEF JoinInflight, LockToCreate, Register, Answer, Discover, DiscoverFails,
           Dispatch, CompleteTooLate, Release, requests, TablesInv, Inv, TypeOK
  <1>4. Seen(i)' = Seen(i)
    BY <1>1, <1>3 DEF Seen, Exists
  <1> QED
    BY <1>1, <1>2, <1>4, SamePages, SameRowAndRequest, OneChanges

-----------------------------------------------------------------------------

\* Every step is seen as a step of CrawlLifecycle or not at all.
LEMMA StepsAreSeen ==
    ASSUME TablesInv, [Next]_vars
    PROVE  [Lifecycle!LifecycleNext]_(Lifecycle!crawlVars)
  <1> SUFFICES Lifecycle!LifecycleNext \/ UNCHANGED <<seenStatus, seenPages>>
    BY DEF Lifecycle!crawlVars
  <1> USE DEF Lifecycle!LifecycleNext
  <1>1. ASSUME NEW i \in Ids, Request(i)
        PROVE  Lifecycle!LifecycleNext \/ UNCHANGED <<seenStatus, seenPages>>
    BY <1>1, SeesCreation, SeesRefusal, SeesNothing DEF Request
  <1>2. ASSUME NEW i \in Ids, RunCrawl(i)
        PROVE  Lifecycle!LifecycleNext \/ UNCHANGED <<seenStatus, seenPages>>
    BY <1>2, SeesStart, SeesFinish, SeesPages, SeesNothing DEF RunCrawl
  <1>3. ASSUME NEW i \in Ids, DeleteCrawl(i) PROVE Lifecycle!LifecycleNext
    BY <1>3, SeesDeletion
  <1>4. Restart => Lifecycle!LifecycleNext
    BY SeesRestart
  <1>5. UNCHANGED vars => UNCHANGED <<seenStatus, seenPages>>
    BY DEF vars, seenStatus, Seen, Exists, seenPages, PagesOf
  <1> QED
    BY <1>1, <1>2, <1>3, <1>4, <1>5 DEF Next

\* At the start nobody sees a crawl.
LEMMA InitIsSeen == Init => Lifecycle!LifecycleInit
  BY DEF Init, StoreInit, NoRow, Fresh, Lifecycle!LifecycleInit, seenStatus, Seen,
         Exists, seenPages, PagesOf

\* CrawlService implements CrawlLifecycle, for any number of requests and
\* websites, any failures, deletions and restarts: what Api assumes of the
\* crawls it reads is what the service provides.
THEOREM RefinesLifecycle == Spec => ImplementsLifecycle
  <1>1. TablesInv /\ [Next]_vars => [Lifecycle!LifecycleNext]_(Lifecycle!crawlVars)
    BY StepsAreSeen
  <1> QED
    BY <1>1, InitIsSeen, TablesInvariance, PTL
       DEF Spec, ImplementsLifecycle, Lifecycle!LifecycleSpec
=============================================================================
