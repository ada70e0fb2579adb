---------------------------- MODULE ServerProofs ----------------------------
(***************************************************************************)
(* The server's steps are steps of CrawlService, so what is proved of the  *)
(* service holds while requests are accepted and drained and while the     *)
(* connection pool is closed under the runs.                               *)
(***************************************************************************)
EXTENDS Server, CrawlTablesProofs

(* An open row was handed to a run, or its request is about to, or has told  *)
(* its client that there is no row, or went down with its process.           *)
HandedOver ==
    \A i \in Ids : crawls[i].status \in Open =>
        \/ req[i] \in {"registering", "aborted"}
        \/ run[i] # "none"
        \/ reply[i].code = 500

(* Only accepted requests are under way, and after a clean drain none is,    *)
(* until the process starts again.                                           *)
DrainInv ==
    /\ ServerTypeOK
    /\ HandedOver
    /\ \A i \in Ids : req[i] \in {"lookup"} \cup InCriticalSection => i \in accepted
    /\ clean => phase = "closed" /\ \A i \in accepted : Answered(i)

\* The server only restricts when the service takes a step.
LEMMA ServerStepsAreServiceSteps ==
    ASSUME [ServerNext]_serverVars
    PROVE  [Next]_vars
  BY DEF ServerNext, Accept, Handle, Crawl, Delete, Signal, ListenFails, Drained,
         DrainTimesOut, Stop, Crash, Exit, Works, Next, serverVars

\* A run changes no request, no other run and no other row.
LEMMA RunStepsAreItsOwn ==
    ASSUME TypeOK, NEW i \in Ids, RunCrawl(i)
    PROVE  /\ UNCHANGED <<req, reply>> /\ run'[i] # "none"
           /\ \A j \in Ids \ {i} : run'[j] = run[j] /\ crawls'[j] = crawls[j]
  <1>1. CASE RunGoesOn(i)
    <2>1. \A j \in Ids \ {i} : crawls'[j] = crawls[j]
      BY <1>1 DEF RunGoesOn, MarkRunning, Discover, DiscoverFails, Dispatch, InsertPages,
         Complete, CompleteTooLate, MarkFailed, UpdateStatus, CompleteCrawl, BulkInsert,
         store, TypeOK, StoreTypeOK
    <2> QED
      BY <1>1, <2>1, RunGoesOnQuietly DEF Working, TypeOK
  <1>2. CASE Release(i)
    BY <1>2 DEF Release, requests, store, TypeOK
  <1> QED
    BY <1>1, <1>2 DEF RunCrawl, RunGoesOn

\* Whatever a run, a client or the end of the process does, open rows stay
\* handed over.
LEMMA NextHandedOver ==
    ASSUME TypeOK, TypeOK', LockInv, RowInv, HandedOver, [Next]_vars
    PROVE  HandedOver'
  <1> USE DEF HandedOver, Open
  <1>1. ASSUME NEW i \in Ids, JoinInflight(i) \/ LockToCreate(i) PROVE HandedOver'
    <2>1. /\ UNCHANGED <<crawls, run, reply>>
          /\ \A j \in Ids : req[j] # req'[j] => req[j] = "new"
      BY <1>1 DEF JoinInflight, LockToCreate, TypeOK, store
    <2> QED
      BY <2>1
  <1>2. ASSUME NEW i \in Ids, LookupFinds(i) \/ LookupFails(i) PROVE HandedOver'
    <2>1. /\ UNCHANGED <<crawls, run>> /\ req[i] = "lookup"
          /\ \A j \in Ids \ {i} : req'[j] = req[j] /\ reply'[j] = reply[j]
      BY <1>2 DEF LookupFinds, LookupFails, Answer, TypeOK, store
    <2>2. crawls[i].status = "absent"
      BY <2>1 DEF RowInv
    <2> QED
      BY <2>1, <2>2
  <1>3. ASSUME NEW i \in Ids, CreateRow(i) PROVE HandedOver'
    <2>1. /\ UNCHANGED <<run, reply>> /\ req'[i] = "registering"
          /\ \A j \in Ids \ {i} : req'[j] = req[j] /\ crawls'[j] = crawls[j]
      BY <1>3 DEF CreateRow, InsertCrawl, TypeOK, StoreTypeOK
    <2> QED
      BY <2>1
  <1>4. ASSUME NEW i \in Ids, CreateFails(i) PROVE HandedOver'
    <2>1. /\ UNCHANGED run /\ reply'[i].code = 500
          /\ \A j \in Ids \ {i} : /\ req'[j] = req[j] /\ reply'[j] = reply[j]
                                  /\ crawls'[j] = crawls[j]
      BY <1>4 DEF CreateFails, InsertCrawl, Answer, TypeOK, StoreTypeOK
    <2> QED
      BY <2>1
  <1>5. ASSUME NEW i \in Ids, Register(i) PROVE HandedOver'
    <2>1. /\ UNCHANGED crawls /\ run'[i] = "markRunning"
          /\ \A j \in Ids \ {i} : /\ req'[j] = req[j] /\ reply'[j] = reply[j]
                                  /\ run'[j] = run[j]
      BY <1>5 DEF Register, Answer, TypeOK, store
    <2> QED
      BY <2>1
  <1>6. ASSUME NEW i \in Ids, RunCrawl(i) PROVE HandedOver'
    <2>1. /\ UNCHANGED <<req, reply>> /\ run'[i] # "none"
          /\ \A j \in Ids \ {i} : run'[j] = run[j] /\ crawls'[j] = crawls[j]
      BY <1>6, RunStepsAreItsOwn
    <2> QED
      BY <2>1
  <1>7. ASSUME NEW i \in Ids, DeleteCrawl(i) PROVE HandedOver'
    <2>1. /\ UNCHANGED <<req, reply, run>> /\ crawls'[i].status = "absent"
          /\ \A j \in Ids \ {i} : crawls'[j] = crawls[j]
      BY <1>7 DEF DeleteCrawl, DeleteRow, NoRow, Fresh, requests, TypeOK, StoreTypeOK
    <2> QED
      BY <2>1
  <1>8. CASE Restart
    <2>1. /\ UNCHANGED <<crawls, reply>>
          /\ \A j \in Ids : /\ run[j] # "none" => run'[j] # "none"
                            /\ req[j] \in {"registering", "aborted"} => req'[j] = "aborted"
      BY <1>8 DEF Restart, store, TypeOK
    <2> QED
      BY <2>1
  <1>9. CASE UNCHANGED vars
    BY <1>9 DEF vars
  <1> QED
    BY <1>1, <1>2, <1>3, <1>4, <1>5, <1>6, <1>7, <1>8, <1>9 DEF Next, Request

\* What a step of the service does to the requests: those that are answered
\* stay so, and only a new one of Handle(i) gets under way.
LEMMA RequestsMoveOn ==
    ASSUME TypeOK, NEW i \in Ids, Request(i)
    PROVE  /\ \A j \in Ids : req[j] = "replied" => req'[j] = "replied"
           /\ \A j \in Ids \ {i} : req'[j] = req[j]
  BY DEF Request, JoinInflight, LookupFinds, LookupFails, LockToCreate, CreateRow,
     CreateFails, Register, Answer, TypeOK

\* Every step of the server keeps its own variables right.
LEMMA NextDrainInv ==
    ASSUME TablesInv, TablesInv', DrainInv, [ServerNext]_serverVars
    PROVE  DrainInv'
  <1> USE DEF DrainInv, ServerTypeOK, Answered, InCriticalSection
  <1>0. TypeOK /\ TypeOK'
    BY DEF TablesInv, Inv
  <1>h. HandedOver'
    BY <1>0, ServerStepsAreServiceSteps, NextHandedOver DEF TablesInv, Inv
  <1>1. ASSUME NEW i \in Ids, Accept(i) PROVE DrainInv'
    BY <1>0, <1>h, <1>1 DEF Accept, vars
  <1>2. ASSUME NEW i \in Ids, Handle(i) PROVE DrainInv'
    <2>1. /\ \A j \in Ids : req[j] = "replied" => req'[j] = "replied"
          /\ \A j \in Ids \ {i} : req'[j] = req[j]
      BY <1>0, <1>2, RequestsMoveOn DEF Handle, Works
    <2>2. UNCHANGED <<phase, accepted, clean>> /\ i \in accepted
      BY <1>2 DEF Handle, Works
    <2> QED
      BY <1>0, <1>h, <2>1, <2>2
  <1>3. ASSUME NEW i \in Ids, Crawl(i) \/ Delete(i) PROVE DrainInv'
    <2>1. req' = req
      BY <1>0, <1>3, RunStepsAreItsOwn DEF Crawl, Delete, Works, DeleteCrawl, requests
    <2>2. UNCHANGED <<phase, accepted, clean>>
      BY <1>3 DEF Crawl, Delete, Works
    <2> QED
      BY <1>0, <1>h, <2>1, <2>2
  <1>4. CASE Signal \/ ListenFails \/ DrainTimesOut
    <2>1. UNCHANGED <<req, accepted, clean>> /\ ~clean
      BY <1>4 DEF Signal, ListenFails, DrainTimesOut, vars
    <2>2. phase' \in {"draining", "closed"}
      BY <1>4 DEF Signal, ListenFails, DrainTimesOut
    <2> QED
      BY <1>0, <1>h, <2>1, <2>2
  <1>5. CASE Drained
    <2>1. UNCHANGED <<req, accepted>> /\ clean' = TRUE /\ phase' = "closed"
      BY <1>5 DEF Drained, vars
    <2>2. \A i \in accepted : Answered(i)
      BY <1>5 DEF Drained
    <2> QED
      BY <1>0, <1>h, <2>1, <2>2
  <1>6. CASE Stop \/ Crash
    <2>1. phase' = "serving" /\ accepted' = {} /\ clean' = FALSE /\ Restart
      BY <1>6 DEF Stop, Crash, Exit
    <2>2. \A i \in Ids : req'[i] \in {"new", "replied", "aborted"}
      BY <2>1 DEF Restart
    <2> QED
      BY <1>0, <1>h, <2>1, <2>2
  <1>7. CASE UNCHANGED serverVars
    BY <1>0, <1>h, <1>7 DEF serverVars, vars
  <1> QED
    BY <1>1, <1>2, <1>3, <1>4, <1>5, <1>6, <1>7 DEF ServerNext

(* What holds of the service holds of it inside the server, and what the     *)
(* server adds.                                                              *)
THEOREM ServerInvariance == ServerSpec => [](TablesInv /\ DrainInv)
  <1>1. ServerInit => TablesInv /\ DrainInv
    <2>1. ServerInit => TablesInv
      BY InitTables DEF ServerInit
    <2> QED
      <3>1. ASSUME ServerInit PROVE HandedOver /\ \A i \in Ids : req[i] = "new"
        BY <3>1 DEF ServerInit, HandedOver, Init, StoreInit, NoRow, Fresh, Open
      <3>2. ASSUME ServerInit PROVE ServerTypeOK /\ clean = FALSE
        BY <2>1, <3>2 DEF ServerInit, ServerTypeOK, TablesInv, Inv
      <3> QED
        BY <2>1, <3>1, <3>2 DEF DrainInv, InCriticalSection
  <1>2. TablesInv /\ DrainInv /\ [ServerNext]_serverVars => TablesInv' /\ DrainInv'
    BY ServerStepsAreServiceSteps, NextTables, NextDrainInv
  <1> QED
    BY <1>1, <1>2, PTL DEF ServerSpec

-----------------------------------------------------------------------------

\* A clean shutdown leaves inflightMu free and every open row in the hands of
\* a run, for any number of requests, websites and earlier crashes.
THEOREM CleanShutdownLeavesNothingHalfDone == ServerSpec => []CleanShutdownStrandsNothing
  <1>1. ASSUME TablesInv, DrainInv PROVE CleanShutdownStrandsNothing
    <2> SUFFICES ASSUME clean
                 PROVE  /\ mutex = None
                        /\ \A i \in Ids : crawls[i].status \in Open =>
                              run[i] # "none" \/ reply[i].code = 500 \/ req[i] = "aborted"
      BY DEF CleanShutdownStrandsNothing
    <2>1. \A i \in Ids : req[i] \notin InCriticalSection
      BY <1>1 DEF DrainInv, Answered, InCriticalSection
    <2>2. mutex = None
      BY <1>1, <2>1 DEF TablesInv, Inv, LockInv, TypeOK
    <2> QED
      BY <1>1, <2>1, <2>2 DEF DrainInv, HandedOver, InCriticalSection
  <1> QED
    BY <1>1, ServerInvariance, PTL

\* Draining, closing the connection pool under the runs and starting again
\* never lead to two runs for one website.
THEOREM OneRunAtATimeInServer == ServerSpec => []OneRunPerWebsite
  <1>1. TablesInv => OneRunPerWebsite
    BY DEF TablesInv, Inv, TypeOK, InflightTracksRuns, OneRunPerWebsite
  <1> QED
    BY <1>1, ServerInvariance, PTL

\* Runs that meet the closed connection pool leave tables that agree: they
\* cannot store pages without a row, or counts that fit neither.
THEOREM TablesAgreeInServer == ServerSpec => [](RowsConsistent /\ PagesMatchRow)
  BY ServerInvariance, PTL DEF TablesInv

\* Nothing the server does to the service takes back the status of a row: not
\* the drain, not the closed pool, not the next start.
THEOREM StatusOnlyGoesForwardInServer == ServerSpec => RowsNeverGoBack
  <1>1. TablesInv /\ [ServerNext]_serverVars => [RowLifecycle]_vars
    BY ServerStepsAreServiceSteps, StepsGoForward DEF TablesInv, Inv
  <1> QED
    BY <1>1, ServerInvariance, PTL DEF ServerSpec, RowsNeverGoBack

\* To those who read the tables the whole server is a CrawlLifecycle, through
\* signals, drains, the closed pool, crashes and new starts.
THEOREM ServerRefinesLifecycle == ServerSpec => ImplementsLifecycle
  <1>1. ServerInit => Lifecycle!LifecycleInit
    BY InitIsSeen DEF ServerInit
  <1>2. TablesInv /\ [ServerNext]_serverVars
          => [Lifecycle!LifecycleNext]_(Lifecycle!crawlVars)
    BY ServerStepsAreServiceSteps, StepsAreSeen
  <1> QED
    BY <1>1, <1>2, ServerInvariance, PTL
       DEF ServerSpec, ImplementsLifecycle, Lifecycle!LifecycleSpec
=============================================================================
