------------------------------- MODULE Server -------------------------------
(***************************************************************************)
(* cmd/api/main.go around CrawlService: the server accepts requests until  *)
(* a signal, then drains: server.Shutdown waits up to 30 seconds for the   *)
(* requests it accepted, for the crawls nobody waits; the deferred         *)
(* pool.Close makes every later statement fail; the process ends, with the *)
(* goroutines it still has, and may be started again.                      *)
(***************************************************************************)
EXTENDS CrawlService

ASSUME ServerAssumption == CanRestart /\ "error" \in Faults

VARIABLES
    phase,        \* where run() of main.go is
    accepted,     \* the requests the server has accepted
    clean         \* did Shutdown return nil?

serverVars == <<vars, phase, accepted, clean>>

ServerTypeOK ==
    /\ TypeOK
    /\ phase \in {"serving", "draining", "closed"}
    /\ accepted \subseteq Ids
    /\ clean \in BOOLEAN

ServerInit ==
    /\ Init
    /\ phase = "serving"
    /\ accepted = {}
    /\ clean = FALSE

Answered(i) == req[i] = "replied"

-----------------------------------------------------------------------------

Accept(i) ==
    /\ phase = "serving"
    /\ i \notin accepted /\ req[i] = "new"
    /\ accepted' = accepted \cup {i}
    /\ UNCHANGED <<vars, phase, clean>>

\* No statement is executed once the connection pool is closed.
Works(A) ==
    /\ A
    /\ phase = "closed" => UNCHANGED store
    /\ UNCHANGED <<phase, accepted, clean>>

Handle(i) ==
    /\ i \in accepted
    /\ Works(Request(i))
    /\ phase = "closed" /\ req[i] = "lookup" => reply'[i].code = 500

Crawl(i) == Works(RunCrawl(i))

Delete(i) == phase # "closed" /\ Works(DeleteCrawl(i))

\* SIGINT or SIGTERM: the listener is closed.
Signal ==
    /\ phase = "serving"
    /\ phase' = "draining"
    /\ UNCHANGED <<vars, accepted, clean>>

\* ListenAndServe fails: run returns without Shutdown.
ListenFails ==
    /\ phase = "serving"
    /\ phase' = "closed"
    /\ UNCHANGED <<vars, accepted, clean>>

Drained ==
    /\ phase = "draining"
    /\ \A i \in accepted : Answered(i)
    /\ phase' = "closed"
    /\ clean' = TRUE
    /\ UNCHANGED <<vars, accepted>>

\* The 30 seconds are over, be it because of requests of other routes.
DrainTimesOut ==
    /\ phase = "draining"
    /\ phase' = "closed"
    /\ UNCHANGED <<vars, accepted, clean>>

\* The process ends, here or by a crash at any time, and is started again.  A
\* request that had not got anywhere may be sent again.
Exit ==
    /\ Restart
    /\ phase' = "serving"
    /\ accepted' = {}
    /\ clean' = FALSE

Stop == phase = "closed" /\ Exit
Crash == phase # "closed" /\ Exit

ServerNext ==
    \/ \E i \in Ids : Accept(i) \/ Handle(i) \/ Crawl(i) \/ Delete(i)
    \/ Signal \/ ListenFails \/ Drained \/ DrainTimesOut \/ Stop \/ Crash

\* Goroutines that can run do, a drain ends one way or the other, and a process
\* whose main function has returned ends.
ServerFairness ==
    /\ \A i \in Ids : WF_serverVars(Handle(i)) /\ WF_serverVars(Crawl(i))
    /\ WF_serverVars(Drained \/ DrainTimesOut)
    /\ WF_serverVars(Stop)

ServerSpec == ServerInit /\ [][ServerNext]_serverVars /\ ServerFairness

-----------------------------------------------------------------------------

\* After "server shut down cleanly" nothing is left half done by a request: none
\* died holding inflightMu, which every run still needs to end, and every open
\* row was handed to a run, unless its requester was told that there is none or
\* was cut off by the end of an earlier process.
CleanShutdownStrandsNothing ==
    clean =>
        /\ mutex = None
        /\ \A i \in Ids : crawls[i].status \in Open =>
              run[i] # "none" \/ reply[i].code = 500 \/ req[i] = "aborted"

\* Every request the server lets in is answered or its connection ends with
\* the process: nobody waits for inflightMu for ever, not even while the
\* statements of its holder fail because the pool is closed.
EveryRequestEnds ==
    \A i \in Ids : i \in accepted ~> i \notin accepted \/ req[i] \in {"replied", "aborted"}
=============================================================================
