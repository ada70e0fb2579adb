----------------------------- MODULE WorkerPool -----------------------------
(***************************************************************************)
(* One call of Pool.Run (internal/workers/pool.go): a calling goroutine    *)
(* that spawns the workers and collects the results, the workers, and the  *)
(* goroutine that closes resultCh once the wait group is down to zero.     *)
(*                                                                         *)
(* jobCh is filled and closed before the first worker starts, so it is a   *)
(* position in the list of jobs: it holds taken+1..NumJobs.  resultCh is   *)
(* the log of everything sent with the position the caller has read up     *)
(* to: it holds sent[received+1..Len(sent)], and the slice Run returns is  *)
(* sent[1..received].  A result is named by the job it answers.            *)
(***************************************************************************)
EXTENDS Naturals, Sequences, FiniteSets, Functions

CONSTANTS
    Workers,      \* the worker goroutines: workerCount of them
    NumJobs,      \* len(jobs): the jobs are 1..NumJobs
    Cancellable   \* can the context given to Run be cancelled?

\* config.validate refuses a worker count below one.
ASSUME WorkersAssumption == IsFiniteSet(Workers) /\ Workers # {}
ASSUME NumJobsAssumption == NumJobs \in Nat
ASSUME CancellableAssumption == Cancellable \in BOOLEAN

VARIABLES
    taken,        \* jobs received from jobCh so far
    sent,         \* results sent on resultCh, in the order of the sends
    received,     \* how many of them the caller has received
    closed,       \* resultCh is closed
    wg,           \* the wait group's counter
    pc,           \* where each worker is
    job,          \* the job each worker holds, 0 for none
    run,          \* where the calling goroutine is
    cancelled     \* ctx.Done() is closed

vars == <<taken, sent, received, closed, wg, pc, job, run, cancelled>>

Jobs == 1..NumJobs

(* Faulty variants, used only to show that the properties can fail: each is *)
(* a plausible slip in pool.go, named for it, and no specification uses it. *)

ResultCapWorkerCount == Cardinality(Workers)

TakeOnePastTheEnd(w) ==
    /\ pc[w] = "select"
    /\ taken <= NumJobs
    /\ taken' = taken + 1
    /\ job' = [job EXCEPT ![w] = taken + 1]
    /\ pc' = [pc EXCEPT ![w] = "processing"]
    /\ UNCHANGED <<sent, received, closed, wg, run, cancelled>>

\* cancellation looked at again before the send: the result is dropped
StopDroppingResult(w) ==
    /\ pc[w] \in {"select", "sending"}
    /\ cancelled
    /\ pc' = [pc EXCEPT ![w] = "exited"]
    /\ job' = [job EXCEPT ![w] = 0]
    /\ wg' = wg - 1
    /\ UNCHANGED <<taken, sent, received, closed, run, cancelled>>

\* wg.Done() not deferred and forgotten on the early return
StopWithoutDone(w) ==
    /\ pc[w] = "select"
    /\ cancelled
    /\ pc' = [pc EXCEPT ![w] = "exited"]
    /\ UNCHANGED <<taken, sent, received, closed, wg, job, run, cancelled>>

\* closed when jobCh is empty instead of when the workers are done
CloseWhenDrained ==
    /\ run # "spawning"
    /\ taken = NumJobs
    /\ ~closed
    /\ closed' = TRUE
    /\ UNCHANGED <<taken, sent, received, wg, pc, job, run, cancelled>>

(* The code. *)

\* make(chan Result, len(jobs))
ResultCap == NumJobs

TypeOK ==
    /\ taken \in 0..NumJobs
    /\ sent \in Seq(Jobs)
    /\ received \in Nat
    /\ closed \in BOOLEAN
    /\ wg \in Nat
    /\ pc \in [Workers -> {"unborn", "select", "processing", "sending", "exited"}]
    /\ job \in [Workers -> 0..NumJobs]
    /\ run \in {"spawning", "collecting", "returned"}
    /\ cancelled \in BOOLEAN

\* jobCh filled and closed, wg.Add(workerCount); nothing else runs yet.
Init ==
    /\ taken = 0
    /\ sent = <<>>
    /\ received = 0
    /\ closed = FALSE
    /\ wg = Cardinality(Workers)
    /\ pc = [w \in Workers |-> "unborn"]
    /\ job = [w \in Workers |-> 0]
    /\ run = "spawning"
    /\ cancelled = FALSE

(* The calling goroutine. *)

Spawn(w) ==
    /\ run = "spawning"
    /\ pc[w] = "unborn"
    /\ pc' = [pc EXCEPT ![w] = "select"]
    /\ UNCHANGED <<taken, sent, received, closed, wg, job, run, cancelled>>

\* The last worker is spawned, the closing goroutine is started.
StartCollecting ==
    /\ run = "spawning"
    /\ \A w \in Workers : pc[w] # "unborn"
    /\ run' = "collecting"
    /\ UNCHANGED <<taken, sent, received, closed, wg, pc, job, cancelled>>

Receive ==
    /\ run = "collecting"
    /\ received < Len(sent)
    /\ received' = received + 1
    /\ UNCHANGED <<taken, sent, closed, wg, pc, job, run, cancelled>>

\* The range loop ends when resultCh is closed and empty.
Return ==
    /\ run = "collecting"
    /\ closed
    /\ received = Len(sent)
    /\ run' = "returned"
    /\ UNCHANGED <<taken, sent, received, closed, wg, pc, job, cancelled>>

(* A worker.  With the context done and a job at hand the select picks      *)
(* either branch, so Take does not look at cancelled.                       *)

Take(w) ==
    /\ pc[w] = "select"
    /\ taken < NumJobs
    /\ taken' = taken + 1
    /\ job' = [job EXCEPT ![w] = taken + 1]
    /\ pc' = [pc EXCEPT ![w] = "processing"]
    /\ UNCHANGED <<sent, received, closed, wg, run, cancelled>>

\* return, and the deferred wg.Done()
Exit(w) ==
    /\ pc' = [pc EXCEPT ![w] = "exited"]
    /\ wg' = wg - 1
    /\ UNCHANGED <<taken, sent, received, closed, job, run, cancelled>>

StopDrained(w) ==
    /\ pc[w] = "select"
    /\ taken = NumJobs
    /\ Exit(w)

StopCancelled(w) ==
    /\ pc[w] = "select"
    /\ cancelled
    /\ Exit(w)

\* p.process returns: every fetch is bounded by the request timeout.
Process(w) ==
    /\ pc[w] = "processing"
    /\ pc' = [pc EXCEPT ![w] = "sending"]
    /\ UNCHANGED <<taken, sent, received, closed, wg, job, run, cancelled>>

\* resultCh <- result: waits while the buffer of len(jobs) is full.  A send
\* on a closed channel would panic.
Send(w) ==
    /\ pc[w] = "sending"
    /\ Len(sent) - received < ResultCap
    /\ sent' = Append(sent, job[w])
    /\ job' = [job EXCEPT ![w] = 0]
    /\ pc' = [pc EXCEPT ![w] = "select"]
    /\ UNCHANGED <<taken, received, closed, wg, run, cancelled>>

(* The closing goroutine: wg.Wait(), then close(resultCh). *)
CloseResults ==
    /\ run # "spawning"
    /\ wg = 0
    /\ ~closed
    /\ closed' = TRUE
    /\ UNCHANGED <<taken, sent, received, wg, pc, job, run, cancelled>>

Cancel ==
    /\ Cancellable
    /\ ~cancelled
    /\ cancelled' = TRUE
    /\ UNCHANGED <<taken, sent, received, closed, wg, pc, job, run>>

Worker(w) ==
    \/ Take(w) \/ StopDrained(w) \/ StopCancelled(w) \/ Process(w) \/ Send(w)

Caller == (\E w \in Workers : Spawn(w)) \/ StartCollecting \/ Receive \/ Return

Next == Caller \/ (\E w \in Workers : Worker(w)) \/ CloseResults \/ Cancel

\* The Go scheduler runs every goroutine that can run; nobody has to cancel.
Fairness ==
    /\ WF_vars(Caller)
    /\ \A w \in Workers : WF_vars(Worker(w))
    /\ WF_vars(CloseResults)

Spec == Init /\ [][Next]_vars /\ Fairness

-----------------------------------------------------------------------------

Results == SubSeq(sent, 1, received)
Returned == run = "returned"
Held == {job[w] : w \in Workers} \ {0}

\* resultCh is closed only when no worker can send on it any more: a send on
\* a closed channel panics and takes the whole server down.
NoSendAfterClose ==
    closed => \A w \in Workers : pc[w] = "exited"

\* The buffer of len(jobs) is never full for a worker that has a result: no
\* worker waits for the caller, whatever the order of sends and receives.
SendNeverBlocks ==
    \A w \in Workers : pc[w] = "sending" => Len(sent) - received < ResultCap

\* A job taken from jobCh is at one worker or reported, never both, never
\* twice, and never lost, also when the context is cancelled halfway.
EveryTakenJobAccountedFor ==
    /\ Held \cup Range(sent) = 1..taken
    /\ Held \cap Range(sent) = {}
    /\ Cardinality(Range(sent)) = Len(sent)
    /\ \A v, w \in Workers : job[v] = job[w] /\ job[v] # 0 => v = w

\* What Run returns when nobody cancels: one result for each job.
ReturnsEveryJob ==
    Returned /\ ~cancelled => /\ Len(Results) = NumJobs
                              /\ Range(Results) = Jobs

\* Run returns only after the last process call of its workers has ended and
\* with all that they reported: no goroutine of the call outlives it.
NothingOutlivesRun ==
    Returned => /\ \A w \in Workers : pc[w] = "exited"
                /\ wg = 0
                /\ Results = sent

\* Every call of Run returns.
RunReturns == <>Returned

\* The pool does what ParallelMap promises to its callers.
Map == INSTANCE ParallelMap WITH
           handed <- taken, out <- Results, returned <- Returned
ImplementsParallelMap == Map!Spec
=============================================================================
