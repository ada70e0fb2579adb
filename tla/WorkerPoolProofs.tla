-------------------------- MODULE WorkerPoolProofs --------------------------
(***************************************************************************)
(* The safety properties of WorkerPool, for any set of workers and any     *)
(* number of jobs.                                                         *)
(***************************************************************************)
EXTENDS WorkerPool, FiniteSetTheorems, SequenceTheorems, TLAPS

Vanished == {w \in Workers : pc[w] = "exited"}

(* The wait group counts the workers that have not exited, and resultCh is   *)
(* closed only when there are none.                                          *)
WaitGroupInv ==
    /\ wg = Cardinality(Workers \ Vanished)
    /\ run = "spawning" \/ \A w \in Workers : pc[w] # "unborn"
    /\ closed => run # "spawning" /\ Vanished = Workers
    /\ \A w \in Vanished : cancelled \/ taken = NumJobs

(* Each job taken is with one worker or in the log, once.                    *)
JobInv ==
    /\ \A w \in Workers : job[w] # 0 <=> pc[w] \in {"processing", "sending"}
    /\ \A w \in Workers : job[w] <= taken
    /\ \A v, w \in Workers : job[v] = job[w] /\ job[v] # 0 => v = w
    /\ \A m \in 1..Len(sent) : sent[m] <= taken
    /\ \A m, n \in 1..Len(sent) : sent[m] = sent[n] => m = n
    /\ \A m \in 1..Len(sent), w \in Workers : sent[m] # job[w]
    /\ \A j \in 1..taken :
          (\E w \in Workers : job[w] = j) \/ (\E m \in 1..Len(sent) : sent[m] = j)

ReadInv ==
    /\ received <= Len(sent)
    /\ Returned => closed /\ received = Len(sent)

Inv == TypeOK /\ WaitGroupInv /\ JobInv /\ ReadInv

-----------------------------------------------------------------------------
(* A sequence without repetitions is as long as its range is large.          *)
LEMMA LengthOfInjective ==
    ASSUME NEW S, NEW s \in Seq(S),
           \A m, n \in 1..Len(s) : s[m] = s[n] => m = n
    PROVE  /\ IsFiniteSet(Range(s))
           /\ Cardinality(Range(s)) = Len(s)
  <1>1. /\ Len(s) \in Nat
        /\ DOMAIN s = 1..Len(s)
        /\ s \in [1..Len(s) -> S]
    BY LenProperties
  <1>2. s \in Surjection(1..Len(s), Range(s))
    BY <1>1 DEF Surjection, Range
  <1>3. s \in Injection(1..Len(s), Range(s))
    BY <1>1, <1>2 DEF Injection, IsInjective, Surjection
  <1>4. IsFiniteSet(1..Len(s)) /\ Cardinality(1..Len(s)) = Len(s)
    BY <1>1, FS_Interval
  <1> QED
    BY <1>2, <1>3, <1>4, FS_Surjection

(* One worker leaves: the wait group's counter stays a number.               *)
LEMMA OneWorkerLeaves ==
    ASSUME WaitGroupInv, NEW w \in Workers \ Vanished
    PROVE  /\ wg - 1 = Cardinality(Workers \ (Vanished \cup {w}))
           /\ wg - 1 \in Nat
  <1>1. IsFiniteSet(Workers \ Vanished)
    BY WorkersAssumption, FS_Difference
  <1>2. Workers \ (Vanished \cup {w}) = (Workers \ Vanished) \ {w}
    OBVIOUS
  <1>3. Cardinality((Workers \ Vanished) \ {w}) = Cardinality(Workers \ Vanished) - 1
    BY <1>1, FS_RemoveElement
  <1>4. /\ IsFiniteSet((Workers \ Vanished) \ {w})
        /\ Cardinality((Workers \ Vanished) \ {w}) \in Nat
    BY <1>1, FS_RemoveElement, FS_CardinalityType
  <1> QED
    BY <1>2, <1>3, <1>4 DEF WaitGroupInv

-----------------------------------------------------------------------------
\* Inv holds when Run is called.
LEMMA InitInv == Init => Inv
  <1> SUFFICES ASSUME Init PROVE Inv
    OBVIOUS
  <1> USE DEF Init
  <1>1. Vanished = {}
    BY DEF Vanished
  <1>2. Cardinality(Workers) \in Nat
    BY WorkersAssumption, FS_CardinalityType
  <1>3. TypeOK
    <2>1. <<>> \in Seq(Jobs)
      BY EmptySeq
    <2>2. taken \in 0..NumJobs /\ job \in [Workers -> 0..NumJobs]
      BY NumJobsAssumption
    <2>3. pc \in [Workers -> {"unborn", "select", "processing", "sending", "exited"}]
      OBVIOUS
    <2> QED
      BY <1>2, <2>1, <2>2, <2>3 DEF TypeOK
  <1>4. WaitGroupInv
    BY <1>1 DEF WaitGroupInv
  <1>5. JobInv /\ ReadInv
    BY DEF JobInv, ReadInv, Returned
  <1> QED
    BY <1>3, <1>4, <1>5 DEF Inv

\* Every step keeps the types.
LEMMA NextTypeOK ==
    ASSUME Inv, [Next]_vars
    PROVE  TypeOK'
  <1> USE DEF Inv, TypeOK
  <1>1. CASE Caller
    BY <1>1 DEF Caller, Spawn, StartCollecting, Receive, Return
  <1>2. ASSUME NEW w \in Workers, Take(w) PROVE TypeOK'
    BY <1>2, NumJobsAssumption DEF Take
  <1>3. ASSUME NEW w \in Workers, pc[w] = "select", Exit(w) PROVE TypeOK'
    <2>1. w \in Workers \ Vanished
      BY <1>3 DEF Vanished
    <2>2. wg - 1 \in Nat
      BY <2>1, OneWorkerLeaves
    <2> QED
      BY <1>3, <2>2 DEF Exit
  <1>4. ASSUME NEW w \in Workers, Process(w) PROVE TypeOK'
    BY <1>4 DEF Process
  <1>5. ASSUME NEW w \in Workers, Send(w) PROVE TypeOK'
    <2>1. job[w] \in Jobs
      BY <1>5 DEF Send, JobInv, Jobs
    <2>2. Append(sent, job[w]) \in Seq(Jobs)
      BY <2>1, AppendProperties
    <2> QED
      BY <1>5, <2>2, NumJobsAssumption DEF Send
  <1>6. CASE CloseResults \/ Cancel
    BY <1>6 DEF CloseResults, Cancel
  <1>7. CASE UNCHANGED vars
    BY <1>7 DEF vars
  <1> QED
    BY <1>1, <1>2, <1>3, <1>4, <1>5, <1>6, <1>7
       DEF Next, Worker, StopDrained, StopCancelled

\* Every step keeps the wait group the number of workers still there.
LEMMA NextWaitGroupInv ==
    ASSUME Inv, [Next]_vars
    PROVE  WaitGroupInv'
  <1> USE DEF Inv, TypeOK
  <1>1. CASE Caller
    <2>1. Vanished' = Vanished /\ UNCHANGED <<wg, taken, cancelled>>
      BY <1>1 DEF Caller, Spawn, StartCollecting, Receive, Return, Vanished
    <2>2. run' = "spawning" \/ \A w \in Workers : pc'[w] # "unborn"
      BY <1>1 DEF Caller, Spawn, StartCollecting, Receive, Return, WaitGroupInv
    <2>3. closed' = closed /\ (run # "spawning" => run' # "spawning")
      BY <1>1 DEF Caller, Spawn, StartCollecting, Receive, Return
    <2> QED
      BY <2>1, <2>2, <2>3 DEF WaitGroupInv
  <1>2. ASSUME NEW w \in Workers, Take(w) PROVE WaitGroupInv'
    <2>1. Vanished' = Vanished
      BY <1>2 DEF Take, Vanished
    <2>2. UNCHANGED <<wg, closed, run, cancelled>> /\ taken # NumJobs
      BY <1>2, NumJobsAssumption DEF Take
    <2>3. \A v \in Workers : pc[v] # "unborn" => pc'[v] # "unborn"
      BY <1>2 DEF Take
    <2>4. ~closed
      BY <1>2, Zenon DEF Take, WaitGroupInv, Vanished
    <2> QED
      BY <2>1, <2>2, <2>3, <2>4 DEF WaitGroupInv
  <1>3. ASSUME NEW w \in Workers, StopDrained(w) \/ StopCancelled(w)
        PROVE  WaitGroupInv'
    <2>1. w \in Workers \ Vanished
      BY <1>3 DEF StopDrained, StopCancelled, Vanished
    <2>2. Vanished' = Vanished \cup {w}
      BY <1>3 DEF StopDrained, StopCancelled, Exit, Vanished
    <2>3. wg' = Cardinality(Workers \ Vanished')
      BY <1>3, <2>1, <2>2, OneWorkerLeaves DEF StopDrained, StopCancelled, Exit
    <2>4. ~closed
      BY <2>1 DEF WaitGroupInv
    <2> QED
      BY <1>3, <2>1, <2>2, <2>3, <2>4
         DEF StopDrained, StopCancelled, Exit, WaitGroupInv
  <1>4. ASSUME NEW w \in Workers, Process(w) \/ Send(w) PROVE WaitGroupInv'
    <2>1. Vanished' = Vanished
      BY <1>4 DEF Process, Send, Vanished
    <2> QED
      BY <1>4, <2>1 DEF Process, Send, WaitGroupInv
  <1>5. CASE CloseResults
    <2>1. IsFiniteSet(Workers \ Vanished)
      BY WorkersAssumption, FS_Difference
    <2>2. Workers \ Vanished = {}
      BY <1>5, <2>1, FS_EmptySet DEF CloseResults, WaitGroupInv
    <2>3. Vanished' = Vanished
      BY <1>5 DEF CloseResults, Vanished
    <2> QED
      BY <1>5, <2>2, <2>3 DEF CloseResults, WaitGroupInv, Vanished
  <1>6. CASE Cancel \/ UNCHANGED vars
    <2>1. Vanished' = Vanished
      BY <1>6 DEF Cancel, Vanished, vars
    <2> QED
      BY <1>6, <2>1 DEF Cancel, WaitGroupInv, vars
  <1> QED
    BY <1>1, <1>2, <1>3, <1>4, <1>5, <1>6 DEF Next, Worker

\* Every step keeps each job taken in one place.
LEMMA NextJobInv ==
    ASSUME Inv, [Next]_vars
    PROVE  JobInv'
  <1> USE DEF Inv, TypeOK
  <1>1. CASE Caller
    <2>1. UNCHANGED <<taken, sent, job>>
      BY <1>1 DEF Caller, Spawn, StartCollecting, Receive, Return
    <2>2. \A w \in Workers : job[w] # 0 <=> pc'[w] \in {"processing", "sending"}
      BY <1>1 DEF Caller, Spawn, StartCollecting, Receive, Return, JobInv
    <2> QED
      BY <2>1, <2>2 DEF JobInv
  <1>2. ASSUME NEW w \in Workers, Take(w) PROVE JobInv'
    <2>1. /\ taken' = taken + 1 /\ sent' = sent
          /\ job' = [job EXCEPT ![w] = taken + 1]
          /\ pc' = [pc EXCEPT ![w] = "processing"]
          /\ job[w] = 0
      BY <1>2 DEF Take, JobInv
    <2>2. \A m \in 1..Len(sent) : sent[m] \in Nat
      <3>1. \A m \in 1..Len(sent) : sent[m] \in Jobs
        BY ElementOfSeq
      <3> QED
        BY <3>1, NumJobsAssumption DEF Jobs
    <2>3. taken \in Nat /\ \A v \in Workers : job[v] \in Nat
      BY NumJobsAssumption
    <2>4. \A v \in Workers : job'[v] # 0 <=> pc'[v] \in {"processing", "sending"}
      BY <2>1, <2>3 DEF JobInv
    <2>5. \A v \in Workers : job'[v] <= taken'
      BY <2>1, <2>3 DEF JobInv
    <2>6. \A u, v \in Workers : job'[u] = job'[v] /\ job'[u] # 0 => u = v
      BY <2>1, <2>3 DEF JobInv
    <2>7. /\ \A m \in 1..Len(sent) : sent[m] <= taken'
          /\ \A m \in 1..Len(sent), v \in Workers : sent[m] # job'[v]
      BY <2>1, <2>2, <2>3 DEF JobInv
    <2>8. ASSUME NEW j \in 1..taken'
          PROVE  \/ \E v \in Workers : job'[v] = j
                 \/ \E m \in 1..Len(sent) : sent[m] = j
      <3>1. CASE j = taken + 1
        BY <3>1, <2>1
      <3>2. CASE j \in 1..taken
        BY <3>2, <2>1 DEF JobInv
      <3> QED
        BY <3>1, <3>2, <2>1, <2>3
    <2> QED
      BY <2>1, <2>4, <2>5, <2>6, <2>7, <2>8 DEF JobInv
  <1>3. ASSUME NEW w \in Workers, StopDrained(w) \/ StopCancelled(w) \/ Process(w)
        PROVE  JobInv'
    <2>1. UNCHANGED <<taken, sent, job>>
      BY <1>3 DEF StopDrained, StopCancelled, Exit, Process
    <2>2. \A v \in Workers : job[v] # 0 <=> pc'[v] \in {"processing", "sending"}
      BY <1>3 DEF StopDrained, StopCancelled, Exit, Process, JobInv
    <2> QED
      BY <2>1, <2>2 DEF JobInv
  <1>4. ASSUME NEW w \in Workers, Send(w) PROVE JobInv'
    <2> DEFINE n == Len(sent)
    <2>1. /\ taken' = taken
          /\ sent' = Append(sent, job[w])
          /\ job' = [job EXCEPT ![w] = 0]
          /\ pc' = [pc EXCEPT ![w] = "select"]
          /\ job[w] # 0
      BY <1>4 DEF Send, JobInv
    <2>2. job[w] \in Jobs
      BY <2>1 DEF Jobs
    <2>3. /\ n \in Nat
          /\ Len(sent') = n + 1
          /\ \A m \in 1..n : sent'[m] = sent[m]
          /\ sent'[n + 1] = job[w]
      BY <2>1, <2>2, AppendProperties, LenProperties
    <2>4. \A m \in 1..n : sent[m] \in Jobs
      BY ElementOfSeq
    <2>5. \A v \in Workers : job'[v] = IF v = w THEN 0 ELSE job[v]
      BY <2>1
    <2>6. \A m \in 1..Len(sent') : m \in 1..n \/ m = n + 1
      BY <2>3
    <2> HIDE DEF n
    <2>7. \A v \in Workers : job'[v] # 0 <=> pc'[v] \in {"processing", "sending"}
      BY <2>1, <2>5 DEF JobInv
    <2>8. \A v \in Workers : job'[v] <= taken'
      BY <2>1, <2>5, NumJobsAssumption DEF JobInv
    <2>9. \A u, v \in Workers : job'[u] = job'[v] /\ job'[u] # 0 => u = v
      BY <2>5 DEF JobInv
    <2>10. \A m \in 1..Len(sent') : sent'[m] <= taken'
      BY <2>1, <2>3, <2>6 DEF JobInv, n
    <2>11. \A k, m \in 1..Len(sent') : sent'[k] = sent'[m] => k = m
      BY <2>3, <2>6 DEF JobInv, n
    <2>12. \A m \in 1..Len(sent'), v \in Workers : sent'[m] # job'[v]
      <3>1. \A m \in 1..n : sent[m] # 0
        BY <2>4 DEF Jobs
      <3> QED
        BY <3>1, <2>1, <2>3, <2>5, <2>6 DEF JobInv, n
    <2>13. ASSUME NEW j \in 1..taken'
           PROVE  \/ \E v \in Workers : job'[v] = j
                  \/ \E m \in 1..Len(sent') : sent'[m] = j
      <3>1. CASE j = job[w]
        <4>1. n + 1 \in 1..Len(sent')
          BY <2>3
        <4> QED
          BY <3>1, <4>1, <2>3
      <3>2. ASSUME j # job[w], NEW v \in Workers, job[v] = j
            PROVE  \E u \in Workers : job'[u] = j
        BY <3>2, <2>5
      <3>3. ASSUME NEW m \in 1..n, sent[m] = j
            PROVE  \E k \in 1..Len(sent') : sent'[k] = j
        <4>1. m \in 1..Len(sent')
          BY <2>3
        <4> QED
          BY <3>3, <4>1, <2>3
      <3>4. (\E v \in Workers : job[v] = j) \/ (\E m \in 1..n : sent[m] = j)
        BY <2>1 DEF JobInv, n
      <3> QED
        BY <3>1, <3>2, <3>3, <3>4
    <2> QED
      BY <2>7, <2>8, <2>9, <2>10, <2>11, <2>12, <2>13 DEF JobInv
  <1>5. CASE CloseResults \/ Cancel \/ UNCHANGED vars
    BY <1>5 DEF CloseResults, Cancel, vars, JobInv
  <1> QED
    BY <1>1, <1>2, <1>3, <1>4, <1>5 DEF Next, Worker

\* Every step keeps the caller within what was sent.
LEMMA NextReadInv ==
    ASSUME Inv, [Next]_vars
    PROVE  ReadInv'
  <1> USE DEF Inv, TypeOK
  <1>0. Len(sent) \in Nat
    BY LenProperties
  <1>1. CASE Caller
    BY <1>0, <1>1
       DEF Caller, Spawn, StartCollecting, Receive, Return, ReadInv, Returned
  <1>2. ASSUME NEW w \in Workers, Take(w) \/ StopDrained(w) \/ StopCancelled(w) \/ Process(w)
        PROVE  ReadInv'
    BY <1>2 DEF Take, StopDrained, StopCancelled, Exit, Process, ReadInv, Returned
  <1>3. ASSUME NEW w \in Workers, Send(w) PROVE ReadInv'
    <2>1. job[w] \in Jobs
      BY <1>3 DEF Send, JobInv, Jobs
    <2>2. Len(sent') = Len(sent) + 1
      BY <1>3, <2>1, AppendProperties DEF Send
    <2>3. ~closed
      BY <1>3 DEF Send, WaitGroupInv, Vanished
    <2> QED
      BY <1>0, <1>3, <2>2, <2>3 DEF Send, ReadInv, Returned
  <1>4. CASE CloseResults \/ Cancel \/ UNCHANGED vars
    BY <1>4 DEF CloseResults, Cancel, vars, ReadInv, Returned
  <1> QED
    BY <1>1, <1>2, <1>3, <1>4 DEF Next, Worker

(* Inv is inductive: it holds in every state of every call of Run.           *)
THEOREM Invariance == Spec => []Inv
  <1>1. Inv /\ [Next]_vars => Inv'
    BY NextTypeOK, NextWaitGroupInv, NextJobInv, NextReadInv DEF Inv
  <1> QED
    BY InitInv, <1>1, PTL DEF Spec

-----------------------------------------------------------------------------

\* Every variable of a call of Run keeps its type: the wait group's counter
\* never goes below zero, which would panic.
THEOREM TypeCorrect == Spec => []TypeOK
  BY Invariance, PTL DEF Inv

\* No worker can send on resultCh once it is closed.
THEOREM NeverSendsOnClosedChannel == Spec => []NoSendAfterClose
  <1>1. Inv => NoSendAfterClose
    BY DEF Inv, WaitGroupInv, NoSendAfterClose, Vanished
  <1> QED
    BY <1>1, Invariance, PTL

\* Jobs in one place each are accounted for.
LEMMA JobsAccountedFor == Inv => EveryTakenJobAccountedFor
  <1> SUFFICES ASSUME Inv PROVE EveryTakenJobAccountedFor
    OBVIOUS
  <1> USE DEF Inv, TypeOK
  <1>1. DOMAIN sent = 1..Len(sent)
    BY LenProperties
  <1>2. \A m \in 1..Len(sent) : sent[m] \in 1..taken
    BY ElementOfSeq, NumJobsAssumption DEF JobInv, Jobs
  <1>3. \A w \in Workers : job[w] # 0 => job[w] \in 1..taken
    BY NumJobsAssumption DEF JobInv
  <1>4. Held \cup Range(sent) = 1..taken
    <2>1. Held \cup Range(sent) \subseteq 1..taken
      BY <1>1, <1>2, <1>3 DEF Held, Range
    <2>2. 1..taken \subseteq Held \cup Range(sent)
      BY <1>1 DEF JobInv, Held, Range
    <2> QED
      BY <2>1, <2>2
  <1>5. Held \cap Range(sent) = {}
    BY <1>1 DEF JobInv, Held, Range
  <1>6. Cardinality(Range(sent)) = Len(sent)
    BY LengthOfInjective DEF JobInv
  <1> QED
    BY <1>4, <1>5, <1>6 DEF EveryTakenJobAccountedFor, JobInv

\* Jobs are neither lost nor done twice, under any cancellation.
THEOREM JobsAreAccountedFor == Spec => []EveryTakenJobAccountedFor
  BY JobsAccountedFor, Invariance, PTL

\* A worker that has a result never waits for room in resultCh.
THEOREM WorkersNeverBlock == Spec => []SendNeverBlocks
  <1>1. ASSUME Inv, NEW w \in Workers, pc[w] = "sending"
        PROVE  Len(sent) - received < ResultCap
    <2>0. /\ EveryTakenJobAccountedFor
          /\ taken \in 0..NumJobs /\ received \in Nat /\ sent \in Seq(Jobs)
          /\ \A m, n \in 1..Len(sent) : sent[m] = sent[n] => m = n
      BY <1>1, JobsAccountedFor DEF Inv, TypeOK, JobInv
    <2>1. job[w] \in 1..taken
      BY <1>1, NumJobsAssumption DEF Inv, TypeOK, JobInv
    <2>2. Range(sent) \subseteq (1..taken) \ {job[w]}
      <3>1. job[w] \in Held
        BY <2>1 DEF Held
      <3> QED
        BY <2>0, <3>1 DEF EveryTakenJobAccountedFor
    <2>3. IsFiniteSet(1..taken) /\ Cardinality(1..taken) = taken
      BY <2>0, NumJobsAssumption, FS_Interval
    <2>4. /\ IsFiniteSet((1..taken) \ {job[w]})
          /\ Cardinality((1..taken) \ {job[w]}) = taken - 1
      BY <2>1, <2>3, FS_RemoveElement
    <2>5. Cardinality(Range(sent)) <= taken - 1
      BY <2>2, <2>4, FS_Subset
    <2>6. Len(sent) <= taken - 1
      BY <2>0, <2>5, LengthOfInjective
    <2> QED
      BY <2>0, <2>6, NumJobsAssumption, LenProperties DEF ResultCap
  <1>2. Inv => SendNeverBlocks
    BY <1>1 DEF SendNeverBlocks
  <1> QED
    BY <1>2, Invariance, PTL

\* When Run has returned, its results are all that was sent.
LEMMA ReturnedLog == Inv /\ Returned => Results = sent /\ Vanished = Workers
  <1> SUFFICES ASSUME Inv, Returned PROVE Results = sent /\ Vanished = Workers
    OBVIOUS
  <1>1. Results = sent
    BY SubSeqFull DEF Inv, TypeOK, ReadInv, Results
  <1> QED
    BY <1>1 DEF Inv, ReadInv, WaitGroupInv

\* When Run returns no goroutine of it is left behind.
THEOREM NoGoroutineLeaks == Spec => []NothingOutlivesRun
  <1>1. ASSUME Inv, Returned PROVE wg = 0
    <2>1. Workers \ Vanished = {}
      BY <1>1, ReturnedLog
    <2> QED
      BY <2>1, <1>1, FS_EmptySet DEF Inv, WaitGroupInv
  <1>2. Inv => NothingOutlivesRun
    BY <1>1, ReturnedLog DEF NothingOutlivesRun, Vanished
  <1> QED
    BY <1>2, Invariance, PTL

\* Run returns one result for each job unless its context was cancelled.
THEOREM RunIsComplete == Spec => []ReturnsEveryJob
  <1>1. ASSUME Inv, Returned, ~cancelled
        PROVE  Len(Results) = NumJobs /\ Range(Results) = Jobs
    <2>1. Results = sent /\ Vanished = Workers
      BY <1>1, ReturnedLog
    <2>2. taken = NumJobs
      BY <1>1, <2>1, WorkersAssumption DEF Inv, WaitGroupInv
    <2>3. Held = {}
      BY <1>1, <2>1 DEF Held, Inv, JobInv, Vanished
    <2>4. Range(sent) = Jobs /\ Cardinality(Range(sent)) = Len(sent)
      BY <1>1, <2>2, <2>3, JobsAccountedFor DEF EveryTakenJobAccountedFor, Jobs
    <2>5. Cardinality(Jobs) = NumJobs
      BY NumJobsAssumption, FS_Interval DEF Jobs
    <2> QED
      BY <2>1, <2>4, <2>5
  <1>2. Inv => ReturnsEveryJob
    BY <1>1 DEF ReturnsEveryJob
  <1> QED
    BY <1>2, Invariance, PTL

-----------------------------------------------------------------------------
(* Refinement of ParallelMap.                                                *)

LEMMA ResultsOfTheLog ==
    ASSUME TypeOK, ReadInv
    PROVE  /\ Results \in Seq(Jobs)
           /\ Len(Results) = received
           /\ \A m \in 1..received : Results[m] = sent[m]
  <1>1. \A m \in 1..received : sent[m] \in Jobs
    BY ElementOfSeq, LenProperties DEF TypeOK, ReadInv
  <1> QED
    BY <1>1, SubSeqProperties DEF TypeOK, Results

\* The receiving step of the caller reports one more job.
LEMMA ReceiveReports ==
    ASSUME Inv, Receive
    PROVE  \E j \in 1..NumJobs : Map!Report(j)
  <1> DEFINE j == sent[received + 1]
  <1>1. /\ received \in Nat /\ Len(sent) \in Nat /\ received < Len(sent)
        /\ received' = received + 1 /\ sent' = sent
      BY LenProperties DEF Inv, TypeOK, Receive
  <1>2. received + 1 \in 1..Len(sent)
    BY <1>1
  <1>3. j \in Jobs /\ j \in 1..taken
    <2>1. j \in Jobs
      BY <1>2, ElementOfSeq DEF Inv, TypeOK
    <2> QED
      BY <1>2, <2>1, NumJobsAssumption DEF Inv, JobInv, TypeOK, Jobs
  <1>4. /\ Results \in Seq(Jobs) /\ Len(Results) = received
        /\ \A m \in 1..received : Results[m] = sent[m]
    BY ResultsOfTheLog DEF Inv
  <1>5. j \notin Range(Results)
    <2> SUFFICES ASSUME NEW m \in 1..received, sent[m] = j PROVE FALSE
      BY <1>4, LenProperties DEF Range
    <2>1. m \in 1..Len(sent) /\ m # received + 1
      BY <1>1
    <2> QED
      BY <1>2, <2>1 DEF Inv, JobInv
  <1>6. Results' = Append(Results, j)
    <2>1. Results' = SubSeq(sent, 1, received + 1)
      BY <1>1 DEF Results
    <2>2. SubSeq(sent, 1, received + 1) = SubSeq(sent, 1, received) \o <<j>>
      BY <1>1, <1>2, SubSeqRecursiveSecond DEF Inv, TypeOK
    <2>3. Append(Results, j) = Results \o <<j>>
      BY <1>3, <1>4, AppendIsConcat
    <2> QED
      BY <2>1, <2>2, <2>3 DEF Results
  <1>7. Map!Report(j)
    BY <1>3, <1>5, <1>6 DEF Map!Report, Map!Range, Range, Receive, Returned
  <1> QED
    BY <1>3, <1>7 DEF Jobs

\* When the caller returns, all that was handed out is reported.
LEMMA ReturnReturns ==
    ASSUME Inv, Return
    PROVE  Map!Return
  <1>1. closed /\ received = Len(sent) /\ sent \in Seq(Jobs)
    BY DEF Inv, TypeOK, Return
  <1>2. Results = sent
    BY <1>1, SubSeqFull DEF Results
  <1>3. Vanished = Workers
    BY <1>1 DEF Inv, WaitGroupInv
  <1>4. Held = {}
    BY <1>3 DEF Held, Inv, JobInv, Vanished
  <1>5. Range(Results) = 1..taken
    BY <1>2, <1>4, JobsAccountedFor DEF EveryTakenJobAccountedFor
  <1>6. cancelled \/ taken = NumJobs
    BY <1>3, WorkersAssumption DEF Inv, WaitGroupInv
  <1>7. Results' = Results
    BY DEF Results, Return
  <1> QED
    BY <1>5, <1>6, <1>7 DEF Map!Return, Map!Range, Range, Return, Returned

\* Every step maps to a step of ParallelMap or a stutter.
LEMMA StepRefines ==
    ASSUME Inv, [Next]_vars
    PROVE  [Map!Next]_(Map!vars)
  <1>1. ASSUME NEW w \in Workers, Spawn(w) PROVE UNCHANGED Map!vars
    BY <1>1 DEF Spawn, Map!vars, Results, Returned
  <1>2. CASE StartCollecting
    BY <1>2 DEF StartCollecting, Map!vars, Results, Returned
  <1>3. CASE Receive
    BY <1>3, ReceiveReports DEF Map!Next
  <1>4. CASE Return
    BY <1>4, ReturnReturns DEF Map!Next
  <1>5. ASSUME NEW w \in Workers, Take(w) PROVE Map!HandOut
    <2>1. ~Returned
      BY <1>5 DEF Take, Inv, ReadInv, WaitGroupInv, Vanished
    <2> QED
      BY <1>5, <2>1, NumJobsAssumption
         DEF Take, Inv, TypeOK, Map!HandOut, Results, Returned
  <1>6. ASSUME NEW w \in Workers, StopDrained(w) \/ StopCancelled(w) \/ Process(w)
        PROVE  UNCHANGED Map!vars
    BY <1>6 DEF StopDrained, StopCancelled, Exit, Process, Map!vars, Results, Returned
  <1>7. ASSUME NEW w \in Workers, Send(w) PROVE UNCHANGED Map!vars
    <2>1. job[w] \in Jobs
      BY <1>7 DEF Send, Inv, TypeOK, JobInv, Jobs
    <2>2. /\ sent \in Seq(Jobs) /\ Len(sent) \in Nat
          /\ received \in Nat /\ received <= Len(sent)
      BY LenProperties DEF Inv, TypeOK, ReadInv
    <2>3. /\ sent' = Append(sent, job[w])
          /\ sent' \in Seq(Jobs)
          /\ Len(sent') = Len(sent) + 1
          /\ \A m \in 1..Len(sent) : sent'[m] = sent[m]
      BY <1>7, <2>1, <2>2, AppendProperties DEF Send
    <2>4. received' = received
      BY <1>7 DEF Send
    <2>5. \A m \in 1..received : m \in 1..Len(sent) /\ sent'[m] \in Jobs
      BY <2>2, <2>3, ElementOfSeq
    <2>6. /\ Results' \in Seq(Jobs) /\ Len(Results') = received'
          /\ \A m \in 1..received' : Results'[m] = sent'[m]
      BY <2>2, <2>5, <2>4, SubSeqProperties DEF Results
    <2>7. /\ Results \in Seq(Jobs) /\ Len(Results) = received
          /\ \A m \in 1..received : Results[m] = sent[m]
      BY ResultsOfTheLog DEF Inv
    <2>8. Results' = Results
      BY <2>2, <2>3, <2>6, <2>7, <2>4, SeqEqual
    <2> QED
      BY <1>7, <2>8 DEF Send, Map!vars, Returned
  <1>8. CASE CloseResults
    BY <1>8 DEF CloseResults, Map!vars, Results, Returned
  <1>9. CASE Cancel
    BY <1>9 DEF Cancel, Map!Next, Map!Cancel, Results, Returned
  <1>10. CASE UNCHANGED vars
    BY <1>10 DEF vars, Map!vars, Results, Returned
  <1> QED
    BY <1>1, <1>2, <1>3, <1>4, <1>5, <1>6, <1>7, <1>8, <1>9, <1>10
       DEF Next, Caller, Worker, Map!Next

\* Whatever its workers do, a call of Run does nothing that ParallelMap does
\* not allow: the safety half of ImplementsParallelMap.
THEOREM RefinesParallelMap == Spec => Map!SafeSpec
  <1>1. Init => Map!Init
    <2> SUFFICES ASSUME Init PROVE Map!Init
      OBVIOUS
    <2>1. Results = <<>>
      BY SubSeqEmpty DEF Init, Results
    <2> QED
      BY <2>1 DEF Init, Map!Init, Returned
  <1>2. Inv /\ [Next]_vars => [Map!Next]_(Map!vars)
    BY StepRefines
  <1> QED
    BY <1>1, <1>2, Invariance, PTL DEF Spec, Map!SafeSpec
=============================================================================
