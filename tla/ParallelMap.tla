---------------------------- MODULE ParallelMap ----------------------------
(***************************************************************************)
(* What a caller of the worker pool is promised (Pool.Run, Dispatch): the  *)
(* jobs are handed to the process function in order, each one at most      *)
(* once; every job that was handed out is reported exactly once, in any    *)
(* order; and the call returns when all that was handed out is reported,   *)
(* which is everything unless the context was cancelled.  There are no     *)
(* goroutines, channels or wait groups here.                               *)
(***************************************************************************)
EXTENDS Naturals, Sequences, Functions

CONSTANTS
    NumJobs,      \* len(jobs): the jobs are 1..NumJobs
    Cancellable   \* can the context given to Run be cancelled?

VARIABLES
    handed,       \* jobs 1..handed were given to the process function
    out,          \* the results, one per reported job, in completion order
    cancelled,    \* the context is done
    returned      \* Run has returned out

vars == <<handed, out, cancelled, returned>>

Init ==
    /\ handed = 0
    /\ out = <<>>
    /\ cancelled = FALSE
    /\ returned = FALSE

HandOut ==
    /\ ~returned
    /\ handed < NumJobs
    /\ handed' = handed + 1
    /\ UNCHANGED <<out, cancelled, returned>>

Report(j) ==
    /\ ~returned
    /\ j \in (1..handed) \ Range(out)
    /\ out' = Append(out, j)
    /\ UNCHANGED <<handed, cancelled, returned>>

Return ==
    /\ ~returned
    /\ Range(out) = 1..handed
    /\ cancelled \/ handed = NumJobs
    /\ returned' = TRUE
    /\ UNCHANGED <<handed, out, cancelled>>

Cancel ==
    /\ Cancellable
    /\ ~cancelled
    /\ cancelled' = TRUE
    /\ UNCHANGED <<handed, out, returned>>

Next == HandOut \/ (\E j \in 1..NumJobs : Report(j)) \/ Return \/ Cancel

SafeSpec == Init /\ [][Next]_vars

\* Every call returns, although nothing forces a cancellation.
Spec ==
    /\ SafeSpec
    /\ WF_vars(HandOut)
    /\ WF_vars(\E j \in 1..NumJobs : Report(j))
    /\ WF_vars(Return)
============================================================================
