------------------------------ MODULE MCProcesses ------------------------------
(***************************************************************************)
(* The instances of SemCondition and MPQueue for TLC: what processes share *)
(* through semaphores and pipes.  A behaviour is one of the module that    *)
(* which names; the variables of the other one stay as they are at the     *)
(* start.                                                                  *)
(***************************************************************************)
EXTENDS SemCondition

CONSTANTS Procs, Root, MaxSize, PipeSize, MaxPuts, Cancellers, Failers

VARIABLES which, sem, rlock, wlock, cond, pipe, unfinished, q

queueVars == <<sem, rlock, wlock, cond, pipe, unfinished, q>>

JQ == INSTANCE MPQueue

ASSUME ConditionHasItsConstants == SemConditionAssumption
ASSUME QueueHasItsConstants == JQ!MPQueueAssumption

InstanceInit == which \in {"condition", "queue"} /\ Init /\ JQ!Init

InstanceNext ==
  \/ which = "condition" /\ Next /\ UNCHANGED <<which, queueVars>>
  \/ which = "queue" /\ JQ!Next /\ UNCHANGED <<which, vars>>

InstanceSpec ==
  InstanceInit /\ [][InstanceNext]_<<which, vars, queueVars>> /\ Fairness /\ JQ!Fairness

-------------------------------------------------------------------------------
\* The assertions of multiprocessing.Condition.notify() hold, notify() and notify_all()
\* see sleepers out, and a notifier returns: AssertionsHold, NotifyWakes and
\* NotifyReturns of SemCondition.

\* Every item on its way, or received and not done, is counted as unfinished, unless
\* somebody is inside put().
CountCovers == JQ!CountCovers

\* A JoinableQueue delivers the items of each process once and in order.
ItemsDelivered == JQ!Implements

\* join_thread() returns when all that was put is in the pipe, or the feeder failed.
FlushedAtReturn == JQ!FlushedAtReturn

\* An exiting process whose children are dead ends, if the pipe is read.
ExitEnds == JQ!ExitEnds
===============================================================================
