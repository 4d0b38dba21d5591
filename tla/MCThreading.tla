------------------------------ MODULE MCThreading ------------------------------
(***************************************************************************)
(* The instances of RLock and Queue for TLC.  A behaviour is one of the    *)
(* module that which names; the variables of the other one stay as they    *)
(* are at the start.                                                       *)
(***************************************************************************)
EXTENDS RLock

CONSTANTS Conds, Interruptible, Abandoned, Order, Items, MaxSize, MaxCalls

VARIABLES
  which, waiters, stage, timed, queue, unfinished_tasks, op, arg, fetched, calls,
  interrupted

queueVars == <<waiters, stage, timed, queue, unfinished_tasks, op, arg, fetched, calls,
               interrupted>>

Q == INSTANCE Queue

ASSUME QueueHasItsConstants == Q!QueueAssumption

InstanceInit == which \in {"rlock", "queue"} /\ Init /\ Q!Init

InstanceNext ==
  \/ which = "rlock" /\ Next /\ UNCHANGED <<which, queueVars>>
  \/ which = "queue" /\ Q!Next /\ UNCHANGED <<which, vars>>

InstanceSpec == InstanceInit /\ [][InstanceNext]_<<which, vars, queueVars>> /\ Q!Fairness

-------------------------------------------------------------------------------
\* While getters (putters) are listed as waiting in a queue, every item (free slot)
\* has a getter (putter) on its way to it.
Claimed == Q!Claimed

\* put(), get(), task_done() and join() are those of a blocking queue.
QueueImplements == Q!Implements
===============================================================================
