---------------------------- MODULE BlockingQueue ----------------------------
(***************************************************************************)
(* What a Queue.Queue promises to the threads that use it (Lib/Queue.py):  *)
(* a buffer of at most MaxSize items (0: no limit), calls that complete    *)
(* when it has room, an item or no unfinished task, and, for put and get   *)
(* with a timeout, that fail only when it does not.  Nothing is said of    *)
(* locks, conditions and notifications.                                    *)
(***************************************************************************)
EXTENDS QueueOrder

CONSTANTS Threads, Items, MaxSize

VARIABLES
  queue,
  unfinished,   \* tasks put and not yet reported done
  op,           \* the call each thread is blocked in
  arg,          \* the item of a blocked put
  aborted       \* calls have been interrupted

vars == <<queue, unfinished, op, arg, aborted>>

Init ==
  /\ queue = <<>> /\ unfinished = 0
  /\ op = [t \in Threads |-> "none"]
  /\ arg \in [Threads -> Items]
  /\ aborted = FALSE

Full == MaxSize > 0 /\ Len(queue) >= MaxSize
Finish(t) == op' = [op EXCEPT ![t] = "none"]

Block(t, o, x) ==
  /\ op[t] = "none"
  /\ op' = [op EXCEPT ![t] = o]
  /\ arg' = [arg EXCEPT ![t] = x]
  /\ UNCHANGED <<queue, unfinished, aborted>>

\* put(x), having blocked or not.
Put(t, x) ==
  /\ op[t] = "none" \/ (op[t] = "put" /\ arg[t] = x)
  /\ ~Full
  /\ queue' = _put(queue, x)
  /\ unfinished' = unfinished + 1
  /\ Finish(t)
  /\ UNCHANGED <<arg, aborted>>

Get(t) ==
  /\ op[t] \in {"none", "get"}
  /\ queue # <<>>
  /\ queue' = DelItem(queue, _get(queue))
  /\ Finish(t)
  /\ UNCHANGED <<unfinished, arg, aborted>>

TaskDone(t) ==
  /\ op[t] = "none" /\ unfinished > 0
  /\ unfinished' = unfinished - 1
  /\ UNCHANGED <<queue, op, arg, aborted>>

Join(t) ==
  /\ op[t] = "join" /\ unfinished = 0
  /\ Finish(t)
  /\ UNCHANGED <<queue, unfinished, arg, aborted>>

\* Full and Empty.
TimeOut(t) ==
  /\ (op[t] = "get" /\ queue = <<>>) \/ (op[t] = "put" /\ Full)
  /\ Finish(t)
  /\ UNCHANGED <<queue, unfinished, arg, aborted>>

\* A blocking call is interrupted, and an exception comes out of it.
Interrupt(t) ==
  /\ op[t] \in {"get", "put"}
  /\ aborted' = TRUE
  /\ UNCHANGED <<queue, unfinished, op, arg>>

Abort(t) ==
  /\ aborted /\ op[t] \in {"get", "put"}
  /\ Finish(t)
  /\ UNCHANGED <<queue, unfinished, arg, aborted>>

BlockedPut(t) == op[t] = "put" /\ Put(t, arg[t])
BlockedGet(t) == op[t] = "get" /\ Get(t)

Next ==
  \E t \in Threads :
    \/ \E o \in {"put", "get", "join"}, x \in Items : Block(t, o, x)
    \/ \E x \in Items : Put(t, x)
    \/ Get(t) \/ TaskDone(t) \/ Join(t)
    \/ TimeOut(t) \/ Interrupt(t) \/ Abort(t)

\* Joins are not left waiting for nothing, nor, unless calls are interrupted, are
\* items left in the queue while threads are blocked in get, or room while they
\* are blocked in put.
Progress ==
  /\ \A t \in Threads : WF_vars(Join(t))
  /\ WF_vars(~aborted /\ \E t \in Threads : BlockedGet(t))
  /\ WF_vars(~aborted /\ \E t \in Threads : BlockedPut(t))

Spec == Init /\ [][Next]_vars /\ Progress
===============================================================================
