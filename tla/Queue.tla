-------------------------------- MODULE Queue --------------------------------
(***************************************************************************)
(* Queue.Queue and its subclasses (Lib/Queue.py): a list guarded by one    *)
(* mutex, and three conditions on it.  A call is a sequence of critical    *)
(* sections, one from the start of the call and one for each return from   *)
(* wait(); each is one action, with the notifications it makes.  Calls     *)
(* that fail at once (put_nowait and get_nowait finding no room or item,   *)
(* a task_done() too many, a negative timeout) change nothing.             *)
(***************************************************************************)
EXTENDS Condition, QueueOrder, FiniteSets

CONSTANTS
  Items,
  MaxSize,   \* maxsize: 0 for no limit
  MaxCalls   \* bound of the model on the calls made

QueueAssumption ==
  /\ CondAssumption /\ OrderAssumption
  /\ IsFiniteSet(Threads) /\ Items \subseteq Int /\ Items # {}
  /\ MaxSize \in Nat /\ MaxCalls \in Nat
  /\ Conds = {"not_empty", "not_full", "all_tasks_done"}

VARIABLES
  queue,
  unfinished_tasks,
  op,         \* the call each thread is in
  arg,        \* the item of its put
  fetched,    \* items each thread has got and not yet called task_done() for
  calls,      \* calls made so far
  interrupted \* history: an exception has left a waiter behind

vars == <<condVars, queue, unfinished_tasks, op, arg, fetched, calls, interrupted>>

Init ==
  /\ CondInit
  /\ queue = <<>> /\ unfinished_tasks = 0
  /\ op = [t \in Threads |-> "none"]
  /\ arg = [t \in Threads |-> CHOOSE x \in Items : TRUE]
  /\ fetched = [t \in Threads |-> 0]
  /\ calls = 0
  /\ interrupted = FALSE

Call(t) ==
  /\ op[t] = "none" /\ calls < MaxCalls
  /\ calls' = calls + 1
  /\ UNCHANGED interrupted

\* The return of the wait() inside a call.
Resume(t, o) ==
  /\ op[t] = o /\ stage[t] \in Resumable
  /\ UNCHANGED <<calls, interrupted>>

Finish(t) == op' = [op EXCEPT ![t] = "none"]

Full == MaxSize > 0 /\ Len(queue) = MaxSize

-------------------------------------------------------------------------------
\* Faulty: notifies the wrong condition.
PutNotifiesPutters(t, x) ==
  /\ Call(t) \/ (Resume(t, "put") /\ arg[t] = x)
  /\ ~Full
  /\ queue' = _put(queue, x) /\ unfinished_tasks' = unfinished_tasks + 1
  /\ Notify(t, "not_full", 1) /\ Finish(t)
  /\ UNCHANGED <<arg, fetched>>

Put(t, x) ==
  /\ Call(t) \/ (Resume(t, "put") /\ arg[t] = x)
  /\ ~Full
  /\ queue' = _put(queue, x)
  /\ unfinished_tasks' = unfinished_tasks + 1
  /\ Notify(t, "not_empty", 1)
  /\ Finish(t)
  /\ UNCHANGED <<arg, fetched>>

PutWait(t, x, timeout) ==
  /\ Call(t) /\ Full
  /\ Wait(t, "not_full", timeout)
  /\ op' = [op EXCEPT ![t] = "put"]
  /\ arg' = [arg EXCEPT ![t] = x]
  /\ UNCHANGED <<queue, unfinished_tasks, fetched>>

\* A wake-up that came too late: wait again, unless the time is over.
PutWaitAgain(t) ==
  /\ Resume(t, "put") /\ stage[t] = "notified" /\ Full
  /\ Wait(t, "not_full", timed[t])
  /\ UNCHANGED <<queue, unfinished_tasks, op, arg, fetched>>

PutFull(t) ==
  /\ Resume(t, "put") /\ timed[t] /\ Full
  /\ Return(t)
  /\ Finish(t)
  /\ UNCHANGED <<queue, unfinished_tasks, arg, fetched>>

Get(t) ==
  /\ Call(t) \/ Resume(t, "get")
  /\ queue # <<>>
  /\ queue' = DelItem(queue, _get(queue))
  /\ fetched' = [fetched EXCEPT ![t] = @ + 1]
  /\ Notify(t, "not_full", 1)
  /\ Finish(t)
  /\ UNCHANGED <<unfinished_tasks, arg>>

GetWait(t, timeout) ==
  /\ Call(t) /\ queue = <<>>
  /\ Wait(t, "not_empty", timeout)
  /\ op' = [op EXCEPT ![t] = "get"]
  /\ UNCHANGED <<queue, unfinished_tasks, arg, fetched>>

GetWaitAgain(t) ==
  /\ Resume(t, "get") /\ stage[t] = "notified" /\ queue = <<>>
  /\ Wait(t, "not_empty", timed[t])
  /\ UNCHANGED <<queue, unfinished_tasks, op, arg, fetched>>

\* Faulty: raises Empty after a timeout without looking at the queue again.
GetEmptyUntested(t) ==
  /\ Resume(t, "get") /\ timed[t]
  /\ Return(t) /\ Finish(t)
  /\ UNCHANGED <<queue, unfinished_tasks, arg, fetched>>

GetEmpty(t) ==
  /\ Resume(t, "get") /\ timed[t] /\ queue = <<>>
  /\ Return(t)
  /\ Finish(t)
  /\ UNCHANGED <<queue, unfinished_tasks, arg, fetched>>

\* A consumer calls task_done() once for each item it got, as the docstring asks.
TaskDone(t) ==
  /\ Call(t) /\ fetched[t] > 0
  /\ fetched' = [fetched EXCEPT ![t] = @ - 1]
  /\ unfinished_tasks > 0
  /\ unfinished_tasks' = unfinished_tasks - 1
  /\ IF unfinished_tasks = 1 THEN NotifyAll(t, "all_tasks_done") ELSE UNCHANGED condVars
  /\ UNCHANGED <<queue, op, arg>>

\* join() returns at once when there is nothing unfinished.
JoinWait(t) ==
  /\ Call(t) /\ unfinished_tasks > 0
  /\ Wait(t, "all_tasks_done", FALSE)
  /\ op' = [op EXCEPT ![t] = "join"]
  /\ UNCHANGED <<queue, unfinished_tasks, arg, fetched>>

JoinWaitAgain(t) ==
  /\ Resume(t, "join") /\ unfinished_tasks > 0
  /\ Wait(t, "all_tasks_done", FALSE)
  /\ UNCHANGED <<queue, unfinished_tasks, op, arg, fetched>>

JoinReturn(t) ==
  /\ Resume(t, "join") /\ unfinished_tasks = 0
  /\ Return(t)
  /\ Finish(t)
  /\ UNCHANGED <<queue, unfinished_tasks, arg, fetched>>

\* The condition the call waits on.
CondOf(t) == CASE op[t] = "get" -> "not_empty"
               [] op[t] = "put" -> "not_full"
               [] OTHER -> "all_tasks_done"

\* A timeout inside wait(), in two steps, neither of which holds the mutex.
TimeOut(t) ==
  /\ Expire(t) \/ RemoveWaiter(t, CondOf(t))
  /\ UNCHANGED <<queue, unfinished_tasks, op, arg, fetched, calls, interrupted>>

InterruptWait(t) ==
  /\ Interrupt(t, CondOf(t))
  /\ interrupted' = TRUE
  /\ UNCHANGED <<queue, unfinished_tasks, op, arg, fetched, calls>>

\* wait() re-acquires the mutex and raises; the call releases it and raises.
Raise(t) ==
  /\ stage[t] = "interrupted"
  /\ Return(t)
  /\ Finish(t)
  /\ UNCHANGED <<queue, unfinished_tasks, arg, fetched, calls, interrupted>>

\* The steps a thread takes inside a call once it has waited.
Proceed(t) ==
  \/ \E x \in Items : op[t] = "put" /\ Put(t, x)
  \/ op[t] = "get" /\ Get(t)
  \/ PutWaitAgain(t) \/ PutFull(t) \/ GetWaitAgain(t) \/ GetEmpty(t)
  \/ JoinWaitAgain(t) \/ JoinReturn(t) \/ TimeOut(t) \/ Raise(t)

Start(t) ==
  \/ \E x \in Items : Put(t, x) \/ \E timeout \in BOOLEAN : PutWait(t, x, timeout)
  \/ Get(t) \/ \E timeout \in BOOLEAN : GetWait(t, timeout)
  \/ TaskDone(t) \/ JoinWait(t)

Next == \E t \in Threads : Start(t) \/ Proceed(t) \/ InterruptWait(t)

\* Threads run, timeouts elapse and the mutex is granted in the end: the calls
\* that compete for it are finitely many.  Nobody has to make a call.
Fairness == \A t \in Threads : WF_vars(Proceed(t))

Spec == Init /\ [][Next]_vars /\ Fairness

-------------------------------------------------------------------------------
\* Calls of the given kind whose waiter is not in the list: notified, or timed
\* out and off the list, or released after they had given up.
InTransit(o, c) == {t \in Threads : op[t] = o} \ Range(waiters[c])

\* Nothing is left behind: while getters are listed as waiting, every item in the
\* queue has a getter on its way to it, and while putters are, every free slot has
\* a putter, unless an exception has left a waiter in the lists.
Claimed ==
  ~interrupted =>
    /\ waiters["not_empty"] # <<>> => Len(queue) <= Cardinality(InTransit("get", "not_empty"))
    /\ waiters["not_full"] # <<>>
         => MaxSize - Len(queue) <= Cardinality(InTransit("put", "not_full"))

\* No blocked get() is forgotten: an item in the queue is taken, by it or by another.
GettersServed ==
  \A t \in Threads : (op[t] = "get" /\ queue # <<>>) ~> (op[t] # "get" \/ queue = <<>>)

Abstract == INSTANCE BlockingQueue WITH
  unfinished <- unfinished_tasks, aborted <- interrupted

\* put(), get(), task_done() and join() are those of a blocking queue: Full and
\* Empty are raised only when they are true, other exceptions only come from
\* interrupts, and no call is left blocked beside what it waits for, joins in any
\* case and the others unless a call was interrupted.
Implements == Abstract!Spec
===============================================================================
