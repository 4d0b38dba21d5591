------------------------------- MODULE NRMutex -------------------------------
(***************************************************************************)
(* The NonRecursiveMutex under every PyThread lock on Windows              *)
(* (Python/thread_nt.h).  owned counts the threads that hold or wait for   *)
(* the mutex, minus one; only Interlocked instructions touch it.  hevent   *)
(* is an auto-reset event: a wait consumes it.  Each interlocked           *)
(* instruction, plain store and event call is a step of its own, so the    *)
(* steps of threads entering and leaving interleave freely.                *)
(***************************************************************************)
EXTENDS Integers, FiniteSets

CONSTANTS
  Threads,
  NoThread   \* thread_id = 0

ASSUME ThreadsAssumption == IsFiniteSet(Threads) /\ NoThread \notin Threads

VARIABLES
  owned,       \* LONG owned: -1 when no thread has entered
  thread_id,
  hevent,      \* the event is signalled
  pc,          \* where each thread is in Enter.../LeaveNonRecursiveMutex
  holder       \* whose Enter returned last and was not yet matched by a Leave

vars == <<owned, thread_id, hevent, pc, holder>>

\* Type invariant of the variables of the mutex and of the threads inside it;
\* owned has no bound of its own.
TypeOK ==
  /\ owned \in Int
  /\ thread_id \in Threads \cup {NoThread}
  /\ hevent \in BOOLEAN
  /\ pc \in [Threads -> {"out", "wait", "own", "leave", "signal"}]
  /\ holder \in Threads \cup {NoThread}

Init ==
  /\ owned = -1
  /\ thread_id = NoThread
  /\ hevent = FALSE
  /\ pc = [t \in Threads |-> "out"]
  /\ holder = NoThread

Goto(t, from, to) == pc[t] = from /\ pc' = [pc EXCEPT ![t] = to]

\* Faulty: stores 0 without the comparison.
TryEnterBlind(t) ==
  /\ Goto(t, "out", "own")
  /\ owned' = 0
  /\ UNCHANGED <<thread_id, hevent, holder>>

\* Enter, wait = FALSE: InterlockedCompareExchange(&owned, 0, -1).  When it
\* fails the call returns WAIT_TIMEOUT and nothing changes.
TryEnter(t) ==
  /\ owned = -1
  /\ Goto(t, "out", "own")
  /\ owned' = 0
  /\ UNCHANGED <<thread_id, hevent, holder>>

\* Enter, wait = TRUE: InterlockedIncrement, then WaitForSingleObject unless it gave 0.
Enter(t) ==
  /\ Goto(t, "out", IF owned + 1 = 0 THEN "own" ELSE "wait")
  /\ owned' = owned + 1
  /\ UNCHANGED <<thread_id, hevent, holder>>

\* WaitForSingleObject returns and resets the event.
Wake(t) ==
  /\ hevent
  /\ Goto(t, "wait", "own")
  /\ hevent' = FALSE
  /\ UNCHANGED <<owned, thread_id, holder>>

\* The end of Enter: record the owner and return WAIT_OBJECT_0.
EnterReturn(t) ==
  /\ Goto(t, "own", "out")
  /\ thread_id' = t
  /\ holder' = t
  /\ UNCHANGED <<owned, hevent>>

\* The start of Leave, by any thread while the lock is held (a lock need not
\* be released by the thread that acquired it).
Leave(t) ==
  /\ holder # NoThread
  /\ Goto(t, "out", "leave")
  /\ thread_id' = NoThread
  /\ holder' = NoThread
  /\ UNCHANGED <<owned, hevent>>

\* Faulty: the event is set although nobody waits, ...
LeaveAlwaysSignals(t) ==
  /\ Goto(t, "leave", IF owned - 1 < -1 THEN "out" ELSE "signal")
  /\ owned' = owned - 1
  /\ UNCHANGED <<thread_id, hevent, holder>>

\* ... or is not set for the last waiter.
LeaveForgetsLast(t) ==
  /\ Goto(t, "leave", IF owned - 1 <= 0 THEN "out" ELSE "signal")
  /\ owned' = owned - 1
  /\ UNCHANGED <<thread_id, hevent, holder>>

\* InterlockedDecrement; SetEvent follows unless it gave a negative number.
LeaveDecrement(t) ==
  /\ Goto(t, "leave", IF owned - 1 < 0 THEN "out" ELSE "signal")
  /\ owned' = owned - 1
  /\ UNCHANGED <<thread_id, hevent, holder>>

LeaveSetEvent(t) ==
  /\ Goto(t, "signal", "out")
  /\ hevent' = TRUE
  /\ UNCHANGED <<owned, thread_id, holder>>

\* What a thread inside Enter or Leave does without the client's doing.
Inside(t) == Wake(t) \/ EnterReturn(t) \/ LeaveDecrement(t) \/ LeaveSetEvent(t)

Next == \E t \in Threads : TryEnter(t) \/ Enter(t) \/ Leave(t) \/ Inside(t)

\* The operating system runs the threads inside the mutex; when and whether
\* the client enters or leaves is its own affair.
Fairness ==
  /\ WF_vars(\E t \in Threads : Wake(t))
  /\ \A t \in Threads :
       WF_vars(EnterReturn(t) \/ LeaveDecrement(t) \/ LeaveSetEvent(t))

Spec == Init /\ [][Next]_vars /\ Fairness

-------------------------------------------------------------------------------
Waiters == {t \in Threads : pc[t] = "wait"}

\* The mutex is in somebody's hands: returned to a client, about to be, or
\* in the first half of a Leave.
Busy == holder # NoThread \/ \E t \in Threads : pc[t] \in {"own", "leave"}

\* The mutex is on its way to a waiter: SetEvent is due or has been called.
HandingOver == hevent \/ \E t \in Threads : pc[t] = "signal"

\* One token, in one place: two threads never hold the mutex, an event is
\* never set twice for one Leave, and a Leave never runs beside a holder.
OneToken ==
  /\ \A s, t \in Threads :
       /\ pc[s] \in {"own", "leave", "signal"}
       /\ pc[t] \in {"own", "leave", "signal"}
       => s = t
  /\ holder # NoThread =>
       \A t \in Threads : pc[t] \notin {"own", "leave", "signal"}
  /\ hevent => ~Busy /\ \A t \in Threads : pc[t] # "signal"

\* owned = (holder, if any) + (waiters) - 1, whatever the interleaving of the
\* increments, decrements and compare-exchanges.
OwnedCounts == owned + 1 = Cardinality(Waiters) + (IF Busy THEN 1 ELSE 0)

\* No lost wake-up: while a thread waits, the mutex is held or is being handed
\* over; and a hand-over always has a waiter to take it.
NoLostWakeup == /\ Waiters # {} => Busy \/ HandingOver
                /\ HandingOver => Waiters # {}

\* thread_id names the holder for as long as the mutex is held, although the
\* previous holder cleared it with a plain store.
ThreadIdIsHolder == holder # NoThread => thread_id = holder

Lock == INSTANCE PyLock WITH locked <- Busy, waiting <- Waiters

\* The mutex keeps the promise made to lock objects: one acquirer at a time, and
\* a free lock is granted to a waiting thread.
LockSpec == Lock!Spec
===============================================================================
