----------------------------- MODULE PThreadLock -----------------------------
(***************************************************************************)
(* The lock built from a mutex and a condition variable in                 *)
(* Python/thread_pthread.h (the build without POSIX semaphores).  The      *)
(* signal that wakes a waiter is sent after the mutex has been unlocked,   *)
(* so other threads run between the two, and pthread_cond_wait may return  *)
(* without a signal.                                                       *)
(***************************************************************************)
CONSTANTS
  Threads,
  NoThread   \* nobody holds mut

ASSUME ThreadsAssumption == NoThread \notin Threads

VARIABLES
  locked,     \* thelock->locked
  mut,        \* the owner of thelock->mut
  waitflag,   \* the argument of the call each thread is in
  pc          \* where each thread is in PyThread_acquire_lock/release_lock

vars == <<locked, mut, waitflag, pc>>

Inside == {"test", "retest", "leave", "clear", "leave3"}   \* mut is owned there
Labels == Inside \cup {"out", "enter", "sleep", "woken", "enter3", "signal"}

\* Type invariant of the variables of PyThread_acquire_lock and
\* PyThread_release_lock.
TypeOK ==
  /\ locked \in BOOLEAN
  /\ mut \in Threads \cup {NoThread}
  /\ waitflag \in [Threads -> BOOLEAN]
  /\ pc \in [Threads -> Labels]

Init ==
  /\ locked = FALSE
  /\ mut = NoThread
  /\ waitflag = [t \in Threads |-> TRUE]
  /\ pc = [t \in Threads |-> "out"]

Goto(t, from, to) == pc[t] = from /\ pc' = [pc EXCEPT ![t] = to]

LockMut(t) == mut = NoThread /\ mut' = t
UnlockMut == mut' = NoThread

-------------------------------------------------------------------------------
CallAcquire(t, wait) ==
  /\ Goto(t, "out", "enter")
  /\ waitflag' = [waitflag EXCEPT ![t] = wait]
  /\ UNCHANGED <<locked, mut>>

\* pthread_mutex_lock[1].
AcquireEnter(t) ==
  /\ Goto(t, "enter", "test")
  /\ LockMut(t)
  /\ UNCHANGED <<locked, waitflag>>

\* Faulty: locked is not tested again after a wait.
AcquireTakeUntested(t) ==
  /\ (~locked /\ Goto(t, "test", "leave")) \/ Goto(t, "retest", "leave")
  /\ locked' = TRUE
  /\ UNCHANGED <<mut, waitflag>>

\* locked == 0, on entry or in the loop: take the lock.
AcquireTake(t) ==
  /\ ~locked
  /\ Goto(t, "test", "leave") \/ Goto(t, "retest", "leave")
  /\ locked' = TRUE
  /\ UNCHANGED <<mut, waitflag>>

\* acquire(0) of a held lock.
AcquireFail(t) ==
  /\ locked /\ ~waitflag[t]
  /\ Goto(t, "test", "leave")
  /\ UNCHANGED <<locked, mut, waitflag>>

\* pthread_cond_wait: unlock mut and start waiting, in one step.
AcquireSleep(t) ==
  /\ locked /\ waitflag[t]
  /\ Goto(t, "test", "sleep") \/ Goto(t, "retest", "sleep")
  /\ UnlockMut
  /\ UNCHANGED <<locked, waitflag>>

\* pthread_cond_wait may wake without a signal.
SpuriousWakeup(t) ==
  /\ Goto(t, "sleep", "woken")
  /\ UNCHANGED <<locked, mut, waitflag>>

\* The end of pthread_cond_wait: lock mut again.
AcquireReenter(t) ==
  /\ Goto(t, "woken", "retest")
  /\ LockMut(t)
  /\ UNCHANGED <<locked, waitflag>>

\* pthread_mutex_unlock[1]; the call returns.
AcquireReturn(t) ==
  /\ Goto(t, "leave", "out")
  /\ UnlockMut
  /\ UNCHANGED <<locked, waitflag>>

\* The caller has just found the lock locked and holds the interpreter lock
\* for the whole call, so no other release is under way before its store.
CallRelease(t) ==
  /\ locked
  /\ \A u \in Threads : pc[u] \notin {"enter3", "clear"}
  /\ Goto(t, "out", "enter3")
  /\ UNCHANGED <<locked, mut, waitflag>>

\* pthread_mutex_lock[3].
ReleaseEnter(t) ==
  /\ Goto(t, "enter3", "clear")
  /\ LockMut(t)
  /\ UNCHANGED <<locked, waitflag>>

ReleaseClear(t) ==
  /\ Goto(t, "clear", "leave3")
  /\ locked' = FALSE
  /\ UNCHANGED <<mut, waitflag>>

\* Faulty: nobody is signalled.
ReleaseLeaveSilent(t) ==
  /\ Goto(t, "leave3", "out")
  /\ UnlockMut
  /\ UNCHANGED <<locked, waitflag>>

\* pthread_mutex_unlock[3].
ReleaseLeave(t) ==
  /\ Goto(t, "leave3", "signal")
  /\ UnlockMut
  /\ UNCHANGED <<locked, waitflag>>

\* pthread_cond_signal: wakes one sleeper if there is one; the call returns.
ReleaseSignal(t) ==
  /\ pc[t] = "signal"
  /\ IF \E u \in Threads : pc[u] = "sleep"
       THEN \E u \in Threads :
              /\ pc[u] = "sleep"
              /\ pc' = [pc EXCEPT ![t] = "out", ![u] = "woken"]
       ELSE pc' = [pc EXCEPT ![t] = "out"]
  /\ UNCHANGED <<locked, mut, waitflag>>

\* The steps a call takes once it has been made.
Proceed(t) ==
  \/ AcquireEnter(t) \/ AcquireTake(t) \/ AcquireFail(t) \/ AcquireSleep(t)
  \/ AcquireReenter(t) \/ AcquireReturn(t)
  \/ ReleaseEnter(t) \/ ReleaseClear(t) \/ ReleaseLeave(t) \/ ReleaseSignal(t)

Next ==
  \E t \in Threads :
    \/ \E wait \in BOOLEAN : CallAcquire(t, wait)
    \/ CallRelease(t)
    \/ SpuriousWakeup(t)
    \/ Proceed(t)

\* A call in progress runs on; spurious wake-ups and new calls need not happen.
Fairness == \A t \in Threads : WF_vars(Proceed(t))

Spec == Init /\ [][Next]_vars /\ Fairness

-------------------------------------------------------------------------------
\* mut is owned by the one thread between its lock and its unlock.
MutOwner == \A t \in Threads : pc[t] \in Inside <=> mut = t

\* No lost wake-up: when the lock is free and a thread sleeps, a signal is on
\* its way or an awakened thread will look at the lock again.  The signal is
\* sent without mut, after the lock may have been taken and released again.
NoLostWakeup ==
  ~locked /\ (\E t \in Threads : pc[t] = "sleep")
    => \E t \in Threads : pc[t] \in {"leave3", "signal", "woken", "retest"}

\* A release under way has a lock to release: nothing else unlocks it between
\* the caller's check and the store.
ReleaseOfLocked ==
  \A t \in Threads : pc[t] \in {"enter3", "clear"} => locked

\* A thread waits from its first pthread_cond_wait on, however often it wakes in vain.
Waiters == {t \in Threads : pc[t] \in {"sleep", "woken", "retest"}}
Lock == INSTANCE PyLock WITH waiting <- Waiters

\* The mutex, the condition variable and the flag keep the promise made to lock
\* objects: one acquirer at a time, and a free lock is granted to a waiting thread.
LockSpec == Lock!Spec
===============================================================================
