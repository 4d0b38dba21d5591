-------------------------------- MODULE PyLock --------------------------------
(***************************************************************************)
(* What a lock object of the thread module promises (threadmodule.c): one  *)
(* acquirer at a time, any thread may release, nothing is promised about   *)
(* which blocked thread is granted the lock.  The native locks of          *)
(* thread_nt.h (NRMutex) and thread_pthread.h (PThreadLock) are shown to   *)
(* implement this module.                                                  *)
(***************************************************************************)
CONSTANT Threads

VARIABLES
  locked,   \* the lock has been acquired and not yet released
  waiting   \* the threads blocked in acquire(1)

vars == <<locked, waiting>>

TypeOK == locked \in BOOLEAN /\ waiting \subseteq Threads

Init == locked = FALSE /\ waiting = {}

\* acquire() finding the lock free.
Acquire(t) ==
  /\ t \notin waiting /\ ~locked
  /\ locked' = TRUE
  /\ UNCHANGED waiting

\* acquire(1) that has to block; acquire(0) would return False and change nothing.
Block(t) ==
  /\ t \notin waiting
  /\ waiting' = waiting \cup {t}
  /\ UNCHANGED locked

\* The return of a blocked acquire(1).
Grant(t) ==
  /\ t \in waiting /\ ~locked
  /\ locked' = TRUE
  /\ waiting' = waiting \ {t}

\* release(), by any thread; on an unlocked lock it raises thread.error.
Release ==
  /\ locked
  /\ locked' = FALSE
  /\ UNCHANGED waiting

Next == Release \/ \E t \in Threads : Acquire(t) \/ Block(t) \/ Grant(t)

\* A free lock with blocked threads does not stay free.
Spec == Init /\ [][Next]_vars /\ WF_vars(\E t \in Threads : Grant(t))
===============================================================================
