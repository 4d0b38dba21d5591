------------------------------ MODULE Condition ------------------------------
(***************************************************************************)
(* Condition variables of threading.py: the part of a monitor that Queue,  *)
(* Semaphore and Event have in common.  Every step but three is a          *)
(* critical section of the lock the conditions share, so the lock itself   *)
(* is implicit.  The three, Expire, RemoveWaiter and Interrupt, are taken  *)
(* by a thread inside wait() that does not hold the lock.  notify() is one *)
(* step: of those three only RemoveWaiter writes what it reads, and it     *)
(* removes an entry that notify() then fails to remove, or the reverse.    *)
(***************************************************************************)
EXTENDS PyList

CONSTANTS
  Threads,
  Conds,          \* the conditions that share the lock
  Interruptible,  \* threads in which a signal handler may raise: the main thread
  Abandoned       \* a waiter lock that nobody acquires any more

CondAssumption == Interruptible \subseteq Threads /\ Abandoned \notin Threads

VARIABLES
  waiters,  \* self.__waiters of each condition, its locks named by their thread
  stage,    \* where each thread is in wait()
  timed     \* the wait() of each thread was given a timeout

condVars == <<waiters, stage, timed>>

Stages == {
  "run",         \* not in wait()
  "blocked",     \* waiter.acquire(), or the polling loop
  "notified",    \* its waiter has been released: it will re-acquire the lock
  "gaveup",      \* remaining <= 0, about to remove its waiter
  "expired",     \* has removed it: it will re-acquire the lock
  "interrupted"} \* KeyboardInterrupt in the polling loop: likewise, then raise

CondTypeOK ==
  /\ waiters \in [Conds -> Seq(Threads \cup {Abandoned})]
  /\ stage \in [Threads -> Stages]
  /\ timed \in [Threads -> BOOLEAN]

CondInit ==
  /\ waiters = [c \in Conds |-> <<>>]
  /\ stage = [t \in Threads |-> "run"]
  /\ timed = [t \in Threads |-> FALSE]

\* wait(): append a waiter, release the lock and block.
Wait(t, c, timeout) ==
  /\ waiters' = [waiters EXCEPT ![c] = Append(@, t)]
  /\ stage' = [stage EXCEPT ![t] = "blocked"]
  /\ timed' = [timed EXCEPT ![t] = timeout]

\* notify(n) by a thread that then returns from its own wait(), if it is in
\* one: release the first n waiters and take them off the list.  Releasing the
\* waiter of a thread that has given up wakes nobody.
Notify(t, c, n) ==
  LET m == IF n < Len(waiters[c]) THEN n ELSE Len(waiters[c])
      released == Range(SubSeq(waiters[c], 1, m))
  IN  /\ waiters' = [waiters EXCEPT ![c] = SubSeq(@, m + 1, Len(@))]
      /\ stage' = [u \in Threads |->
                     CASE u = t -> "run"
                       [] u # t /\ u \in released /\ stage[u] = "blocked" -> "notified"
                       [] OTHER -> stage[u]]
      /\ UNCHANGED timed

NotifyAll(t, c) == Notify(t, c, Len(waiters[c]))

\* wait() returns and nothing is notified.
Return(t) ==
  /\ stage' = [stage EXCEPT ![t] = "run"]
  /\ UNCHANGED <<waiters, timed>>

\* The last waiter.acquire(0) has failed and the time is over.
Expire(t) ==
  /\ stage[t] = "blocked" /\ timed[t]
  /\ stage' = [stage EXCEPT ![t] = "gaveup"]
  /\ UNCHANGED <<waiters, timed>>

\* self.__waiters.remove(waiter), without the lock.
RemoveWaiter(t, c) ==
  /\ stage[t] = "gaveup"
  /\ stage' = [stage EXCEPT ![t] = "expired"]
  /\ waiters' = [waiters EXCEPT ![c] = Remove(@, t)]
  /\ UNCHANGED timed

\* An exception in _sleep(): the waiter stays in the list.
Interrupt(t, c) ==
  /\ t \in Interruptible /\ timed[t]
  /\ stage[t] \in {"blocked", "notified"}
  /\ stage' = [stage EXCEPT ![t] = "interrupted"]
  /\ waiters' = [waiters EXCEPT ![c] =
                   [i \in DOMAIN @ |-> IF @[i] = t THEN Abandoned ELSE @[i]]]
  /\ UNCHANGED timed

Resumable == {"notified", "expired"}   \* wait() is about to return

===============================================================================
