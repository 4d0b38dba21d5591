-------------------------------- MODULE Event --------------------------------
(***************************************************************************)
(* threading._Event: a flag guarded by a condition.  wait() waits once and *)
(* then returns whatever the flag is by the time it has the lock again.    *)
(***************************************************************************)
EXTENDS Condition

CONSTANT MaxCalls   \* bound of the model on the calls made

EventAssumption ==
  CondAssumption /\ Conds = {"cond"} /\ Interruptible = {} /\ MaxCalls \in Nat

VARIABLES
  flag,      \* self.__flag
  waiting,   \* the threads inside wait()
  sawSet,    \* those for which the flag has been true since the call
  calls      \* calls made so far

vars == <<condVars, flag, waiting, sawSet, calls>>

Init == CondInit /\ flag = FALSE /\ waiting = {} /\ sawSet = {} /\ calls = 0

Call(t) == t \notin waiting /\ calls < MaxCalls /\ calls' = calls + 1

\* Faulty: wakes one waiter.
SetNotifiesOne(t) ==
  /\ Call(t)
  /\ flag' = TRUE /\ sawSet' = waiting
  /\ Notify(t, "cond", 1)
  /\ UNCHANGED waiting

set(t) ==
  /\ Call(t)
  /\ flag' = TRUE
  /\ sawSet' = waiting
  /\ NotifyAll(t, "cond")
  /\ UNCHANGED waiting

clear(t) ==
  /\ Call(t)
  /\ flag' = FALSE
  /\ UNCHANGED <<condVars, waiting, sawSet>>

\* wait() of a set flag returns True at once and is left out.
wait(t, timeout) ==
  /\ Call(t) /\ ~flag
  /\ Wait(t, "cond", timeout)
  /\ waiting' = waiting \cup {t}
  /\ UNCHANGED <<flag, sawSet>>

\* Condition.wait() has returned: return self.__flag.
WaitReturn(t) ==
  /\ t \in waiting /\ stage[t] \in Resumable
  /\ Return(t)
  /\ waiting' = waiting \ {t}
  /\ sawSet' = sawSet \ {t}
  /\ UNCHANGED <<flag, calls>>

TimeOut(t) ==
  /\ Expire(t) \/ RemoveWaiter(t, "cond")
  /\ UNCHANGED <<flag, waiting, sawSet, calls>>

Next ==
  \E t \in Threads :
    \/ set(t) \/ clear(t) \/ \E timeout \in BOOLEAN : wait(t, timeout)
    \/ WaitReturn(t) \/ TimeOut(t)

\* A notified or expired thread runs on; timeouts elapse.
Fairness == \A t \in Threads : WF_vars(WaitReturn(t) \/ TimeOut(t))

Spec == Init /\ [][Next]_vars /\ Fairness

-------------------------------------------------------------------------------
\* A wait() during which the flag was true for a moment returns.
SetReleases == \A t \in Threads : t \in sawSet ~> t \notin waiting

Returns(t) == t \in waiting /\ t \notin waiting'

\* A wait() without a timeout returns only if the flag was set during the call.
\* The docstring says "it will always return True"; it returns False if clear() has
\* come between set() and its end.
WaitJustified == [][\A t \in Threads : Returns(t) /\ ~timed[t] => t \in sawSet]_vars

\* A wait() returns when, and if it has no timeout only when, the flag has been set.
WaitKept == SetReleases /\ WaitJustified
===============================================================================
