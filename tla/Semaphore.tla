------------------------------ MODULE Semaphore ------------------------------
(***************************************************************************)
(* threading._Semaphore and _BoundedSemaphore: a counter guarded by a      *)
(* condition.  release() of a bounded semaphore reads the counter before   *)
(* it takes the lock.                                                      *)
(***************************************************************************)
EXTENDS Condition, FiniteSets

CONSTANTS
  Initial,    \* the value given to the constructor
  IsBounded,  \* a BoundedSemaphore
  MaxCalls    \* bound of the model on the calls made

SemaphoreAssumption ==
  /\ CondAssumption
  /\ IsFiniteSet(Threads) /\ Threads # {} /\ Conds = {"cond"} /\ Interruptible = {}
  /\ Initial \in Nat /\ IsBounded \in BOOLEAN /\ MaxCalls \in Nat

VARIABLES
  value,   \* self.__value
  op,      \* the call each thread is in
  calls    \* calls made so far

vars == <<condVars, value, op, calls>>

Init ==
  /\ CondInit
  /\ value = Initial
  /\ op = [t \in Threads |-> "none"]
  /\ calls = 0

Call(t) == op[t] = "none" /\ calls < MaxCalls /\ calls' = calls + 1
Resume(t, o) == op[t] = o /\ stage[t] \in Resumable /\ UNCHANGED calls
SetOp(t, o) == op' = [op EXCEPT ![t] = o]

\* acquire(0) of a semaphore at zero changes nothing and is left out.
Acquire(t) ==
  /\ Call(t) \/ Resume(t, "acquire")
  /\ value > 0
  /\ value' = value - 1
  /\ Return(t)
  /\ SetOp(t, "none")

AcquireWait(t) ==
  /\ Call(t) \/ Resume(t, "acquire")
  /\ value = 0
  /\ Wait(t, "cond", FALSE)
  /\ SetOp(t, "acquire")
  /\ UNCHANGED value

\* Faulty: no test at all.
CheckReleaseAlways(t) ==
  /\ Call(t)
  /\ SetOp(t, "release")
  /\ UNCHANGED <<condVars, value>>

\* BoundedSemaphore.release: the test, made without the lock; a semaphore at
\* its initial value raises ValueError and changes nothing.
CheckRelease(t) ==
  /\ Call(t)
  /\ IsBounded => value < Initial
  /\ SetOp(t, "release")
  /\ UNCHANGED <<condVars, value>>

\* Faulty: notifies only when there was no permit.
ReleaseFromZero(t) ==
  /\ op[t] = "release"
  /\ value' = value + 1
  /\ IF value = 0 THEN Notify(t, "cond", 1) ELSE UNCHANGED condVars
  /\ SetOp(t, "none")
  /\ UNCHANGED calls

Release(t) ==
  /\ op[t] = "release"
  /\ value' = value + 1
  /\ Notify(t, "cond", 1)
  /\ SetOp(t, "none")
  /\ UNCHANGED calls

Next == \E t \in Threads : Acquire(t) \/ AcquireWait(t) \/ CheckRelease(t) \/ Release(t)

Spec == Init /\ [][Next]_vars

-------------------------------------------------------------------------------
InTransit == {t \in Threads : op[t] = "acquire"} \ Range(waiters["cond"])

\* No permit is left behind: while acquirers are listed as waiting, every
\* permit has an acquirer on its way to it, although others may overtake it.
PermitsClaimed == waiters["cond"] # <<>> => value <= Cardinality(InTransit)

\* The value never falls below zero, and that of a bounded semaphore exceeds its
\* initial value by at most one for each thread but one: release() tests it without
\* the lock, so "if the number of releases exceeds the number of acquires, raise a
\* ValueError" (threading.py) is not always what happens.
ValueInRange ==
  value >= 0 /\ (IsBounded => value <= Initial + Cardinality(Threads) - 1)
===============================================================================
