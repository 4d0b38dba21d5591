------------------------------ MODULE MCMonitors ------------------------------
(***************************************************************************)
(* The instances of NRMutex, Semaphore, Event and Server for TLC: what     *)
(* threads acquire and wait for.  A behaviour is one of the module that    *)
(* which names; the variables of the others stay as they are at the start. *)
(***************************************************************************)
EXTENDS NRMutex

CONSTANTS Abandoned, Initial, IsBounded, MaxSemaphoreCalls, ThreeThreads, MaxEventCalls,
          MaxServerCalls

VARIABLES
  which,
  s_waiters, s_stage, s_timed, value, s_op, s_calls,
  e_waiters, e_stage, e_timed, flag, waiting, sawSet, e_calls,
  v_waiters, v_stage, v_timed, v_flag, v_waiting, v_sawSet, v_calls,
  shutdown_request, at, beside, missed

semaphoreVars == <<s_waiters, s_stage, s_timed, value, s_op, s_calls>>
eventVars == <<e_waiters, e_stage, e_timed, flag, waiting, sawSet, e_calls>>
serverVars ==
  <<v_waiters, v_stage, v_timed, v_flag, v_waiting, v_sawSet, v_calls,
    shutdown_request, at, beside, missed>>

S == INSTANCE Semaphore WITH
  Conds <- {"cond"}, Interruptible <- {},
  waiters <- s_waiters, stage <- s_stage, timed <- s_timed, op <- s_op,
  calls <- s_calls, MaxCalls <- MaxSemaphoreCalls

E == INSTANCE Event WITH
  Threads <- ThreeThreads, Conds <- {"cond"}, Interruptible <- {},
  waiters <- e_waiters, stage <- e_stage, timed <- e_timed,
  calls <- e_calls, MaxCalls <- MaxEventCalls

V == INSTANCE Server WITH
  Threads <- ThreeThreads, Conds <- {"cond"}, Interruptible <- {},
  waiters <- v_waiters, stage <- v_stage, timed <- v_timed,
  flag <- v_flag, waiting <- v_waiting, sawSet <- v_sawSet,
  calls <- v_calls, MaxCalls <- MaxServerCalls

ASSUME SemaphoreHasItsConstants == S!SemaphoreAssumption
ASSUME EventHasItsConstants == E!EventAssumption
ASSUME ServerHasItsConstants == V!EventAssumption

InstanceInit ==
  /\ which \in {"mutex", "semaphore", "event", "server"}
  /\ Init /\ S!Init /\ E!Init /\ V!ServerInit

InstanceNext ==
  \/ which = "mutex" /\ Next /\ UNCHANGED <<which, semaphoreVars, eventVars, serverVars>>
  \/ which = "semaphore" /\ S!Next /\ UNCHANGED <<which, vars, eventVars, serverVars>>
  \/ which = "event" /\ E!Next /\ UNCHANGED <<which, vars, semaphoreVars, serverVars>>
  \/ which = "server" /\ V!ServerNext /\ UNCHANGED <<which, vars, semaphoreVars, eventVars>>

InstanceSpec ==
  /\ InstanceInit
  /\ [][InstanceNext]_<<which, vars, semaphoreVars, eventVars, serverVars>>
  /\ Fairness /\ E!Fairness /\ V!ServerFairness

-------------------------------------------------------------------------------
\* A bounded semaphore, whose release() tests the value without the lock, exceeds its
\* initial value by at most one for each thread but one.
ValueInRange == S!ValueInRange

\* While acquirers are listed as waiting, every permit has one on its way to it.
PermitsClaimed == S!PermitsClaimed

\* An Event.wait() during which the flag was true for a moment returns, and without a
\* timeout it returns for no other reason.
WaitKept == E!WaitKept

\* shutdown() of a server returns, and not before the loop that it found has ended.
ShutdownDoes == V!ShutdownDoes
===============================================================================
