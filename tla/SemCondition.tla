---------------------------- MODULE SemCondition ----------------------------
(***************************************************************************)
(* multiprocessing.Condition: a condition variable for threads of several  *)
(* processes, built from a lock and three counting semaphores.  A sleeper  *)
(* that times out says so only by a count, and a notifier waits until as   *)
(* many sleepers have woken as it has woken up, whichever they are.        *)
(***************************************************************************)
EXTENDS Integers, FiniteSets

CONSTANTS
  Threads,    \* of all the processes that share the condition
  None,       \* the lock is free
  MaxAsleep   \* bound of the model on _sleeping_count

\* What a client may rely on when it gives values to the constants.
SemConditionAssumption ==
  IsFiniteSet(Threads) /\ None \notin Threads /\ MaxAsleep \in Nat

VARIABLES
  lock,       \* who holds _lock, at whatever recursion level
  sleeping,   \* the value of _sleeping_count
  woken,      \* of _woken_count
  tokens,     \* of _wait_semaphore
  pc,         \* where each thread is in a method
  timed,      \* the wait() of each thread has a timeout
  all,        \* the notifier is in notify_all()
  left,       \* the sleepers it has yet to wait for
  found,      \* the threads that it found asleep, ...
  late        \* ... and those that had woken without having said so

counts == <<sleeping, woken, tokens>>
locals == <<timed, all, left, found, late>>
vars == <<lock, counts, pc, locals>>

Notifying == {"drain", "pick", "await", "rezero"}
Labels == {"out", "held", "asleep", "woken", "relock"} \cup Notifying

TypeOK ==
  /\ lock \in Threads \cup {None}
  /\ sleeping \in Nat /\ woken \in Nat /\ tokens \in Nat
  /\ pc \in [Threads -> Labels]
  /\ timed \in [Threads -> BOOLEAN]
  /\ all \in BOOLEAN /\ left \in Nat /\ found \cup late \subseteq Threads

Init ==
  /\ lock = None
  /\ sleeping = 0 /\ woken = 0 /\ tokens = 0
  /\ pc = [t \in Threads |-> "out"]
  /\ timed = [t \in Threads |-> FALSE]
  /\ all = FALSE /\ left = 0 /\ found = {} /\ late = {}

Goto(t, from, to) == pc[t] = from /\ pc' = [pc EXCEPT ![t] = to]
\* The call of the notifier has ended, and its variables with it.
Forget == all' = FALSE /\ found' = {} /\ late' = {}

Asleep == {t \in Threads : pc[t] = "asleep"}
Late == {t \in Threads : pc[t] = "woken"}

-------------------------------------------------------------------------------
Acquire(t) ==
  /\ lock = None
  /\ lock' = t
  /\ Goto(t, "out", "held")
  /\ UNCHANGED <<counts, locals>>

Release(t) ==
  /\ lock' = None
  /\ Goto(t, "held", "out")
  /\ UNCHANGED <<counts, locals>>

\* wait(): count the sleeper and give up every level of the lock.  Only the
\* holder of the lock changes _sleeping_count.
Wait(t, timeout) ==
  /\ sleeping < MaxAsleep
  /\ Goto(t, "held", "asleep")
  /\ sleeping' = sleeping + 1
  /\ lock' = None
  /\ timed' = [timed EXCEPT ![t] = timeout]
  /\ UNCHANGED <<woken, tokens, all, left, found, late>>

\* _wait_semaphore.acquire() succeeds, ...
Wake(t) ==
  /\ tokens > 0
  /\ Goto(t, "asleep", "woken")
  /\ tokens' = tokens - 1
  /\ UNCHANGED <<lock, sleeping, woken, locals>>

\* ... or times out.
TimeOut(t) ==
  /\ timed[t]
  /\ Goto(t, "asleep", "woken")
  /\ UNCHANGED <<lock, counts, locals>>

\* Faulty: counts only those that have been notified.
SayWokenUntimed(t) ==
  /\ Goto(t, "woken", "relock")
  /\ woken' = IF timed[t] THEN woken ELSE woken + 1
  /\ timed' = [timed EXCEPT ![t] = FALSE]
  /\ UNCHANGED <<lock, sleeping, tokens, all, left, found, late>>

\* _woken_count.release(), without the lock.
SayWoken(t) ==
  /\ Goto(t, "woken", "relock")
  /\ woken' = woken + 1
  /\ timed' = [timed EXCEPT ![t] = FALSE]
  /\ UNCHANGED <<lock, sleeping, tokens, all, left, found, late>>

Relock(t) ==
  /\ lock = None
  /\ lock' = t
  /\ Goto(t, "relock", "held")
  /\ UNCHANGED <<counts, locals>>

\* notify() or notify_all(): that no token is left is asserted here.
Notify(t, everyone) ==
  /\ Goto(t, "held", "drain")
  /\ all' = everyone
  /\ left' = 0
  /\ found' = Asleep
  /\ late' = Late
  /\ UNCHANGED <<lock, counts, timed>>

\* Take off those that have woken since the last notify(); that there was
\* such a sleeper is asserted.
Drain(t) ==
  /\ woken > 0 /\ pc[t] = "drain"
  /\ woken' = woken - 1
  /\ sleeping' = sleeping - 1
  /\ UNCHANGED <<lock, tokens, pc, locals>>

DrainEnd(t) ==
  /\ woken = 0
  /\ Goto(t, "drain", "pick")
  /\ UNCHANGED <<lock, counts, locals>>

MorePicks == sleeping > 0 /\ (all \/ left = 0)

\* A sleeper for which there is a token from now on.
Pick(t) ==
  /\ MorePicks /\ pc[t] = "pick"
  /\ sleeping' = sleeping - 1
  /\ tokens' = tokens + 1
  /\ left' = left + 1
  /\ UNCHANGED <<lock, woken, pc, timed, all, found, late>>

\* Faulty: does not wait for those picked.
PickEndAtOnce(t) ==
  /\ ~MorePicks
  /\ Goto(t, "pick", "rezero")
  /\ UNCHANGED <<lock, counts, locals>>

PickEnd(t) ==
  /\ ~MorePicks
  /\ Goto(t, "pick", IF left = 0 THEN "held" ELSE "await")
  /\ IF left = 0 THEN Forget ELSE UNCHANGED <<all, found, late>>
  /\ UNCHANGED <<lock, counts, timed, left>>

\* Wait for a sleeper to wake, notified or not.
AwaitWoken(t) ==
  /\ woken > 0
  /\ Goto(t, "await", IF left = 1 THEN "rezero" ELSE "await")
  /\ woken' = woken - 1
  /\ left' = left - 1
  /\ UNCHANGED <<lock, sleeping, tokens, timed, all, found, late>>

\* Faulty: leaves a token that a timed-out sleeper did not take.
RezeroNothing(t) ==
  /\ Goto(t, "rezero", "held")
  /\ Forget
  /\ UNCHANGED <<lock, counts, timed, left>>

\* Take back a token that was not taken because of a timeout; notify() tries
\* once, notify_all() until there is none.
Rezero(t) ==
  /\ Goto(t, "rezero", IF all /\ tokens > 0 THEN "rezero" ELSE "held")
  /\ tokens' = IF tokens > 0 THEN tokens - 1 ELSE 0
  /\ IF all /\ tokens > 0 THEN UNCHANGED <<all, found, late>> ELSE Forget
  /\ UNCHANGED <<lock, sleeping, woken, timed, left>>

InNotify(t) ==
  \/ Drain(t) \/ DrainEnd(t) \/ Pick(t) \/ PickEnd(t) \/ AwaitWoken(t) \/ Rezero(t)

Next ==
  \E t \in Threads :
    \/ Acquire(t) \/ Release(t)
    \/ \E timeout \in BOOLEAN : Wait(t, timeout)
    \/ Wake(t) \/ TimeOut(t) \/ SayWoken(t) \/ Relock(t)
    \/ \E everyone \in BOOLEAN : Notify(t, everyone)
    \/ InNotify(t)

\* The system runs the threads inside a method, one after another in any order, and
\* gives tokens to sleepers; no client need release the lock or make another call.
Fairness == WF_vars(\E t \in Threads : Wake(t) \/ SayWoken(t) \/ InNotify(t))

Spec == Init /\ [][Next]_vars /\ Fairness

-------------------------------------------------------------------------------
\* The three assertions of the code: a notifier finds no token of an earlier
\* notification, though sleepers may have timed out during it, and every count
\* of a woken sleeper has a sleeper to take off.
AssertionsHold ==
  \A t \in Threads : pc[t] = "drain" => tokens = 0 /\ woken <= sleeping

Returns(t) == pc[t] \in Notifying /\ pc'[t] = "held"

\* notify() sees one thread out of the sleep at least, if there was any that had
\* not said so before, and notify_all() all of them: a timeout takes the place of
\* a notification, and a token is never left over for a later sleeper.
NotifyWakes ==
  [][\A t \in Threads : Returns(t) =>
       IF all THEN Asleep' \cup Late' = {}
              ELSE found \cup late # {} => ~(found \cup late \subseteq Asleep' \cup Late')]_vars

\* What threading.Condition, of which this is a clone, promises of notify(): it
\* wakes one of the threads waiting, if any are.  It does not hold: the count of
\* a thread whose timeout had passed before may be taken for that of the sleeper
\* notified, whose token is then taken back.
NotifyWakesSleeper ==
  [][\A t \in Threads : Returns(t) /\ found # {} => ~(found \subseteq Asleep')]_vars

\* A notifier does not wait for ever for sleepers that have woken already.
NotifyReturns ==
  (\E t \in Threads : pc[t] \in Notifying) ~> (\A t \in Threads : pc[t] \notin Notifying)
===============================================================================
