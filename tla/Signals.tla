------------------------------- MODULE Signals -------------------------------
(***************************************************************************)
(* Signals from their arrival to the Python handler (signalmodule.c):      *)
(* trip_signal, which runs at any instant on the main thread or on another *)
(* one, schedules PyErr_CheckSignals as a pending call of module           *)
(* PendingCalls and ignores whether that was accepted.  The main thread    *)
(* runs bytecode and no C code that calls PyErr_CheckSignals by itself.    *)
(***************************************************************************)
EXTENDS PendingCalls

CONSTANTS
  NSIG,          \* signals are 1 .. NSIG - 1
  CheckSignals,  \* checksignals_witharg, one of Funcs
  OnMain,        \* signals are delivered to the main thread as well
  MayGiveUp,     \* the attempts to get pending_lock may all fail
  MayRaise,      \* handlers may raise exceptions
  MaxSignals     \* bound of the model on the signals delivered

\* What a client may rely on when it gives values to the constants.
SignalAssumption ==
  /\ PendingAssumption
  /\ NSIG \in Nat /\ NSIG > 1 /\ CheckSignals \in Funcs /\ MaxSignals \in 0 .. MaxAdds
  /\ {OnMain, MayGiveUp, MayRaise} \subseteq BOOLEAN

Sigs == 1 .. (NSIG - 1)

VARIABLES
  tripped,       \* Handlers[s].tripped
  is_tripped,
  tpc,           \* where each caller is in trip_signal
  scan,          \* the loop index of PyErr_CheckSignals; 0: not in the loop
  signals,       \* signals delivered so far
  refused,       \* history: trip_signal had a call that was not accepted
  raised         \* history: a handler has raised an exception

history == <<refused, raised>>
sigVars == <<tripped, is_tripped, tpc, scan, signals, history>>
allVars == <<pendingVars, sigVars>>

\* Type invariant of the variables of trip_signal and PyErr_CheckSignals.
SignalTypeOK ==
  /\ PendingTypeOK
  /\ tripped \in [Sigs -> BOOLEAN] /\ is_tripped \in BOOLEAN
  /\ tpc \in [Callers -> {"out", "test", "set", "add"}]
  /\ scan \in 0 .. NSIG
  /\ signals \in 0 .. MaxSignals
  /\ refused \in BOOLEAN /\ raised \in BOOLEAN

SignalInit ==
  /\ PendingInit
  /\ tripped = [s \in Sigs |-> FALSE] /\ is_tripped = FALSE
  /\ tpc = [c \in Callers |-> "out"]
  /\ scan = 0 /\ signals = 0
  /\ refused = FALSE /\ raised = FALSE

Delivered(s) ==
  /\ signals < MaxSignals /\ signals' = signals + 1
  /\ tripped' = [tripped EXCEPT ![s] = TRUE]

TripGoto(c, from, to) == tpc[c] = from /\ tpc' = [tpc EXCEPT ![c] = to]

-------------------------------------------------------------------------------
\* A signal that interrupts the main thread: trip_signal runs to its end there.
\* When somebody holds pending_lock, the interrupted thread included, the
\* attempts to get it may all fail, and nothing is scheduled.
TripOnMain(s) ==
  /\ OnMain /\ Delivered(s)
  /\ is_tripped' = TRUE
  /\ IF is_tripped THEN UNCHANGED <<ring, pendingcalls_to_do, refused>>
     ELSE /\ IF pending_lock = None
               THEN Store(CheckSignals) /\ pendingcalls_to_do' = TRUE
               ELSE UNCHANGED <<ring, pendingcalls_to_do>>
          /\ refused' = (refused \/ pending_lock # None \/ RingFull)
  /\ UNCHANGED <<pending_lock, callers, main, tpc, scan, raised>>

\* trip_signal on another thread, statement by statement.
Trip(c, s) ==
  /\ cpc[c] = "out"
  /\ TripGoto(c, "out", "test")
  /\ Delivered(s)
  /\ UNCHANGED <<pendingVars, is_tripped, scan, history>>

TripTest(c) ==
  /\ TripGoto(c, "test", IF is_tripped THEN "out" ELSE "set")
  /\ UNCHANGED <<pendingVars, tripped, is_tripped, scan, signals, history>>

TripSet(c) ==
  /\ TripGoto(c, "set", "add")
  /\ is_tripped' = TRUE
  /\ UNCHANGED <<pendingVars, tripped, scan, signals, history>>

TripAdd(c) ==
  /\ TripGoto(c, "add", "out")
  /\ AddCall(c, CheckSignals)
  /\ UNCHANGED <<tripped, is_tripped, scan, signals, history>>

TripStep(c) == TripTest(c) \/ TripSet(c) \/ TripAdd(c)

-------------------------------------------------------------------------------
\* PyErr_CheckSignals on the main thread, as the pending call being made.
CheckNothing ==
  /\ func = CheckSignals /\ scan = 0 /\ ~is_tripped
  /\ Return(0)
  /\ UNCHANGED sigVars

\* Faulty: is_tripped stays set.
CheckKeepsTripped ==
  /\ mpc = "call" /\ func = CheckSignals /\ scan = 0 /\ is_tripped
  /\ scan' = 1
  /\ UNCHANGED <<pendingVars, tripped, is_tripped, tpc, signals, history>>

CheckClear ==
  /\ mpc = "call" /\ func = CheckSignals /\ scan = 0 /\ is_tripped
  /\ is_tripped' = FALSE /\ scan' = 1
  /\ UNCHANGED <<pendingVars, tripped, tpc, signals, history>>

\* One turn of the loop: clear the flag and call the handler, which returns.
CheckNext ==
  /\ scan \in Sigs
  /\ tripped' = [tripped EXCEPT ![scan] = FALSE]
  /\ scan' = scan + 1
  /\ UNCHANGED <<pendingVars, is_tripped, tpc, signals, history>>

\* The handler raises an exception: the loop ends there.
CheckRaise ==
  /\ MayRaise /\ scan \in Sigs /\ tripped[scan]
  /\ tripped' = [tripped EXCEPT ![scan] = FALSE]
  /\ scan' = 0 /\ raised' = TRUE
  /\ Return(-1)
  /\ UNCHANGED <<is_tripped, tpc, signals, refused>>

\* Faulty: clears is_tripped after the loop.
CheckEndClears ==
  /\ scan = NSIG /\ scan' = 0
  /\ is_tripped' = FALSE
  /\ Return(0)
  /\ UNCHANGED <<tripped, tpc, signals, history>>

CheckEnd ==
  /\ scan = NSIG /\ scan' = 0
  /\ Return(0)
  /\ UNCHANGED <<tripped, is_tripped, tpc, signals, history>>

Check == CheckNothing \/ CheckClear \/ CheckNext \/ CheckRaise \/ CheckEnd

\* The steps of module PendingCalls.
AddStep(c) ==
  /\ cpc[c] = "try" /\ pending_lock # None => MayGiveUp
  /\ Add(c)
  /\ LET gaveUp == cpc[c] = "try" /\ cpc'[c] = "out"
         full == cpc[c] = "store" /\ RingFull
     IN refused' = (refused \/ (adding[c] = CheckSignals /\ (gaveUp \/ full)))
  /\ UNCHANGED <<tripped, is_tripped, tpc, scan, signals, raised>>
OtherCall == func # CheckSignals /\ MakeCall /\ UNCHANGED sigVars
MakeStep == (Make /\ UNCHANGED sigVars) \/ OtherCall \/ Check
OtherAdd(c) ==
  /\ tpc[c] = "out"
  /\ adds + MaxSignals < MaxAdds   \* bound of the model
  /\ \E f \in Funcs \ {CheckSignals} : AddCall(c, f)
  /\ UNCHANGED sigVars

SignalNext ==
  \/ MakeStep
  \/ \E s \in Sigs : TripOnMain(s)
  \/ \E c \in Callers :
       AddStep(c) \/ OtherAdd(c) \/ TripStep(c) \/ \E s \in Sigs : Trip(c, s)

\* The main thread runs bytecode, the callers finish what they began, and the
\* blocking acquisition of pending_lock succeeds against finitely many calls; a
\* signal handler once entered runs to its end.
SignalFairness ==
  /\ WF_allVars(MakeStep)
  /\ \A c \in Callers : WF_allVars(AddStep(c) \/ TripStep(c))

SignalSpec == SignalInit /\ [][SignalNext]_allVars /\ SignalFairness

-------------------------------------------------------------------------------
\* A pending PyErr_CheckSignals: in the ring, on its way there, or under way
\* and not yet past the point where it reads what it must not miss.
Scheduled ==
  \/ \E k \in DOMAIN Pending : Pending[k] = CheckSignals
  \/ \E c \in Callers : \/ tpc[c] \in {"set", "add"}
                        \/ cpc[c] \in {"try", "store"} /\ adding[c] = CheckSignals
  \/ func = CheckSignals /\ scan = 0

\* A raised is_tripped has a check on its way, even though the signals after
\* the first schedule none, unless a call of trip_signal was not accepted.
CheckScheduled == is_tripped => Scheduled \/ refused

\* A tripped signal is announced by is_tripped, or the loop has yet to see it, or its
\* trip_signal has yet to come to is_tripped, unless a handler has raised.
TripAnnounced == \A s \in Sigs : tripped[s] /\ ~is_tripped =>
  \/ scan \in 1 .. s
  \/ \E c \in Callers : tpc[c] \in {"test", "set"}
  \/ raised

\* "Set is_tripped after setting .tripped, as it gets cleared in
\* PyErr_CheckSignals() before .tripped" (signalmodule.c): with the flags read and
\* written in these orders and without a lock, no signal falls between them.
SignalsAnnounced == CheckScheduled /\ TripAnnounced

\* The handlers of signals that arrived are called in the end, signals being
\* finitely many, unless a call of trip_signal was not accepted or a handler has raised.
SignalHandled ==
  (\E s \in Sigs : tripped[s]) ~> (\A s \in Sigs : ~tripped[s]) \/ refused \/ raised

\* The handler of a signal that arrived is always called in the end:
\* PyErr_CheckSignals "checks whether a signal has been sent to the processes and
\* if so, invokes the corresponding signal handler" (Doc/c-api/exceptions.rst).
EverySignalHandled == \A s \in Sigs : tripped[s] ~> ~tripped[s]
===============================================================================
