------------------------------- MODULE MCSignals -------------------------------
(***************************************************************************)
(* The instances of PThreadLock and Signals for TLC: locks of the          *)
(* interpreter, and the pending calls that one of them guards.  A          *)
(* behaviour is one of the module that which names; the variables of the   *)
(* other one stay as they are at the start.                                *)
(***************************************************************************)
EXTENDS PThreadLock, Signals

VARIABLES which

ASSUME SignalsHaveTheirConstants == SignalAssumption

InstanceInit == which \in {"lock", "signals"} /\ Init /\ SignalInit

InstanceNext ==
  \/ which = "lock" /\ Next /\ UNCHANGED <<which, allVars>>
  \/ which = "signals" /\ SignalNext /\ UNCHANGED <<which, vars>>

InstanceSpec ==
  /\ InstanceInit /\ [][InstanceNext]_<<which, vars, allVars>>
  /\ Fairness /\ SignalFairness
===============================================================================
