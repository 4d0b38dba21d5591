------------------------------- MODULE MCThreads -------------------------------
(***************************************************************************)
(* The instance of ThreadLife for TLC: who starts whom.                    *)
(***************************************************************************)
EXTENDS ThreadLife

CONSTANTS o1, o2, o3

\* The main thread starts o1 and o3, the thread of o1 starts o2.
ChainStarts == {<<Main, o1>>, <<o1, o2>>, <<Main, o3>>}

ASSUME LifeHasItsConstants == LifeAssumption
===============================================================================
