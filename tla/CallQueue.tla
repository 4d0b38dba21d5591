------------------------------ MODULE CallQueue ------------------------------
(***************************************************************************)
(* What Py_AddPendingCall promises (Doc/c-api/init.rst, ceval.c): a call   *)
(* that was accepted is made later by the main thread, once, in the order  *)
(* of acceptance, and never inside another one; at most Capacity calls     *)
(* wait, and a call that is not accepted leaves no trace.                  *)
(***************************************************************************)
EXTENDS Integers, Sequences

CONSTANTS Funcs, Capacity, NoFunc

VARIABLES
  queue,     \* calls accepted and not yet begun
  running    \* the call being made

vars == <<queue, running>>

TypeOK == queue \in Seq(Funcs) /\ Len(queue) <= Capacity /\ running \in Funcs \cup {NoFunc}

Init == queue = <<>> /\ running = NoFunc

Accept(f) ==
  /\ Len(queue) < Capacity
  /\ queue' = Append(queue, f)
  /\ UNCHANGED running

Begin ==
  /\ running = NoFunc /\ queue # <<>>
  /\ running' = Head(queue)
  /\ queue' = Tail(queue)

End ==
  /\ running # NoFunc /\ running' = NoFunc
  /\ UNCHANGED queue

Next == Begin \/ End \/ \E f \in Funcs : Accept(f)

Spec == Init /\ [][Next]_vars /\ WF_vars(Begin \/ End)
===============================================================================
