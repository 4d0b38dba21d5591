---------------------------- MODULE ProcessQueue ----------------------------
(***************************************************************************)
(* What a multiprocessing queue promises: the items of each process come   *)
(* out once each and in the order in which it put them, and no more than   *)
(* maxsize are outstanding.  Only a process that breaks down (it exits     *)
(* after cancel_join_thread(), or an item of it cannot be pickled) loses   *)
(* items, and then none of them overtakes another.                         *)
(***************************************************************************)
EXTENDS Integers, Sequences, SequencesExt, FiniteSets

CONSTANTS Procs, MaxSize

VARIABLES
  puts,          \* how many items each process has put; they are numbered
  outstanding,   \* those of each process that are yet to be received
  broken         \* the processes that have broken down

vars == <<puts, outstanding, broken>>

Init ==
  /\ puts = [p \in Procs |-> 0]
  /\ outstanding = [p \in Procs |-> <<>>]
  /\ broken = {}

Room == Cardinality(UNION {{p} \X DOMAIN outstanding[p] : p \in Procs}) < MaxSize

\* An item put after the breakdown is lost at once.
Put(p) ==
  /\ puts' = [puts EXCEPT ![p] = @ + 1]
  /\ \/ p \in broken /\ UNCHANGED outstanding
     \/ p \notin broken /\ Room
        /\ outstanding' = [outstanding EXCEPT ![p] = Append(@, puts[p] + 1)]
  /\ UNCHANGED broken

Receive(p) ==
  /\ outstanding[p] # <<>>
  /\ outstanding' = [outstanding EXCEPT ![p] = Tail(@)]
  /\ UNCHANGED <<puts, broken>>

BreakDown(p) ==
  /\ p \notin broken
  /\ broken' = broken \cup {p}
  /\ \E kept \in Prefixes(outstanding[p]) : outstanding' = [outstanding EXCEPT ![p] = kept]
  /\ UNCHANGED puts

Next == \E p \in Procs : Put(p) \/ Receive(p) \/ BreakDown(p)

Spec == Init /\ [][Next]_vars
===============================================================================
