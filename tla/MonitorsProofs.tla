---------------------------- MODULE MonitorsProofs ----------------------------
(***************************************************************************)
(* Proofs about NRMutex and Semaphore, for any finite set of threads, and  *)
(* about Event and Server, for any set of them.                            *)
(*                                                                         *)
(* NRMutex, the Windows mutex: its invariants are inductive together, and  *)
(* every step of it is a step of the lock that PyLock promises, or changes *)
(* nothing there.                                                          *)
(*                                                                         *)
(* Semaphore: each notification puts one acquirer more on its way, because *)
(* the list holds blocked threads only and nobody twice (BlockedListed);   *)
(* and each thread past the unlocked test of a bounded semaphore owes one  *)
(* release to the value (ReleasesOwed).                                    *)
(*                                                                         *)
(* Event: every sleeper is in the list that set() empties (SleeperListed), *)
(* also while others that have timed out remove themselves from it.        *)
(*                                                                         *)
(* Server: the event is clear for as long as a loop runs (LoopHidesEvent). *)
(***************************************************************************)
EXTENDS MCMonitors, FiniteSetTheorems, SequenceTheorems, TLAPS

\* OneToken places the token, OwnedCounts says what owned is worth in each of
\* those places, and NoLostWakeup is what makes "owned = -1" mean "no waiter":
\* none of the three is inductive without the other two.
IInv == TypeOK /\ OneToken /\ OwnedCounts /\ NoLostWakeup /\ ThreadIdIsHolder

\* The number of waiters is a natural number, and counts as expected.
LEMMA WaitersCount ==
  ASSUME NEW t \in Threads
  PROVE  /\ Cardinality(Waiters) \in Nat
         /\ Cardinality(Waiters) = 0 <=> Waiters = {}
         /\ t \notin Waiters =>
              Cardinality(Waiters \cup {t}) = Cardinality(Waiters) + 1
         /\ t \in Waiters =>
              Cardinality(Waiters \ {t}) = Cardinality(Waiters) - 1
<1>1. IsFiniteSet(Waiters)
  BY ThreadsAssumption, FS_Subset, Waiters \subseteq Threads DEF Waiters
<1> QED
  BY <1>1, FS_CardinalityType, FS_EmptySet, FS_AddElement, FS_RemoveElement

\* What each step does to the two things a lock object's user can tell apart:
\* whether the mutex is busy and who waits for it.
LEMMA Effects ==
  ASSUME IInv, NEW t \in Threads
  PROVE
    /\ TryEnter(t) => Waiters' = Waiters /\ ~Busy /\ Busy'
    /\ Enter(t) /\ owned = -1 => Waiters' = Waiters /\ ~Busy /\ Busy'
    /\ Enter(t) /\ owned # -1 => t \notin Waiters /\ Waiters' = Waiters \cup {t} /\ Busy' = Busy
    /\ Leave(t) => Waiters' = Waiters /\ Busy /\ Busy'
    /\ Wake(t) => t \in Waiters /\ Waiters' = Waiters \ {t} /\ ~Busy /\ Busy'
    /\ EnterReturn(t) => Waiters' = Waiters /\ Busy /\ Busy'
    /\ LeaveDecrement(t) => Waiters' = Waiters /\ Busy /\ ~Busy'
    /\ LeaveSetEvent(t) => Waiters' = Waiters /\ ~Busy /\ ~Busy'
<1> USE DEF IInv
<1>w. /\ Cardinality(Waiters) \in Nat
      /\ Cardinality(Waiters) = 0 <=> Waiters = {}
  BY WaitersCount
<1>1. TryEnter(t) => Waiters' = Waiters /\ ~Busy /\ Busy'
  <2>1. TryEnter(t) => Waiters' = Waiters
    BY DEF TryEnter, Goto, Waiters, TypeOK
  <2>2. TryEnter(t) => ~Busy /\ Busy'
    BY <1>w DEF TryEnter, Goto, TypeOK, OneToken, Busy, HandingOver, OwnedCounts, NoLostWakeup
  <2> QED
    BY <2>1, <2>2
<1>2. Enter(t) /\ owned = -1 => Waiters' = Waiters /\ ~Busy /\ Busy'
  <2>1. Enter(t) /\ owned = -1 => Waiters' = Waiters
    BY DEF Enter, Goto, Waiters, TypeOK
  <2>2. Enter(t) /\ owned = -1 => ~Busy /\ Busy'
    BY <1>w DEF Enter, Goto, TypeOK, OneToken, Busy, HandingOver, OwnedCounts, NoLostWakeup
  <2> QED
    BY <2>1, <2>2
<1>3. Enter(t) /\ owned # -1 => t \notin Waiters /\ Waiters' = Waiters \cup {t} /\ Busy' = Busy
  <2>1. Enter(t) /\ owned # -1 => t \notin Waiters /\ Waiters' = Waiters \cup {t}
    BY DEF Enter, Goto, Waiters, TypeOK
  <2>2. Enter(t) /\ owned # -1 => Busy' = Busy
    BY <1>w DEF Enter, Goto, TypeOK, OneToken, Busy, HandingOver, OwnedCounts, NoLostWakeup
  <2> QED
    BY <2>1, <2>2
<1>4. Leave(t) => Waiters' = Waiters /\ Busy /\ Busy'
  <2>1. Leave(t) => Waiters' = Waiters
    BY DEF Leave, Goto, Waiters, TypeOK
  <2>2. Leave(t) => Busy /\ Busy'
    BY <1>w DEF Leave, Goto, TypeOK, OneToken, Busy, HandingOver, OwnedCounts, NoLostWakeup
  <2> QED
    BY <2>1, <2>2
<1>5. Wake(t) => t \in Waiters /\ Waiters' = Waiters \ {t} /\ ~Busy /\ Busy'
  <2>1. Wake(t) => t \in Waiters /\ Waiters' = Waiters \ {t}
    BY DEF Wake, Goto, Waiters, TypeOK
  <2>2. Wake(t) => ~Busy /\ Busy'
    BY <1>w DEF Wake, Goto, TypeOK, OneToken, Busy, HandingOver, OwnedCounts, NoLostWakeup
  <2> QED
    BY <2>1, <2>2
<1>6. EnterReturn(t) => Waiters' = Waiters /\ Busy /\ Busy'
  <2>1. EnterReturn(t) => Waiters' = Waiters
    BY DEF EnterReturn, Goto, Waiters, TypeOK
  <2>2. EnterReturn(t) => Busy /\ Busy'
    BY ThreadsAssumption DEF EnterReturn, Goto, TypeOK, Busy
  <2> QED
    BY <2>1, <2>2
<1>7. LeaveDecrement(t) => Waiters' = Waiters /\ Busy /\ ~Busy'
  <2>1. LeaveDecrement(t) => Waiters' = Waiters
    BY DEF LeaveDecrement, Goto, Waiters, TypeOK
  <2>2. LeaveDecrement(t) => Busy /\ ~Busy'
    BY <1>w DEF LeaveDecrement, Goto, TypeOK, OneToken, Busy, HandingOver, OwnedCounts,
       NoLostWakeup
  <2> QED
    BY <2>1, <2>2
<1>8. LeaveSetEvent(t) => Waiters' = Waiters /\ ~Busy /\ ~Busy'
  <2>1. LeaveSetEvent(t) => Waiters' = Waiters
    BY DEF LeaveSetEvent, Goto, Waiters, TypeOK
  <2>2. LeaveSetEvent(t) => ~Busy /\ ~Busy'
    BY <1>w DEF LeaveSetEvent, Goto, TypeOK, OneToken, Busy, HandingOver, OwnedCounts,
       NoLostWakeup
  <2> QED
    BY <2>1, <2>2
<1> QED
  BY <1>1, <1>2, <1>3, <1>4, <1>5, <1>6, <1>7, <1>8

\* The invariant of the mutex holds at first ...
LEMMA InitIInv == Init => IInv
<1> SUFFICES ASSUME Init PROVE IInv
  OBVIOUS
<1>1. Waiters = {}
  BY DEF Init, Waiters
<1>2. Cardinality(Waiters) = 0
  BY <1>1, FS_EmptySet
<1>3. ~Busy /\ ~HandingOver
  BY DEF Init, Busy, HandingOver
<1>4. TypeOK
  <2>1. pc \in [Threads -> {"out", "wait", "own", "leave", "signal"}]
    BY DEF Init
  <2>2. owned \in Int
    BY DEF Init
  <2>3. hevent \in BOOLEAN /\ {thread_id, holder} \subseteq Threads \cup {NoThread}
    BY Zenon DEF Init
  <2> QED
    BY <2>1, <2>2, <2>3 DEF TypeOK
<1>5. OneToken /\ ThreadIdIsHolder
  BY DEF Init, OneToken, ThreadIdIsHolder
<1>6. OwnedCounts /\ NoLostWakeup
  BY <1>1, <1>2, <1>3 DEF Init, OwnedCounts, NoLostWakeup
<1> QED
  BY <1>4, <1>5, <1>6 DEF IInv

\* ... and at every step.
LEMMA NextIInv == IInv /\ [Next]_vars => IInv'
<1> SUFFICES ASSUME IInv, [Next]_vars PROVE IInv'
  OBVIOUS
<1> USE DEF IInv
<1>u. CASE UNCHANGED vars
  BY <1>u DEF vars, TypeOK, OneToken, OwnedCounts, NoLostWakeup,
              ThreadIdIsHolder, Busy, HandingOver, Waiters
<1>n. CASE Next
  <2> SUFFICES ASSUME NEW t \in Threads,
                      TryEnter(t) \/ Enter(t) \/ Leave(t) \/ Inside(t)
               PROVE  IInv'
    BY <1>n DEF Next
  <2>w. /\ Cardinality(Waiters) \in Nat
        /\ Cardinality(Waiters) = 0 <=> Waiters = {}
    BY WaitersCount
  <2>1. CASE TryEnter(t)
    <3>1. Waiters' = Waiters /\ ~Busy /\ Busy'
      BY <2>1, Effects
    <3>2. TypeOK' /\ OneToken' /\ ThreadIdIsHolder'
      BY <2>1, <2>w, ThreadsAssumption
      DEF TryEnter, Goto, TypeOK, OneToken, ThreadIdIsHolder, Busy, HandingOver, OwnedCounts, NoLostWakeup
    <3>3. OwnedCounts'
      BY <2>1, <2>w, <3>1, WaitersCount DEF TryEnter, OwnedCounts, TypeOK
    <3>4. NoLostWakeup'
      BY <2>1, <2>w, <3>1 DEF TryEnter, Goto, TypeOK, OneToken, HandingOver, OwnedCounts,
         NoLostWakeup
    <3> QED
      BY <3>2, <3>3, <3>4
  <2>2. CASE Enter(t) /\ owned = -1
    <3>1. Waiters' = Waiters /\ ~Busy /\ Busy'
      BY <2>2, Effects
    <3>2. TypeOK' /\ OneToken' /\ ThreadIdIsHolder'
      BY <2>2, <2>w, ThreadsAssumption
      DEF Enter, Goto, TypeOK, OneToken, ThreadIdIsHolder, Busy, HandingOver, OwnedCounts, NoLostWakeup
    <3>3. OwnedCounts'
      BY <2>2, <2>w, <3>1, WaitersCount DEF Enter, OwnedCounts, TypeOK
    <3>4. NoLostWakeup'
      BY <2>2, <2>w, <3>1 DEF Enter, Goto, TypeOK, OneToken, HandingOver, OwnedCounts,
         NoLostWakeup
    <3> QED
      BY <3>2, <3>3, <3>4
  <2>3. CASE Enter(t) /\ owned # -1
    <3>1. t \notin Waiters /\ Waiters' = Waiters \cup {t} /\ Busy' = Busy
      BY <2>3, Effects
    <3>2. TypeOK' /\ OneToken' /\ ThreadIdIsHolder'
      BY <2>3, <2>w, ThreadsAssumption
      DEF Enter, Goto, TypeOK, OneToken, ThreadIdIsHolder, Busy, HandingOver, OwnedCounts, NoLostWakeup
    <3>3. OwnedCounts'
      BY <2>3, <2>w, <3>1, WaitersCount DEF Enter, OwnedCounts, TypeOK
    <3>4. NoLostWakeup'
      BY <2>3, <2>w, <3>1 DEF Enter, Goto, TypeOK, OneToken, HandingOver, OwnedCounts,
         NoLostWakeup
    <3> QED
      BY <3>2, <3>3, <3>4
  <2>4. CASE Leave(t)
    <3>1. Waiters' = Waiters /\ Busy /\ Busy'
      BY <2>4, Effects
    <3>2. TypeOK' /\ OneToken' /\ ThreadIdIsHolder'
      BY <2>4, <2>w, ThreadsAssumption
      DEF Leave, Goto, TypeOK, OneToken, ThreadIdIsHolder, Busy, HandingOver, OwnedCounts, NoLostWakeup
    <3>3. OwnedCounts'
      BY <2>4, <2>w, <3>1, WaitersCount DEF Leave, OwnedCounts, TypeOK
    <3>4. NoLostWakeup'
      BY <2>4, <2>w, <3>1 DEF Leave, Goto, TypeOK, OneToken, HandingOver, OwnedCounts,
         NoLostWakeup
    <3> QED
      BY <3>2, <3>3, <3>4
  <2>5. CASE Wake(t)
    <3>1. t \in Waiters /\ Waiters' = Waiters \ {t} /\ ~Busy /\ Busy'
      BY <2>5, Effects
    <3>2. TypeOK' /\ OneToken' /\ ThreadIdIsHolder'
      BY <2>5, <2>w, ThreadsAssumption
      DEF Wake, Goto, TypeOK, OneToken, ThreadIdIsHolder, Busy, HandingOver, OwnedCounts, NoLostWakeup
    <3>3. OwnedCounts'
      BY <2>5, <2>w, <3>1, WaitersCount DEF Wake, OwnedCounts, TypeOK
    <3>4. NoLostWakeup'
      BY <2>5, <2>w, <3>1 DEF Wake, Goto, TypeOK, OneToken, HandingOver, OwnedCounts, NoLostWakeup
    <3> QED
      BY <3>2, <3>3, <3>4
  <2>6. CASE EnterReturn(t)
    <3>1. Waiters' = Waiters /\ Busy /\ Busy'
      BY <2>6, Effects
    <3>2. TypeOK' /\ OneToken' /\ ThreadIdIsHolder'
      BY <2>6, <2>w, ThreadsAssumption
      DEF EnterReturn, Goto, TypeOK, OneToken, ThreadIdIsHolder, Busy, HandingOver, OwnedCounts, NoLostWakeup
    <3>3. OwnedCounts'
      BY <2>6, <2>w, <3>1, WaitersCount DEF EnterReturn, OwnedCounts, TypeOK
    <3>4. NoLostWakeup'
      BY <2>6, <2>w, <3>1 DEF EnterReturn, Goto, TypeOK, OneToken, HandingOver, OwnedCounts,
         NoLostWakeup
    <3> QED
      BY <3>2, <3>3, <3>4
  <2>7. CASE LeaveDecrement(t)
    <3>1. Waiters' = Waiters /\ Busy /\ ~Busy'
      BY <2>7, Effects
    <3>2. TypeOK' /\ OneToken' /\ ThreadIdIsHolder'
      BY <2>7, <2>w, ThreadsAssumption
      DEF LeaveDecrement, Goto, TypeOK, OneToken, ThreadIdIsHolder, Busy, HandingOver, OwnedCounts, NoLostWakeup
    <3>3. OwnedCounts'
      BY <2>7, <2>w, <3>1, WaitersCount DEF LeaveDecrement, OwnedCounts, TypeOK
    <3>4. NoLostWakeup'
      BY <2>7, <2>w, <3>1 DEF LeaveDecrement, Goto, TypeOK, OneToken, HandingOver, OwnedCounts,
         NoLostWakeup
    <3> QED
      BY <3>2, <3>3, <3>4
  <2>8. CASE LeaveSetEvent(t)
    <3>1. Waiters' = Waiters /\ ~Busy /\ ~Busy'
      BY <2>8, Effects
    <3>2. TypeOK' /\ OneToken' /\ ThreadIdIsHolder'
      BY <2>8, <2>w, ThreadsAssumption
      DEF LeaveSetEvent, Goto, TypeOK, OneToken, ThreadIdIsHolder, Busy, HandingOver, OwnedCounts, NoLostWakeup
    <3>3. OwnedCounts'
      BY <2>8, <2>w, <3>1, WaitersCount DEF LeaveSetEvent, OwnedCounts, TypeOK
    <3>4. NoLostWakeup'
      BY <2>8, <2>w, <3>1 DEF LeaveSetEvent, Goto, TypeOK, OneToken, HandingOver, OwnedCounts,
         NoLostWakeup
    <3> QED
      BY <3>2, <3>3, <3>4
  <2> QED
    BY <2>1, <2>2, <2>3, <2>4, <2>5, <2>6, <2>7, <2>8 DEF Inside
<1> QED
  BY <1>u, <1>n

\* Each invariant the run of NRMutex checks, for any finite set of threads.
THEOREM InvariantsHold == Spec => []IInv
<1>1. Spec => Init /\ [][Next]_vars
  BY DEF Spec
<1> QED
  BY InitIInv, NextIInv, <1>1, PTL

\* The types of the mutex's fields and of the program counters.
THEOREM TypeCorrect == Spec => []TypeOK
<1>1. IInv => TypeOK
  BY DEF IInv
<1> QED
  BY InvariantsHold, <1>1, PTL

\* Mutual exclusion of EnterNonRecursiveMutex, with one hand-over per Leave
\* (thread_nt.h 101-136).
THEOREM MutualExclusion == Spec => []OneToken
<1>1. IInv => OneToken
  BY DEF IInv
<1> QED
  BY InvariantsHold, <1>1, PTL

\* No thread is left in WaitForSingleObject by a mutex nobody holds.
THEOREM WakeupsAreNotLost == Spec => []NoLostWakeup
<1>1. IInv => NoLostWakeup
  BY DEF IInv
<1> QED
  BY InvariantsHold, <1>1, PTL

\* The state changes of the mutex are those of the lock that the thread module
\* promises (the safety part of LockSpec; its fairness is TLC's).
LockSafety == Lock!Init /\ [][Lock!Next]_(Lock!vars)

\* The mutex implements the lock that the thread module promises: it starts free, and every
\* step of it is one of that lock or leaves the lock as it is.
THEOREM ImplementsLock == Spec => LockSafety
<1>1. Init => Lock!Init
  BY DEF Init, Lock!Init, Busy, Waiters
<1>2. IInv /\ IInv' /\ [Next]_vars => [Lock!Next]_(Lock!vars)
  <2> SUFFICES ASSUME IInv, IInv', [Next]_vars PROVE [Lock!Next]_(Lock!vars)
    OBVIOUS
  <2> USE DEF IInv, Lock!vars
  <2>u. CASE UNCHANGED vars
    BY <2>u DEF vars, Busy, Waiters
  <2>n. CASE Next
    <3> SUFFICES ASSUME NEW t \in Threads,
                        TryEnter(t) \/ Enter(t) \/ Leave(t) \/ Inside(t)
                 PROVE  [Lock!Next]_(Lock!vars)
      BY <2>n DEF Next
    <3>1. CASE TryEnter(t)
      <4>1. Lock!Acquire(t)
        BY <3>1, Effects DEF Lock!Acquire, Goto, Waiters, TryEnter
      <4> QED
        BY <4>1 DEF Lock!Next
    <3>2. CASE Enter(t) /\ owned = -1
      <4>1. Lock!Acquire(t)
        BY <3>2, Effects DEF Lock!Acquire, Goto, Waiters, Enter
      <4> QED
        BY <4>1 DEF Lock!Next
    <3>3. CASE Enter(t) /\ owned # -1
      <4>1. Lock!Block(t)
        BY <3>3, Effects DEF Lock!Block, Goto, Waiters, Enter
      <4> QED
        BY <4>1 DEF Lock!Next
    <3>4. CASE Leave(t)
      <4>1. UNCHANGED <<Busy, Waiters>>
        BY <3>4, Effects DEF Busy
      <4> QED
        BY <4>1 DEF Lock!Next
    <3>5. CASE Wake(t)
      <4>1. Lock!Grant(t)
        BY <3>5, Effects DEF Lock!Grant
      <4> QED
        BY <4>1 DEF Lock!Next
    <3>6. CASE EnterReturn(t)
      <4>1. UNCHANGED <<Busy, Waiters>>
        BY <3>6, Effects DEF Busy
      <4> QED
        BY <4>1 DEF Lock!Next
    <3>7. CASE LeaveDecrement(t)
      <4>1. Lock!Release
        BY <3>7, Effects DEF Lock!Release
      <4> QED
        BY <4>1 DEF Lock!Next
    <3>8. CASE LeaveSetEvent(t)
      <4>1. UNCHANGED <<Busy, Waiters>>
        BY <3>8, Effects DEF Busy
      <4> QED
        BY <4>1 DEF Lock!Next
    <3> QED
      BY <3>1, <3>2, <3>3, <3>4, <3>5, <3>6, <3>7, <3>8 DEF Inside
  <2> QED
    BY <2>u, <2>n
<1>3. Spec => Init /\ [][Next]_vars
  BY DEF Spec
<1> QED
  BY <1>1, <1>2, <1>3, InvariantsHold, PTL DEF LockSafety

-------------------------------------------------------------------------------
list == s_waiters["cond"]
Releasing == {t \in Threads : s_op[t] = "release"}

\* Type invariant of the variables of Semaphore.
SemaphoreTypeOK ==
  /\ s_waiters \in [{"cond"} -> Seq(Threads)]
  /\ s_stage \in [Threads -> {"run", "blocked", "notified"}]
  /\ s_timed \in [Threads -> BOOLEAN]
  /\ value \in Nat /\ s_calls \in Nat
  /\ s_op \in [Threads -> {"none", "acquire", "release"}]

\* A thread is inside wait() in acquire() and nowhere else.
WaitingAcquires == \A t \in Threads : s_stage[t] = "run" <=> s_op[t] # "acquire"

\* Nobody is listed twice, or when he is not blocked.
BlockedListed == IsInjective(list) /\ \A t \in Range(list) : s_stage[t] = "blocked"

\* A thread that has passed the test of a bounded semaphore will add one to the value.
ReleasesOwed ==
  IsBounded => value + Cardinality(Releasing) <= Initial + Cardinality(Threads) - 1

SemaphoreIInv ==
  /\ SemaphoreTypeOK /\ WaitingAcquires /\ BlockedListed /\ ReleasesOwed /\ PermitsClaimed

\* The constants of the semaphore, and the cardinality that it counts threads with.
LEMMA SemaphoreConstants ==
  /\ IsFiniteSet(Threads) /\ Threads # {} /\ Initial \in Nat /\ IsBounded \in BOOLEAN
  /\ Cardinality(Threads) \in Nat \ {0}
<1>1. IsFiniteSet(Threads) /\ Threads # {} /\ Initial \in Nat /\ IsBounded \in BOOLEAN
  BY SemaphoreHasItsConstants DEF S!SemaphoreAssumption, S!IsFiniteSet, IsFiniteSet
<1> QED BY <1>1, FS_CardinalityType, FS_EmptySet

\* What Semaphore counts with is the Cardinality of this module.
LEMMA SameCardinality == \A A : S!Cardinality(A) = Cardinality(A)
  BY DEF S!Cardinality, Cardinality

\* The property of the run, in the words of the module of the semaphore, now and at the next state.
LEMMA PermitsCounted ==
  /\ PermitsClaimed <=> (list # <<>> => value <= Cardinality(S!InTransit))
  /\ PermitsClaimed' <=> (list' # <<>> => value' <= Cardinality(S!InTransit'))
<1>1. /\ S!Cardinality(S!InTransit) = Cardinality(S!InTransit)
      /\ S!Cardinality(S!InTransit') = Cardinality(S!InTransit')
  BY SameCardinality
<1> QED BY <1>1 DEF PermitsClaimed, S!PermitsClaimed, list

\* Sets of threads have cardinalities; one more or less thread changes them by one.
LEMMA ThreadCounts ==
  ASSUME NEW A \in SUBSET Threads
  PROVE  /\ Cardinality(A) \in Nat /\ Cardinality(A) <= Cardinality(Threads)
         /\ \A t \in Threads \ A : Cardinality(A \cup {t}) = Cardinality(A) + 1
         /\ \A t \in A : Cardinality(A \ {t}) = Cardinality(A) - 1
<1>1. IsFiniteSet(A)
  BY SemaphoreConstants, FS_Subset
<1> QED BY <1>1, SemaphoreConstants, FS_CardinalityType, FS_Subset, FS_AddElement, FS_RemoveElement

\* notify(): the first thread of the list, if there is one, is off it and goes on.
LEMMA NotifyEffect ==
  ASSUME SemaphoreTypeOK, BlockedListed, NEW t \in Threads, s_stage[t] = "run",
         S!Notify(t, "cond", 1)
  PROVE  /\ s_waiters' \in [{"cond"} -> Seq(Threads)] /\ UNCHANGED s_timed
         /\ list = <<>> => UNCHANGED <<s_stage, list>>
         /\ list # <<>> => \E w \in Threads :
              /\ s_stage[w] = "blocked" /\ w \in Range(list)
              /\ s_stage' = [s_stage EXCEPT ![w] = "notified"]
              /\ IsInjective(list') /\ Range(list') = Range(list) \ {w}
<1>1. list \in Seq(Threads) /\ s_waiters = [c \in {"cond"} |-> list]
  BY DEF SemaphoreTypeOK, list
<1>2. Len(list) \in Nat /\ DOMAIN list = 1 .. Len(list) /\ (list # <<>> => Len(list) > 0)
      /\ \A k \in 1 .. Len(list) : list[k] \in Threads
  BY <1>1, LenProperties, EmptySeq, ElementOfSeq
<1> DEFINE m == IF 1 < Len(list) THEN 1 ELSE Len(list)
           released == Range(SubSeq(list, 1, m))
<1>3. /\ s_waiters' = [s_waiters EXCEPT !["cond"] = SubSeq(@, m + 1, Len(@))]
      /\ s_stage' = [u \in Threads |->
                       CASE u = t -> "run"
                         [] u # t /\ u \in released /\ s_stage[u] = "blocked" -> "notified"
                         [] OTHER -> s_stage[u]]
      /\ UNCHANGED s_timed
  BY DEF S!Notify, S!Range, Range, list
<1>4. list' = SubSeq(list, m + 1, Len(list)) /\ s_waiters' = [c \in {"cond"} |-> list']
  BY <1>1, <1>3 DEF list
<1>5. CASE list = <<>>
  <2>1. Len(list) = 0 /\ m = 0
    BY <1>2, <1>5
  <2>2. list' = <<>>
    BY <1>4, <2>1, SubSeqEmpty
  <2>3. released = {}
    <3>1. SubSeq(list, 1, m) = <<>>
      BY <2>1, SubSeqEmpty
    <3> QED BY <3>1 DEF Range
  <2>4. s_stage' = s_stage
    BY <1>3, <2>3 DEF SemaphoreTypeOK
  <2> QED BY <1>1, <1>3, <1>4, <1>5, <2>2, <2>4
<1>6. CASE list # <<>>
  <2> DEFINE w == list[1]
             n == Len(list)
  <2>1. n \in Nat /\ n >= 1 /\ m = 1 /\ w \in Threads /\ w \in Range(list) /\ s_stage[w] = "blocked"
    <3>1. n \in Nat /\ n >= 1 /\ m = 1
      BY <1>2, <1>6
    <3>2. w \in Threads /\ w \in Range(list)
      BY <1>2, <3>1 DEF Range
    <3> QED BY <3>1, <3>2 DEF BlockedListed
  <2>2. /\ list' \in Seq(Threads) /\ Len(list') = n - 1
        /\ \A k \in 1 .. (n - 1) : list'[k] = list[k + 1]
    <3>1. Tail(list) = SubSeq(list, 2, n)
      BY <1>1, <1>6, TailIsSubSeq
    <3>2. list' = Tail(list)
      <4>1. m + 1 = 2
        BY <2>1
      <4> HIDE DEF m
      <4> QED BY <1>4, <3>1, <4>1
    <3> QED BY <1>1, <1>6, <3>2, HeadTailProperties
  <2>3. DOMAIN list' = 1 .. (n - 1)
    BY <2>2, LenProperties
  <2>4. released = {w}
    <3> DEFINE q == SubSeq(list, 1, 1)
    <3>1. q \in Seq(Threads) /\ Len(q) = 1 /\ q[1] = w
      <4>1. \A k \in 1 .. 1 : list[k] \in Threads
        BY <1>2, <2>1
      <4>2. /\ q \in Seq(Threads)
            /\ Len(q) = IF 1 <= 1 THEN 1 - 1 + 1 ELSE 0
            /\ \A k \in 1 .. (1 - 1 + 1) : q[k] = list[1 + k - 1]
        BY <4>1, SubSeqProperties
      <4> QED BY <4>2
    <3>2. released = Range(q)
      BY <2>1
    <3> HIDE DEF q, released
    <3>3. DOMAIN q = {1}
      BY <3>1, LenProperties
    <3> QED BY <3>1, <3>2, <3>3 DEF Range
  <2>5. s_stage' = [s_stage EXCEPT ![w] = "notified"]
    BY <1>3, <2>1, <2>4 DEF SemaphoreTypeOK
  <2>6. IsInjective(list') /\ w \notin Range(list')
    <3>1. \A k \in 1 .. (n - 1) : k + 1 \in 1 .. n /\ k + 1 # 1
      BY <2>1
    <3>2. 1 \in 1 .. n
      BY <2>1
    <3>3. w \notin Range(list')
      BY <1>2, <2>2, <2>3, <3>1, <3>2 DEF Range, BlockedListed, IsInjective
    <3>4. \A a, b \in 1 .. (n - 1) : list'[a] = list'[b] => a + 1 = b + 1
      BY <1>2, <2>2, <3>1 DEF BlockedListed, IsInjective
    <3> QED BY <2>3, <3>3, <3>4 DEF IsInjective
  <2>7. Range(list') = Range(list) \ {w}
    <3>1. \A k \in 1 .. n : k = 1 \/ (k - 1 \in 1 .. (n - 1) /\ (k - 1) + 1 = k)
      BY <2>1
    <3>2. \A k \in 1 .. (n - 1) : k + 1 \in 1 .. n
      BY <2>1
    <3>3. Range(list') \subseteq Range(list)
      BY <1>2, <2>2, <2>3, <3>2 DEF Range
    <3>4. Range(list) \ {w} \subseteq Range(list')
      <4> SUFFICES ASSUME NEW k \in 1 .. n, list[k] # w PROVE list[k] \in Range(list')
        BY <1>2 DEF Range
      <4>1. k - 1 \in 1 .. (n - 1) /\ list'[k - 1] = list[k]
        BY <2>2, <3>1
      <4> QED BY <2>3, <4>1 DEF Range
    <3> QED BY <2>6, <3>3, <3>4
  <2>8. s_waiters' \in [{"cond"} -> Seq(Threads)]
    BY <1>4, <2>2
  <2> HIDE DEF w
  <2> QED BY <1>3, <1>6, <2>1, <2>5, <2>6, <2>7, <2>8
<1> QED BY <1>5, <1>6

\* An acquirer on its way is in wait() and off the list.
LEMMA TransitIsOffList ==
  /\ S!InTransit = {t \in Threads : s_op[t] = "acquire" /\ t \notin Range(list)}
  /\ S!InTransit' = {t \in Threads : s_op'[t] = "acquire" /\ t \notin Range(list')}
  BY DEF S!InTransit, S!Range, Range, list

\* acquire() that finds a permit keeps the invariant.
LEMMA AcquireKeeps ==
  ASSUME SemaphoreIInv, NEW t \in Threads, S!Acquire(t)
  PROVE  SemaphoreIInv'
<1> USE DEF SemaphoreIInv, SemaphoreTypeOK, S!Acquire, S!Return, S!SetOp
<1>1. /\ s_op[t] \in {"none", "acquire"} /\ s_stage[t] \in {"run", "notified"}
      /\ s_calls' \in Nat /\ value > 0
  BY DEF S!Call, S!Resume, S!Resumable, WaitingAcquires
<1>2. SemaphoreTypeOK' /\ WaitingAcquires'
  BY <1>1 DEF WaitingAcquires
<1>3. t \notin Range(list)
  BY <1>1 DEF BlockedListed
<1>4. BlockedListed' /\ list' = list
  <2>1. \A u \in Range(list) : u \in Threads /\ u # t
    BY <1>3, RangeOfSeq DEF list
  <2> QED BY <2>1 DEF BlockedListed, list
<1>5. Releasing' = Releasing
  BY <1>1 DEF Releasing
<1>6. ReleasesOwed'
  <2>1. Cardinality(Releasing) \in Nat
    BY ThreadCounts DEF Releasing
  <2>2. Cardinality(Releasing') = Cardinality(Releasing)
    BY <1>5
  <2> QED BY <1>1, <2>1, <2>2, SemaphoreConstants DEF ReleasesOwed
<1>7. PermitsClaimed'
  <2> SUFFICES ASSUME list # <<>> PROVE value' <= Cardinality(S!InTransit')
    BY <1>4, PermitsCounted
  <2> DEFINE A == S!InTransit
  <2>1. A \in SUBSET Threads /\ A \ {t} \in SUBSET Threads
    BY DEF S!InTransit
  <2>2. S!InTransit' = A \ {t}
    BY <1>4, TransitIsOffList
  <2>3. Cardinality(A) \in Nat /\ Cardinality(A \ {t}) >= Cardinality(A) - 1
    <3>1. CASE t \in A
      BY <2>1, <3>1, ThreadCounts
    <3>2. CASE t \notin A
      <4>1. A \ {t} = A
        BY <3>2
      <4>2. Cardinality(A) \in Nat
        BY <2>1, ThreadCounts
      <4>3. Cardinality(A \ {t}) = Cardinality(A)
        BY <4>1
      <4> HIDE DEF A
      <4> QED BY <4>2, <4>3
    <3> QED BY <3>1, <3>2
  <2>4. value <= Cardinality(A)
    BY PermitsCounted
  <2>5. Cardinality(S!InTransit') = Cardinality(A \ {t}) /\ Cardinality(A \ {t}) \in Nat
    BY <2>1, <2>2, ThreadCounts
  <2> HIDE DEF A
  <2> QED BY <2>3, <2>4, <2>5
<1> QED BY <1>2, <1>4, <1>6, <1>7

\* Lists of waiters to which one is added.
LEMMA AppendToList ==
  ASSUME NEW A, NEW s \in Seq(A), NEW x \in A
  PROVE  /\ Append(s, x) \in Seq(A)
         /\ Range(Append(s, x)) = Range(s) \cup {x}
         /\ IsInjective(s) /\ x \notin Range(s) => IsInjective(Append(s, x))
<1> DEFINE r == Append(s, x)
           n == Len(s)
<1>1. /\ r \in Seq(A) /\ n \in Nat /\ DOMAIN s = 1 .. n /\ DOMAIN r = 1 .. (n + 1)
      /\ \A k \in 1 .. n : r[k] = s[k]
      /\ r[n + 1] = x
  BY AppendProperties, LenProperties
<1> HIDE DEF r
<1>2. /\ \A k \in 1 .. (n + 1) : k \in 1 .. n \/ k = n + 1
      /\ 1 .. n \subseteq 1 .. (n + 1) /\ n + 1 \in 1 .. (n + 1)
  BY <1>1
<1>3. Range(r) = Range(s) \cup {x}
  BY <1>1, <1>2 DEF Range
<1>4. ASSUME IsInjective(s), x \notin Range(s) PROVE IsInjective(r)
  <2>1. \A k \in 1 .. n : s[k] # x
    BY <1>1, <1>4 DEF Range
  <2> QED BY <1>1, <1>2, <1>4, <2>1 DEF IsInjective
<1> QED BY <1>1, <1>3, <1>4 DEF r

\* acquire() that finds no permit keeps the invariant.
LEMMA AcquireWaitKeeps ==
  ASSUME SemaphoreIInv, NEW t \in Threads, S!AcquireWait(t)
  PROVE  SemaphoreIInv'
<1> USE DEF SemaphoreIInv, SemaphoreTypeOK, S!AcquireWait, S!Wait, S!SetOp
<1>1. /\ s_op[t] \in {"none", "acquire"} /\ s_stage[t] \in {"run", "notified"}
      /\ s_calls' \in Nat /\ value = 0
  BY DEF S!Call, S!Resume, S!Resumable, WaitingAcquires
<1>2. list \in Seq(Threads) /\ list' = Append(list, t) /\ s_waiters' = [c \in {"cond"} |-> list']
  BY DEF list
<1>3. /\ list' \in Seq(Threads) /\ Range(list') = Range(list) \cup {t}
      /\ IsInjective(list')
  <2>1. t \notin Range(list)
    BY <1>1 DEF BlockedListed
  <2> QED BY <1>2, <2>1, AppendToList DEF BlockedListed
<1>4. SemaphoreTypeOK' /\ WaitingAcquires'
  BY <1>1, <1>2, <1>3 DEF WaitingAcquires
<1>5. BlockedListed'
  <2>1. \A u \in Range(list) : u \in Threads
    BY <1>2, RangeOfSeq
  <2> QED BY <1>3, <2>1 DEF BlockedListed
<1>6. ReleasesOwed'
  <2>1. Releasing' = Releasing
    BY <1>1 DEF Releasing
  <2>2. Cardinality(Releasing') = Cardinality(Releasing)
    BY <2>1
  <2> QED BY <2>2 DEF ReleasesOwed
<1>7. PermitsClaimed'
  <2>1. Cardinality(S!InTransit') \in Nat
    <3>1. S!InTransit' \in SUBSET Threads
      BY TransitIsOffList
    <3> QED BY <3>1, ThreadCounts
  <2> QED BY <1>1, <2>1, PermitsCounted
<1> QED BY <1>4, <1>5, <1>6, <1>7

\* The test of release(), without the lock, keeps the invariant.
LEMMA CheckReleaseKeeps ==
  ASSUME SemaphoreIInv, NEW t \in Threads, S!CheckRelease(t)
  PROVE  SemaphoreIInv'
<1> USE DEF SemaphoreIInv, SemaphoreTypeOK, S!CheckRelease, S!Call, S!SetOp, S!condVars
<1>1. SemaphoreTypeOK' /\ WaitingAcquires'
  BY DEF WaitingAcquires
<1>2. BlockedListed' /\ list' = list
  BY DEF BlockedListed, list
<1>3. ReleasesOwed'
  <2>1. Releasing' \in SUBSET Threads
    BY DEF Releasing
  <2>2. Cardinality(Releasing') \in Nat /\ Cardinality(Releasing') <= Cardinality(Threads)
    BY <2>1, ThreadCounts
  <2> QED BY <2>2, SemaphoreConstants DEF ReleasesOwed
<1>4. PermitsClaimed'
  <2>1. S!InTransit' = S!InTransit
    BY <1>2, TransitIsOffList
  <2>2. Cardinality(S!InTransit') = Cardinality(S!InTransit)
    BY <2>1
  <2> QED BY <1>2, <2>2, PermitsCounted
<1> QED BY <1>1, <1>2, <1>3, <1>4

\* release(), past the test, keeps the invariant.
LEMMA ReleaseKeeps ==
  ASSUME SemaphoreIInv, NEW t \in Threads, S!Release(t)
  PROVE  SemaphoreIInv'
<1> USE DEF SemaphoreIInv, SemaphoreTypeOK, S!Release, S!SetOp
<1>1. s_stage[t] = "run" /\ s_op[t] = "release" /\ s_op' = [s_op EXCEPT ![t] = "none"]
  BY DEF WaitingAcquires
<1>2. /\ s_waiters' \in [{"cond"} -> Seq(Threads)] /\ UNCHANGED s_timed
      /\ list = <<>> => UNCHANGED <<s_stage, list>>
      /\ list # <<>> => \E w \in Threads :
           /\ s_stage[w] = "blocked" /\ w \in Range(list)
           /\ s_stage' = [s_stage EXCEPT ![w] = "notified"]
           /\ IsInjective(list') /\ Range(list') = Range(list) \ {w}
  BY <1>1, NotifyEffect
<1>3. ReleasesOwed'
  <2>1. Releasing \in SUBSET Threads /\ t \in Releasing /\ Releasing' = Releasing \ {t}
    BY <1>1 DEF Releasing
  <2>2. Cardinality(Releasing) \in Nat /\ Cardinality(Releasing \ {t}) = Cardinality(Releasing) - 1
    BY <2>1, ThreadCounts
  <2>3. Cardinality(Releasing') = Cardinality(Releasing) - 1
    BY <2>1, <2>2
  <2> QED BY <2>2, <2>3, SemaphoreConstants DEF ReleasesOwed
<1>4. CASE list = <<>>
  <2>1. UNCHANGED <<s_stage, list>>
    BY <1>2, <1>4
  <2>2. SemaphoreTypeOK' /\ WaitingAcquires' /\ BlockedListed'
    BY <1>1, <1>2, <2>1 DEF WaitingAcquires, BlockedListed
  <2>3. PermitsClaimed'
    BY <1>4, <2>1, PermitsCounted
  <2> QED BY <1>3, <2>2, <2>3
<1>5. CASE list # <<>>
  <2>1. PICK w \in Threads : /\ s_stage[w] = "blocked" /\ w \in Range(list)
                             /\ s_stage' = [s_stage EXCEPT ![w] = "notified"]
                             /\ IsInjective(list') /\ Range(list') = Range(list) \ {w}
    BY <1>2, <1>5
  <2>2. s_op[w] = "acquire" /\ w # t
    BY <1>1, <2>1 DEF WaitingAcquires
  <2>3. SemaphoreTypeOK' /\ WaitingAcquires'
    BY <1>1, <1>2, <2>1, <2>2 DEF WaitingAcquires
  <2>4. BlockedListed'
    <3>1. \A u \in Range(list) : u \in Threads
      BY RangeOfSeq DEF list
    <3> QED BY <2>1, <3>1 DEF BlockedListed
  <2>5. PermitsClaimed'
    <3> SUFFICES value' <= Cardinality(S!InTransit')
      BY PermitsCounted
    <3> DEFINE A == S!InTransit
    <3>1. A \in SUBSET Threads /\ w \notin A /\ S!InTransit' = A \cup {w}
      BY <1>1, <2>1, <2>2, TransitIsOffList
    <3>2. Cardinality(A \cup {w}) = Cardinality(A) + 1 /\ Cardinality(A) \in Nat
      BY <3>1, ThreadCounts
    <3>3. Cardinality(S!InTransit') = Cardinality(A) + 1
      BY <3>1, <3>2
    <3>4. value <= Cardinality(A)
      BY <1>5, PermitsCounted
    <3> HIDE DEF A
    <3> QED BY <3>2, <3>3, <3>4
  <2> QED BY <1>3, <2>3, <2>4, <2>5
<1> QED BY <1>4, <1>5

\* The invariant of the semaphore holds in every state.
THEOREM SemaphoreInvariantsHold == S!Spec => []SemaphoreIInv
<1>1. S!Init => SemaphoreIInv
  <2> SUFFICES ASSUME S!Init PROVE SemaphoreIInv
    OBVIOUS
  <2> USE DEF S!Init, S!CondInit
  <2>1. list = <<>> /\ <<>> \in Seq(Threads) /\ Range(list) = {}
    BY EmptySeq DEF list, Range
  <2>2. SemaphoreTypeOK /\ WaitingAcquires /\ BlockedListed
    BY <2>1, SemaphoreConstants DEF SemaphoreTypeOK, WaitingAcquires, BlockedListed, IsInjective
  <2>3. ReleasesOwed
    <3>1. Releasing = {}
      BY DEF Releasing
    <3>2. Cardinality(Releasing) = 0
      BY <3>1, FS_EmptySet
    <3> QED BY <3>2, SemaphoreConstants DEF ReleasesOwed
  <2>4. PermitsClaimed
    BY <2>1, PermitsCounted
  <2> QED BY <2>2, <2>3, <2>4 DEF SemaphoreIInv
<1>2. SemaphoreIInv /\ [S!Next]_(S!vars) => SemaphoreIInv'
  <2> SUFFICES ASSUME SemaphoreIInv, [S!Next]_(S!vars) PROVE SemaphoreIInv'
    OBVIOUS
  <2>1. CASE S!Next
    BY <2>1, AcquireKeeps, AcquireWaitKeeps, CheckReleaseKeeps, ReleaseKeeps DEF S!Next
  <2>2. CASE UNCHANGED S!vars
    <3> USE <2>2 DEF S!vars, S!condVars
    <3>1. SemaphoreTypeOK' /\ WaitingAcquires' /\ BlockedListed' /\ ReleasesOwed' /\ list' = list
      BY DEF SemaphoreIInv, SemaphoreTypeOK, WaitingAcquires, BlockedListed, ReleasesOwed, Releasing, list
    <3>2. S!InTransit' = S!InTransit
      BY <3>1, TransitIsOffList
    <3>3. Cardinality(S!InTransit') = Cardinality(S!InTransit)
      BY <3>2
    <3> QED BY <3>1, <3>3, PermitsCounted DEF SemaphoreIInv
  <2> QED BY <2>1, <2>2
<1> QED BY <1>1, <1>2, PTL DEF S!Spec

\* The value never falls below zero, and the unlocked test of a bounded semaphore lets it
\* exceed its initial value by at most one for each thread but one.
THEOREM BoundedByThreads == S!Spec => []ValueInRange
<1>1. SemaphoreIInv => ValueInRange
  <2> SUFFICES ASSUME SemaphoreIInv PROVE ValueInRange
    OBVIOUS
  <2>1. Cardinality(Releasing) \in Nat
    BY ThreadCounts DEF Releasing
  <2>2. S!Cardinality(Threads) = Cardinality(Threads)
    BY SameCardinality
  <2> QED BY <2>1, <2>2, SemaphoreConstants
          DEF SemaphoreIInv, SemaphoreTypeOK, ReleasesOwed, ValueInRange, S!ValueInRange
<1> QED BY SemaphoreInvariantsHold, <1>1, PTL

\* While acquirers are listed as waiting, every permit has an acquirer on its way to it,
\* although others may overtake it.
THEOREM NoPermitLeftBehind == S!Spec => []PermitsClaimed
<1>1. SemaphoreIInv => PermitsClaimed
  BY DEF SemaphoreIInv
<1> QED BY SemaphoreInvariantsHold, <1>1, PTL
-------------------------------------------------------------------------------
sleepers == e_waiters["cond"]

\* What is known of each thread of an event: who is inside wait(), who has been set free by
\* set(), and that only a wait() with a timeout gives up.
WaitStages ==
  /\ sawSet \subseteq waiting
  /\ \A t \in ThreeThreads :
       /\ e_stage[t] = "run" <=> t \notin waiting
       /\ e_stage[t] = "notified" => t \in sawSet
       /\ e_stage[t] \in {"gaveup", "expired"} => e_timed[t]
       /\ e_stage[t] # "interrupted"

\* set() reaches everybody: a thread whose wait() has seen the flag set does not sleep.
NobodySleepsOn == \A t \in sawSet : e_stage[t] # "blocked"

\* A sleeping thread is in the list from which set() takes those it wakes, once, with those
\* that are about to take themselves out.
SleeperListed ==
  /\ IsInjective(sleepers)
  /\ \A t \in ThreeThreads : e_stage[t] = "blocked" => t \in Range(sleepers)
  /\ \A t \in Range(sleepers) : e_stage[t] \in {"blocked", "gaveup"}

EventTypeOK ==
  /\ e_waiters \in [{"cond"} -> Seq(ThreeThreads)]
  /\ e_stage \in [ThreeThreads -> E!Stages]
  /\ e_timed \in [ThreeThreads -> BOOLEAN]
  /\ waiting \subseteq ThreeThreads

EventIInv == EventTypeOK /\ WaitStages /\ SleeperListed /\ NobodySleepsOn

\* s.remove(x) takes nothing else out of a list that holds nobody twice.
LEMMA RemoveTakesOne ==
  ASSUME NEW A, NEW s \in Seq(A), IsInjective(s), NEW x
  PROVE  /\ E!Remove(s, x) \in Seq(A) /\ IsInjective(E!Remove(s, x))
         /\ Range(E!Remove(s, x)) = Range(s) \ {x}
<1> DEFINE n == Len(s)
<1>1. n \in Nat /\ DOMAIN s = 1 .. n /\ (\A k \in 1 .. n : s[k] \in A) /\ E!Range(s) = Range(s)
  BY LenProperties, ElementOfSeq DEF E!Range, Range
<1>2. \A j, k \in 1 .. n : s[j] = s[k] => j = k
  BY <1>1 DEF IsInjective
<1>3. CASE x \notin Range(s)
  BY <1>1, <1>3 DEF E!Remove
<1>4. CASE x \in Range(s)
  <2> DEFINE i == E!Index(s, x)
             r == E!DelItem(s, i)
             Old(j) == IF j < i THEN j ELSE j + 1
  <2>1. i \in 1 .. n /\ s[i] = x
    <3>1. \E k \in 1 .. n : s[k] = x /\ \A j \in 1 .. (k - 1) : s[j] # x
      <4>1. PICK k \in 1 .. n : s[k] = x
        BY <1>1, <1>4 DEF Range
      <4>2. \A j \in 1 .. (k - 1) : s[j] # x
        BY <1>1, <1>2, <4>1
      <4> QED BY <4>1, <4>2
    <3> QED BY <1>1, <3>1 DEF E!Index
  <2>2. E!Remove(s, x) = r
    BY <1>1, <1>4 DEF E!Remove
  <2> HIDE DEF i, n
  <2>3. r = [j \in 1 .. (n - 1) |-> s[Old(j)]]
    BY DEF E!DelItem, n
  <2> HIDE DEF r
  <2>4. /\ \A j \in 1 .. (n - 1) : Old(j) \in 1 .. n /\ Old(j) # i
        /\ \A j, k \in 1 .. (n - 1) : Old(j) = Old(k) => j = k
        /\ \A k \in 1 .. n : k # i => \E j \in 1 .. (n - 1) : Old(j) = k
    <3>1. \A j \in 1 .. (n - 1) : Old(j) \in 1 .. n /\ Old(j) # i
      BY <1>1, <2>1
    <3>2. \A j, k \in 1 .. (n - 1) : Old(j) = Old(k) => j = k
      BY <1>1, <2>1
    <3>3. ASSUME NEW k \in 1 .. n, k # i PROVE \E j \in 1 .. (n - 1) : Old(j) = k
      <4>1. CASE k < i
        <5>1. k \in 1 .. (n - 1) /\ Old(k) = k
          BY <1>1, <2>1, <3>3, <4>1
        <5> QED BY <5>1
      <4>2. CASE k > i
        <5>1. k - 1 \in 1 .. (n - 1) /\ Old(k - 1) = k
          BY <1>1, <2>1, <3>3, <4>2
        <5> QED BY <5>1
      <4> QED BY <1>1, <2>1, <3>3, <4>1, <4>2
    <3> QED BY <3>1, <3>2, <3>3
  <2> HIDE DEF Old
  <2>5. DOMAIN r = 1 .. (n - 1) /\ \A j \in 1 .. (n - 1) : r[j] = s[Old(j)]
    BY <2>3
  <2>6. r \in Seq(A)
    <3>1. r \in [1 .. (n - 1) -> A] /\ n - 1 \in Nat
      BY <1>1, <2>1, <2>3, <2>4
    <3> QED BY <3>1, SeqDef
  <2>7. IsInjective(r)
    <3>1. \A j, k \in 1 .. (n - 1) : r[j] = r[k] => j = k
      BY <1>2, <2>4, <2>5
    <3> QED BY <2>5, <3>1 DEF IsInjective
  <2>8. \A y : y \in Range(r) <=> y \in Range(s) /\ y # x
    <3>1. ASSUME NEW j \in 1 .. (n - 1) PROVE r[j] \in Range(s) /\ r[j] # x
      BY <1>1, <1>2, <2>1, <2>4, <2>5 DEF Range
    <3>2. ASSUME NEW k \in 1 .. n, s[k] # x PROVE s[k] \in Range(r)
      BY <2>1, <2>4, <2>5, <3>2 DEF Range
    <3> QED BY <1>1, <2>5, <3>1, <3>2 DEF Range
  <2> QED BY <2>2, <2>6, <2>7, <2>8
<1> QED BY <1>3, <1>4

\* notifyAll() by a thread outside wait(): the list is empty, and all that slept are awake.
LEMMA NotifyAllEffect ==
  ASSUME EventIInv, NEW t \in ThreeThreads, e_stage[t] = "run", E!NotifyAll(t, "cond")
  PROVE  /\ e_waiters' \in [{"cond"} -> Seq(ThreeThreads)] /\ UNCHANGED e_timed
         /\ sleepers' = <<>>
         /\ e_stage' = [u \in ThreeThreads |->
                          IF e_stage[u] = "blocked" THEN "notified" ELSE e_stage[u]]
<1> DEFINE n == Len(sleepers)
           released == Range(SubSeq(sleepers, 1, n))
<1>1. sleepers \in Seq(ThreeThreads) /\ n \in Nat /\ DOMAIN sleepers = 1 .. n
  BY LenProperties DEF EventIInv, EventTypeOK, sleepers
<1>2. (IF n < n THEN n ELSE n) = n
  OBVIOUS
<1>3. /\ e_waiters' = [e_waiters EXCEPT !["cond"] = SubSeq(@, n + 1, Len(@))]
      /\ e_stage' = [u \in ThreeThreads |->
                       CASE u = t -> "run"
                         [] u # t /\ u \in released /\ e_stage[u] = "blocked" -> "notified"
                         [] OTHER -> e_stage[u]]
      /\ UNCHANGED e_timed
  BY <1>2 DEF E!NotifyAll, E!Notify, E!Range, Range, sleepers
<1>4. SubSeq(sleepers, n + 1, n) = <<>>
  BY <1>1, SubSeqEmpty
<1>5. SubSeq(sleepers, 1, n) = sleepers
  BY <1>1, SubSeqFull
<1>6. released = Range(sleepers)
  BY <1>5
<1>7. e_waiters' \in [{"cond"} -> Seq(ThreeThreads)] /\ sleepers' = <<>>
  <2>1. <<>> \in Seq(ThreeThreads)
    BY EmptySeq
  <2> QED BY <1>3, <1>4, <2>1 DEF EventIInv, EventTypeOK, sleepers
<1>8. \A u \in ThreeThreads : e_stage[u] = "blocked" => u # t /\ u \in released
  BY <1>6 DEF EventIInv, SleeperListed
<1> HIDE DEF released
<1>9. \A u \in ThreeThreads : e_stage'[u] = IF e_stage[u] = "blocked" THEN "notified" ELSE e_stage[u]
  BY <1>3, <1>8
<1> QED BY <1>3, <1>7, <1>9

\* set() keeps the invariant: whoever slept is notified, and has seen the flag set.
LEMMA SetKeeps ==
  ASSUME EventIInv, NEW t \in ThreeThreads, E!set(t)
  PROVE  EventIInv'
<1>1. t \notin waiting /\ sawSet' = waiting /\ waiting' = waiting /\ E!NotifyAll(t, "cond")
  BY DEF E!set, E!Call
<1>2. e_stage[t] = "run"
  BY <1>1 DEF EventIInv, WaitStages
<1>3. /\ e_waiters' \in [{"cond"} -> Seq(ThreeThreads)] /\ UNCHANGED e_timed
      /\ e_stage' = [u \in ThreeThreads |->
                       IF e_stage[u] = "blocked" THEN "notified" ELSE e_stage[u]]
      /\ sleepers' = <<>>
  BY <1>1, <1>2, NotifyAllEffect
<1>4. EventTypeOK'
  BY <1>1, <1>3 DEF EventIInv, EventTypeOK, E!Stages
<1>5. WaitStages'
  BY <1>1, <1>3 DEF EventIInv, WaitStages, EventTypeOK
<1>6. SleeperListed'
  <2>1. IsInjective(sleepers') /\ Range(sleepers') = {}
    BY <1>3 DEF IsInjective, Range
  <2> QED BY <1>3, <2>1 DEF SleeperListed
<1>7. NobodySleepsOn'
  BY <1>1, <1>3 DEF NobodySleepsOn, EventIInv, EventTypeOK
<1> QED BY <1>4, <1>5, <1>6, <1>7 DEF EventIInv

\* wait() keeps the invariant: the thread goes to sleep in the list.
LEMMA WaitKeeps ==
  ASSUME EventIInv, NEW t \in ThreeThreads, NEW timeout \in BOOLEAN, E!wait(t, timeout)
  PROVE  EventIInv'
<1>1. /\ t \notin waiting /\ waiting' = waiting \cup {t} /\ sawSet' = sawSet
      /\ e_waiters' = [e_waiters EXCEPT !["cond"] = Append(@, t)]
      /\ e_stage' = [e_stage EXCEPT ![t] = "blocked"]
      /\ e_timed' = [e_timed EXCEPT ![t] = timeout]
  BY DEF E!wait, E!Call, E!Wait
<1>2. sleepers \in Seq(ThreeThreads) /\ sleepers' = Append(sleepers, t) /\ t \notin Range(sleepers)
  BY <1>1 DEF EventIInv, EventTypeOK, WaitStages, SleeperListed, sleepers
<1>3. /\ sleepers' \in Seq(ThreeThreads) /\ Range(sleepers') = Range(sleepers) \cup {t}
      /\ IsInjective(sleepers')
  BY <1>2, AppendToList DEF EventIInv, SleeperListed
<1>4. EventTypeOK'
  BY <1>1, <1>3 DEF EventIInv, EventTypeOK, E!Stages, sleepers
<1>5. WaitStages'
  BY <1>1 DEF EventIInv, EventTypeOK, WaitStages
<1>6. SleeperListed'
  <2>1. \A u \in Range(sleepers) : u \in ThreeThreads
    BY <1>2, RangeOfSeq
  <2> QED BY <1>1, <1>3, <2>1 DEF EventIInv, EventTypeOK, SleeperListed
<1>7. NobodySleepsOn'
  BY <1>1 DEF NobodySleepsOn, EventIInv, EventTypeOK, WaitStages
<1> QED BY <1>4, <1>5, <1>6, <1>7 DEF EventIInv

\* wait() returning, and a timeout, keep the invariant: others stay in the list.
LEMMA WaitEndKeeps ==
  ASSUME EventIInv, NEW t \in ThreeThreads, E!WaitReturn(t) \/ E!TimeOut(t)
  PROVE  EventIInv'
<1> USE DEF EventIInv, EventTypeOK, WaitStages, SleeperListed, NobodySleepsOn, E!Stages
<1>1. CASE E!WaitReturn(t)
  <2>1. /\ t \in waiting /\ e_stage[t] \in {"notified", "expired"} /\ e_stage' = [e_stage EXCEPT ![t] = "run"]
        /\ waiting' = waiting \ {t} /\ sawSet' = sawSet \ {t} /\ UNCHANGED <<e_waiters, e_timed, sleepers>>
    BY <1>1 DEF E!WaitReturn, E!Return, E!Resumable, sleepers
  <2>2. EventTypeOK' /\ WaitStages' /\ NobodySleepsOn'
    BY <2>1
  <2>3. SleeperListed'
    BY <2>1
  <2> QED BY <2>2, <2>3
<1>2. CASE E!Expire(t) /\ UNCHANGED <<waiting, sawSet>>
  <2>1. /\ e_stage[t] = "blocked" /\ e_timed[t] /\ e_stage' = [e_stage EXCEPT ![t] = "gaveup"]
        /\ UNCHANGED <<waiting, sawSet, e_waiters, e_timed, sleepers>>
    BY <1>2 DEF E!Expire, sleepers
  <2>2. EventTypeOK' /\ WaitStages' /\ NobodySleepsOn'
    BY <2>1
  <2>3. SleeperListed'
    BY <2>1
  <2> QED BY <2>2, <2>3
<1>3. CASE E!RemoveWaiter(t, "cond") /\ UNCHANGED <<waiting, sawSet>>
  <2>1. /\ e_stage[t] = "gaveup" /\ e_stage' = [e_stage EXCEPT ![t] = "expired"]
        /\ e_waiters' = [e_waiters EXCEPT !["cond"] = E!Remove(@, t)]
        /\ UNCHANGED <<waiting, sawSet, e_timed>>
    BY <1>3 DEF E!RemoveWaiter
  <2>2. sleepers \in Seq(ThreeThreads) /\ sleepers' = E!Remove(sleepers, t)
    BY <2>1 DEF sleepers
  <2>3. /\ sleepers' \in Seq(ThreeThreads) /\ IsInjective(sleepers')
        /\ Range(sleepers') = Range(sleepers) \ {t}
    BY <2>2, RemoveTakesOne
  <2>4. EventTypeOK' /\ WaitStages' /\ NobodySleepsOn'
    BY <2>1, <2>3 DEF sleepers
  <2>5. SleeperListed'
    <3>1. \A u \in Range(sleepers) : u \in ThreeThreads
      BY <2>2, RangeOfSeq
    <3> QED BY <2>1, <2>3, <3>1
  <2> QED BY <2>4, <2>5
<1> QED BY <1>1, <1>2, <1>3 DEF E!TimeOut

\* The invariant of the event holds in every state.
THEOREM EventInvariantsHold == E!Spec => []EventIInv
<1>1. E!Init => EventIInv
  <2> SUFFICES ASSUME E!Init PROVE EventIInv
    OBVIOUS
  <2> USE DEF E!Init, E!CondInit
  <2>1. sleepers = <<>> /\ <<>> \in Seq(ThreeThreads)
    BY EmptySeq DEF sleepers
  <2>2. IsInjective(sleepers) /\ Range(sleepers) = {}
    BY <2>1 DEF IsInjective, Range
  <2> QED BY <2>1, <2>2
          DEF EventIInv, EventTypeOK, WaitStages, SleeperListed, NobodySleepsOn, E!Stages
<1>2. EventIInv /\ [E!Next]_(E!vars) => EventIInv'
  <2> SUFFICES ASSUME EventIInv, [E!Next]_(E!vars) PROVE EventIInv'
    OBVIOUS
  <2>1. ASSUME NEW t \in ThreeThreads, E!clear(t) PROVE EventIInv'
    BY <2>1 DEF E!clear, E!condVars, EventIInv, EventTypeOK, WaitStages, SleeperListed,
                NobodySleepsOn, sleepers
  <2>2. CASE UNCHANGED E!vars
    BY <2>2 DEF E!vars, E!condVars, EventIInv, EventTypeOK, WaitStages, SleeperListed,
                NobodySleepsOn, sleepers
  <2> QED BY <2>1, <2>2, SetKeeps, WaitKeeps, WaitEndKeeps DEF E!Next
<1> QED BY <1>1, <1>2, PTL DEF E!Spec

\* A wait() during which the flag was true is awake, for good: set() misses no sleeper,
\* whichever others time out beside it.
THEOREM SetReachesAll == E!Spec => []NobodySleepsOn
<1>1. EventIInv => NobodySleepsOn
  BY DEF EventIInv
<1> QED BY EventInvariantsHold, <1>1, PTL

\* A wait() without a timeout returns only if the flag was set during the call.
THEOREM WaitsAreJustified == E!Spec => E!WaitJustified
<1>1. EventIInv /\ [E!Next]_(E!vars) =>
        [\A t \in ThreeThreads : E!Returns(t) /\ ~e_timed[t] => t \in sawSet]_(E!vars)
  <2> SUFFICES ASSUME EventIInv, E!Next, NEW t \in ThreeThreads, E!Returns(t), ~e_timed[t]
               PROVE  t \in sawSet
    OBVIOUS
  <2>1. E!WaitReturn(t)
    BY DEF E!Next, E!Returns, E!set, E!clear, E!wait, E!WaitReturn, E!TimeOut
  <2> QED BY <2>1 DEF E!WaitReturn, E!Resumable, EventIInv, WaitStages
<1> QED BY EventInvariantsHold, <1>1, PTL DEF E!Spec, E!WaitJustified

-------------------------------------------------------------------------------
\* At most one thread is inside serve_forever().
OneServer == \A t, u \in ThreeThreads : t \in V!Serving /\ u \in V!Serving => t = u

\* While the loop runs its event is clear, so a shutdown() that found it will wait, and
\* nobody that waits for it has been notified yet.
LoopHidesEvent ==
  /\ V!Serving # {} => ~v_flag
  /\ beside # {} => V!Serving # {}
  /\ \A t \in beside : at[t] = "asked" \/ (at[t] = "waiting" /\ v_stage[t] = "blocked")

ServerIInv ==
  /\ at \in [ThreeThreads -> {"out", "test", "poll", "reset", "set", "asked", "waiting"}]
  /\ v_stage \in [ThreeThreads -> E!Stages]
  /\ beside \subseteq ThreeThreads
  /\ OneServer /\ LoopHidesEvent

\* A step of serve_forever() keeps the invariant.
LEMMA ServingKeeps ==
  ASSUME ServerIInv, NEW t \in ThreeThreads,
         V!Serve(t) \/ V!LoopTest(t) \/ V!LoopPoll(t) \/ V!LoopReset(t) \/ V!LoopSet(t)
  PROVE  ServerIInv'
<1> USE DEF ServerIInv, OneServer, LoopHidesEvent, V!Serving, V!Goto
<1>1. CASE V!Serve(t)
  <2>1. /\ V!Serving = {} /\ at[t] = "out" /\ at' = [at EXCEPT ![t] = "test"]
        /\ v_flag' = FALSE /\ UNCHANGED <<v_stage, beside>>
    BY <1>1 DEF V!Serve, V!clear, V!condVars
  <2>2. beside = {}
    BY <2>1
  <2> QED BY <2>1, <2>2
<1>2. CASE V!LoopTest(t) \/ V!LoopPoll(t) \/ V!LoopReset(t)
  <2>1. /\ t \in V!Serving /\ \E to \in {"test", "poll", "reset", "set"} : at' = [at EXCEPT ![t] = to]
        /\ UNCHANGED <<v_flag, v_stage, beside>>
    BY <1>2 DEF V!LoopTest, V!LoopPoll, V!LoopReset, V!vars, V!condVars
  <2> QED BY <2>1
<1>3. CASE V!LoopSet(t)
  <2>1. at[t] = "set" /\ at' = [at EXCEPT ![t] = "out"] /\ beside' = {}
    BY <1>3 DEF V!LoopSet
  <2>2. v_stage' \in [ThreeThreads -> E!Stages]
    BY <1>3 DEF V!LoopSet, V!set, V!NotifyAll, V!Notify, E!Stages
  <2>3. V!Serving' = {}
    BY <2>1
  <2> QED BY <2>1, <2>2, <2>3
<1> QED BY <1>1, <1>2, <1>3

\* A step of shutdown() keeps the invariant.
LEMMA ShutdownKeeps ==
  ASSUME ServerIInv, NEW t \in ThreeThreads,
         V!Shutdown(t) \/ V!ShutdownWait(t) \/ V!ShutdownReturn(t)
  PROVE  ServerIInv'
<1> USE DEF ServerIInv, OneServer, LoopHidesEvent, V!Serving, V!Goto
<1>1. CASE V!Shutdown(t)
  <2>1. /\ at[t] = "out" /\ at' = [at EXCEPT ![t] = "asked"] /\ UNCHANGED <<v_flag, v_stage>>
        /\ beside' = IF V!Serving # {} THEN beside \cup {t} ELSE beside
    BY <1>1 DEF V!Shutdown, V!vars, V!condVars
  <2>2. V!Serving' = V!Serving
    BY <2>1
  <2> QED BY <2>1, <2>2
<1>2. CASE V!ShutdownWait(t) /\ v_flag
  <2>1. /\ at[t] = "asked" /\ at' = [at EXCEPT ![t] = "out"] /\ UNCHANGED <<v_flag, v_stage>>
        /\ beside' = beside \ {t}
    BY <1>2 DEF V!ShutdownWait, V!vars, V!condVars
  <2>2. V!Serving' = V!Serving
    BY <2>1
  <2> QED BY <2>1, <2>2
<1>3. CASE V!ShutdownWait(t) /\ ~v_flag
  <2>1. /\ at[t] = "asked" /\ at' = [at EXCEPT ![t] = "waiting"] /\ UNCHANGED <<v_flag, beside>>
        /\ v_stage' = [v_stage EXCEPT ![t] = "blocked"]
    BY <1>3 DEF V!ShutdownWait, V!wait, V!Wait
  <2>2. V!Serving' = V!Serving
    BY <2>1
  <2> QED BY <2>1, <2>2 DEF E!Stages
<1>4. CASE V!ShutdownReturn(t)
  <2>1. /\ at[t] = "waiting" /\ at' = [at EXCEPT ![t] = "out"] /\ UNCHANGED v_flag
        /\ beside' = beside \ {t} /\ v_stage' = [v_stage EXCEPT ![t] = "run"]
    BY <1>4 DEF V!ShutdownReturn, V!WaitReturn, V!Return
  <2>2. V!Serving' = V!Serving
    BY <2>1
  <2> QED BY <2>1, <2>2 DEF E!Stages
<1> QED BY <1>1, <1>2, <1>3, <1>4

\* The invariant of the server holds in every state.
THEOREM ServerInvariantsHold == V!ServerSpec => []ServerIInv
<1>1. V!ServerInit => ServerIInv
  BY DEF V!ServerInit, V!Init, V!CondInit, ServerIInv, OneServer, LoopHidesEvent, V!Serving, E!Stages
<1>2. ServerIInv /\ [V!ServerNext]_(V!serverVars) => ServerIInv'
  <2> SUFFICES ASSUME ServerIInv, [V!ServerNext]_(V!serverVars) PROVE ServerIInv'
    OBVIOUS
  <2>1. CASE UNCHANGED V!serverVars
    BY <2>1 DEF V!serverVars, V!vars, V!condVars, ServerIInv, OneServer, LoopHidesEvent, V!Serving
  <2> QED BY <2>1, ServingKeeps, ShutdownKeeps DEF V!ServerNext, V!Proceed
<1> QED BY <1>1, <1>2, PTL DEF V!ServerSpec

\* shutdown() does not return while the loop that it found is under way, for any number of
\* threads that call it and however often loops end and begin.
THEOREM ShutdownWaitsForLoop == V!ServerSpec => V!ShutdownWaits
<1>1. ServerIInv /\ [V!ServerNext]_(V!serverVars) =>
        [\A t \in beside : at'[t] # "out"]_(V!serverVars)
  <2> SUFFICES ASSUME ServerIInv, V!ServerNext, NEW t \in beside
               PROVE  at'[t] # "out"
    OBVIOUS
  <2> USE DEF ServerIInv, LoopHidesEvent, V!Serving, V!Goto
  <2>1. PICK u \in ThreeThreads : V!Serve(u) \/ V!Shutdown(u) \/ V!Proceed(u)
    BY DEF V!ServerNext
  <2>2. CASE u # t
    <3>1. \E to : at' = [at EXCEPT ![u] = to]
      BY <2>1 DEF V!Proceed, V!Serve, V!LoopTest, V!LoopPoll, V!LoopReset, V!LoopSet, V!Shutdown,
                  V!ShutdownWait, V!ShutdownReturn
    <3> QED BY <2>2, <3>1
  <2>3. CASE u = t
    <3>1. at[t] \in {"asked", "waiting"} /\ ~v_flag /\ (at[t] = "waiting" => v_stage[t] = "blocked")
      OBVIOUS
    <3>2. V!ShutdownWait(t)
      BY <2>1, <2>3, <3>1 DEF V!Proceed, V!Serve, V!LoopTest, V!LoopPoll, V!LoopReset, V!LoopSet,
                  V!Shutdown, V!ShutdownReturn, V!WaitReturn, V!Resumable
    <3> QED BY <3>1, <3>2 DEF V!ShutdownWait
  <2> QED BY <2>2, <2>3
<1> QED BY ServerInvariantsHold, <1>1, PTL DEF V!ServerSpec, V!ShutdownWaits
===============================================================================
