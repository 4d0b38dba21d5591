---------------------------- MODULE SignalsProofs ----------------------------
(***************************************************************************)
(* Proofs about PThreadLock, PendingCalls and Signals, for any number of   *)
(* threads, signals and slots of the ring: the lock does what PyLock       *)
(* promises; the ring is the queue of calls that is promised, the flags    *)
(* that are read without the lock announce what they must, and no signal   *)
(* falls between them.                                                     *)
(***************************************************************************)
EXTENDS PThreadLock, Signals, SequenceTheorems, TLAPS

-------------------------------------------------------------------------------
(* The lock.                                                               *)

\* A release checks the lock and clears it without another release between:
\* ReleaseOfLocked alone is not inductive.
OneRelease ==
  \A t, u \in Threads :
    pc[t] \in {"enter3", "clear"} /\ pc[u] \in {"enter3", "clear"} => t = u

LockIInv == TypeOK /\ MutOwner /\ NoLostWakeup /\ ReleaseOfLocked /\ OneRelease

\* The invariant of the lock holds at first ...
LEMMA LockInitIInv == Init => LockIInv
<1> SUFFICES ASSUME Init PROVE LockIInv
  OBVIOUS
<1>1. TypeOK
  <2>1. pc \in [Threads -> Labels] /\ waitflag \in [Threads -> BOOLEAN]
    BY DEF Init, Labels
  <2>2. locked \in BOOLEAN /\ mut \in Threads \cup {NoThread}
    BY Zenon DEF Init
  <2> QED
    BY <2>1, <2>2 DEF TypeOK
<1>2. MutOwner
  BY ThreadsAssumption DEF Init, MutOwner, Inside
<1>3. NoLostWakeup /\ ReleaseOfLocked /\ OneRelease
  BY DEF Init, NoLostWakeup, ReleaseOfLocked, OneRelease
<1> QED
  BY <1>1, <1>2, <1>3 DEF LockIInv

\* ... and at every step.
LEMMA LockNextIInv == LockIInv /\ [Next]_vars => LockIInv'
<1> SUFFICES ASSUME LockIInv, [Next]_vars PROVE LockIInv'
  OBVIOUS
<1> USE DEF LockIInv
<1>u. CASE UNCHANGED vars
  BY <1>u DEF vars, TypeOK, MutOwner, NoLostWakeup, ReleaseOfLocked, OneRelease
<1>n. CASE Next
  <2> SUFFICES ASSUME NEW t \in Threads,
                      \/ \E wait \in BOOLEAN : CallAcquire(t, wait)
                      \/ CallRelease(t) \/ SpuriousWakeup(t) \/ Proceed(t)
               PROVE  LockIInv'
    BY <1>n DEF Next
  <2>1. CASE \E wait \in BOOLEAN : CallAcquire(t, wait)
    <3>1. TypeOK'
      BY <2>1 DEF CallAcquire, Goto, TypeOK, Labels, Inside
    <3>2. MutOwner'
      BY <2>1, ThreadsAssumption DEF CallAcquire, Goto, TypeOK, MutOwner, Inside
    <3>3. NoLostWakeup' /\ ReleaseOfLocked' /\ OneRelease'
      BY <2>1 DEF CallAcquire, Goto, TypeOK, MutOwner, Inside, NoLostWakeup, ReleaseOfLocked,
         OneRelease
    <3> QED
      BY <3>1, <3>2, <3>3
  <2>2. CASE CallRelease(t)
    <3>1. TypeOK'
      BY <2>2 DEF CallRelease, Goto, TypeOK, Labels, Inside
    <3>2. MutOwner'
      BY <2>2, ThreadsAssumption DEF CallRelease, Goto, TypeOK, MutOwner, Inside
    <3>3. NoLostWakeup' /\ ReleaseOfLocked' /\ OneRelease'
      BY <2>2 DEF CallRelease, Goto, TypeOK, MutOwner, Inside, NoLostWakeup, ReleaseOfLocked,
         OneRelease
    <3> QED
      BY <3>1, <3>2, <3>3
  <2>3. CASE SpuriousWakeup(t)
    <3>1. TypeOK'
      BY <2>3 DEF SpuriousWakeup, Goto, TypeOK, Labels, Inside
    <3>2. MutOwner'
      BY <2>3, ThreadsAssumption DEF SpuriousWakeup, Goto, TypeOK, MutOwner, Inside
    <3>3. NoLostWakeup' /\ ReleaseOfLocked' /\ OneRelease'
      BY <2>3 DEF SpuriousWakeup, Goto, TypeOK, MutOwner, Inside, NoLostWakeup, ReleaseOfLocked,
         OneRelease
    <3> QED
      BY <3>1, <3>2, <3>3
  <2>4. CASE AcquireEnter(t)
    <3>1. TypeOK'
      BY <2>4 DEF AcquireEnter, LockMut, Goto, TypeOK, Labels, Inside
    <3>2. MutOwner'
      BY <2>4, ThreadsAssumption DEF AcquireEnter, LockMut, Goto, TypeOK, MutOwner, Inside
    <3>3. NoLostWakeup' /\ ReleaseOfLocked' /\ OneRelease'
      BY <2>4 DEF AcquireEnter, LockMut, Goto, TypeOK, MutOwner, Inside, NoLostWakeup,
         ReleaseOfLocked, OneRelease
    <3> QED
      BY <3>1, <3>2, <3>3
  <2>5. CASE AcquireTake(t)
    <3>1. TypeOK'
      BY <2>5 DEF AcquireTake, Goto, TypeOK, Labels, Inside
    <3>2. MutOwner'
      BY <2>5, ThreadsAssumption DEF AcquireTake, Goto, TypeOK, MutOwner, Inside
    <3>3. NoLostWakeup' /\ ReleaseOfLocked' /\ OneRelease'
      BY <2>5 DEF AcquireTake, Goto, TypeOK, MutOwner, Inside, NoLostWakeup, ReleaseOfLocked,
         OneRelease
    <3> QED
      BY <3>1, <3>2, <3>3
  <2>6. CASE AcquireFail(t)
    <3>1. TypeOK'
      BY <2>6 DEF AcquireFail, Goto, TypeOK, Labels, Inside
    <3>2. MutOwner'
      BY <2>6, ThreadsAssumption DEF AcquireFail, Goto, TypeOK, MutOwner, Inside
    <3>3. NoLostWakeup' /\ ReleaseOfLocked' /\ OneRelease'
      BY <2>6 DEF AcquireFail, Goto, TypeOK, MutOwner, Inside, NoLostWakeup, ReleaseOfLocked,
         OneRelease
    <3> QED
      BY <3>1, <3>2, <3>3
  <2>7. CASE AcquireSleep(t)
    <3>1. TypeOK'
      BY <2>7 DEF AcquireSleep, UnlockMut, Goto, TypeOK, Labels, Inside
    <3>2. MutOwner'
      BY <2>7, ThreadsAssumption DEF AcquireSleep, UnlockMut, Goto, TypeOK, MutOwner, Inside
    <3>3. NoLostWakeup' /\ ReleaseOfLocked' /\ OneRelease'
      BY <2>7 DEF AcquireSleep, UnlockMut, Goto, TypeOK, MutOwner, Inside, NoLostWakeup,
         ReleaseOfLocked, OneRelease
    <3> QED
      BY <3>1, <3>2, <3>3
  <2>8. CASE AcquireReenter(t)
    <3>1. TypeOK'
      BY <2>8 DEF AcquireReenter, LockMut, Goto, TypeOK, Labels, Inside
    <3>2. MutOwner'
      BY <2>8, ThreadsAssumption DEF AcquireReenter, LockMut, Goto, TypeOK, MutOwner, Inside
    <3>3. NoLostWakeup' /\ ReleaseOfLocked' /\ OneRelease'
      BY <2>8 DEF AcquireReenter, LockMut, Goto, TypeOK, MutOwner, Inside, NoLostWakeup,
         ReleaseOfLocked, OneRelease
    <3> QED
      BY <3>1, <3>2, <3>3
  <2>9. CASE AcquireReturn(t)
    <3>1. TypeOK'
      BY <2>9 DEF AcquireReturn, UnlockMut, Goto, TypeOK, Labels, Inside
    <3>2. MutOwner'
      BY <2>9, ThreadsAssumption DEF AcquireReturn, UnlockMut, Goto, TypeOK, MutOwner, Inside
    <3>3. NoLostWakeup' /\ ReleaseOfLocked' /\ OneRelease'
      BY <2>9 DEF AcquireReturn, UnlockMut, Goto, TypeOK, MutOwner, Inside, NoLostWakeup,
         ReleaseOfLocked, OneRelease
    <3> QED
      BY <3>1, <3>2, <3>3
  <2>10. CASE ReleaseEnter(t)
    <3>1. TypeOK'
      BY <2>10 DEF ReleaseEnter, LockMut, Goto, TypeOK, Labels, Inside
    <3>2. MutOwner'
      BY <2>10, ThreadsAssumption DEF ReleaseEnter, LockMut, Goto, TypeOK, MutOwner, Inside
    <3>3. NoLostWakeup' /\ ReleaseOfLocked' /\ OneRelease'
      BY <2>10 DEF ReleaseEnter, LockMut, Goto, TypeOK, MutOwner, Inside, NoLostWakeup,
         ReleaseOfLocked, OneRelease
    <3> QED
      BY <3>1, <3>2, <3>3
  <2>11. CASE ReleaseClear(t)
    <3>1. TypeOK'
      BY <2>11 DEF ReleaseClear, Goto, TypeOK, Labels, Inside
    <3>2. MutOwner'
      BY <2>11, ThreadsAssumption DEF ReleaseClear, Goto, TypeOK, MutOwner, Inside
    <3>3. NoLostWakeup' /\ ReleaseOfLocked' /\ OneRelease'
      BY <2>11 DEF ReleaseClear, Goto, TypeOK, MutOwner, Inside, NoLostWakeup, ReleaseOfLocked,
         OneRelease
    <3> QED
      BY <3>1, <3>2, <3>3
  <2>12. CASE ReleaseLeave(t)
    <3>1. TypeOK'
      BY <2>12 DEF ReleaseLeave, UnlockMut, Goto, TypeOK, Labels, Inside
    <3>2. MutOwner'
      BY <2>12, ThreadsAssumption DEF ReleaseLeave, UnlockMut, Goto, TypeOK, MutOwner, Inside
    <3>3. NoLostWakeup' /\ ReleaseOfLocked' /\ OneRelease'
      BY <2>12 DEF ReleaseLeave, UnlockMut, Goto, TypeOK, MutOwner, Inside, NoLostWakeup,
         ReleaseOfLocked, OneRelease
    <3> QED
      BY <3>1, <3>2, <3>3
  <2>13. CASE ReleaseSignal(t)
    <3>1. TypeOK'
      BY <2>13 DEF ReleaseSignal, TypeOK, Labels, Inside
    <3>2. MutOwner'
      BY <2>13, ThreadsAssumption DEF ReleaseSignal, TypeOK, MutOwner, Inside
    <3>3. NoLostWakeup' /\ ReleaseOfLocked' /\ OneRelease'
      BY <2>13 DEF ReleaseSignal, TypeOK, MutOwner, Inside, NoLostWakeup, ReleaseOfLocked,
         OneRelease
    <3> QED
      BY <3>1, <3>2, <3>3
  <2> QED
    BY <2>1, <2>2, <2>3, <2>4, <2>5, <2>6, <2>7, <2>8, <2>9, <2>10, <2>11, <2>12, <2>13
       DEF Proceed
<1> QED
  BY <1>u, <1>n

\* The inductive invariant holds in every reachable state.
THEOREM LockInvariantsHold == Spec => []LockIInv
<1>1. Spec => Init /\ [][Next]_vars
  BY DEF Spec
<1> QED
  BY LockInitIInv, LockNextIInv, <1>1, PTL

\* The types of the lock's fields and of the program counters.
THEOREM LockTypeCorrect == Spec => []TypeOK
<1>1. LockIInv => TypeOK
  BY DEF LockIInv
<1> QED
  BY LockInvariantsHold, <1>1, PTL

\* The fields of the lock are only touched by the owner of its mutex.
THEOREM MutProtects == Spec => []MutOwner
<1>1. LockIInv => MutOwner
  BY DEF LockIInv
<1> QED
  BY LockInvariantsHold, <1>1, PTL

\* Signalling after the unlock (thread_pthread.h 450-459) loses no wake-up.
THEOREM WakeupsAreNotLost == Spec => []NoLostWakeup
<1>1. LockIInv => NoLostWakeup
  BY DEF LockIInv
<1> QED
  BY LockInvariantsHold, <1>1, PTL

\* The lock is still locked when release() clears it.
THEOREM ReleasesAreOfALockedLock == Spec => []ReleaseOfLocked
<1>1. LockIInv => ReleaseOfLocked
  BY DEF LockIInv
<1> QED
  BY LockInvariantsHold, <1>1, PTL

\* The state changes of the lock are those the thread module promises (the
\* safety part of LockSpec).
LockSafety == Lock!Init /\ [][Lock!Next]_(Lock!vars)

\* The lock implements the lock that the thread module promises: it starts free, and every
\* step of it is one of that lock or leaves the lock as it is.
THEOREM ImplementsLock == Spec => LockSafety
<1>1. Init => Lock!Init
  BY DEF Init, Lock!Init, Waiters
<1>2. LockIInv /\ [Next]_vars => [Lock!Next]_(Lock!vars)
  <2> SUFFICES ASSUME LockIInv, [Next]_vars PROVE [Lock!Next]_(Lock!vars)
    OBVIOUS
  <2> USE DEF LockIInv
  <2>u. CASE UNCHANGED vars
    BY <2>u DEF vars, Lock!vars, Waiters
  <2>n. CASE Next
    <3> SUFFICES ASSUME NEW t \in Threads,
                        \/ \E wait \in BOOLEAN : CallAcquire(t, wait)
                        \/ CallRelease(t) \/ SpuriousWakeup(t) \/ Proceed(t)
                 PROVE  [Lock!Next]_(Lock!vars)
      BY <2>n DEF Next
    <3>1. CASE \E wait \in BOOLEAN : CallAcquire(t, wait)
      BY <3>1 DEF CallAcquire, Goto, TypeOK, Waiters, Lock!vars
    <3>2. CASE CallRelease(t)
      BY <3>2 DEF CallRelease, Goto, TypeOK, Waiters, Lock!vars
    <3>3. CASE SpuriousWakeup(t)
      BY <3>3 DEF SpuriousWakeup, Goto, TypeOK, Waiters, Lock!vars
    <3>4. CASE AcquireEnter(t)
      BY <3>4 DEF AcquireEnter, Goto, TypeOK, Waiters, Lock!vars
    <3>5. CASE AcquireTake(t)
      <4>1. CASE pc[t] = "test"
        <5>1. Lock!Acquire(t)
          BY <3>5, <4>1 DEF AcquireTake, Goto, TypeOK, Waiters, Lock!Acquire
        <5> QED
          BY <5>1 DEF Lock!Next
      <4>2. CASE pc[t] = "retest"
        <5>1. Lock!Grant(t)
          BY <3>5, <4>2 DEF AcquireTake, Goto, TypeOK, Waiters, Lock!Grant
        <5> QED
          BY <5>1 DEF Lock!Next
      <4> QED
        BY <3>5, <4>1, <4>2 DEF AcquireTake, Goto
    <3>6. CASE AcquireFail(t)
      BY <3>6 DEF AcquireFail, Goto, TypeOK, Waiters, Lock!vars
    <3>7. CASE AcquireSleep(t)
      <4>1. CASE pc[t] = "test"
        <5>1. Lock!Block(t)
          BY <3>7, <4>1 DEF AcquireSleep, Goto, TypeOK, Waiters, Lock!Block
        <5> QED
          BY <5>1 DEF Lock!Next
      <4>2. CASE pc[t] = "retest"
        BY <3>7, <4>2 DEF AcquireSleep, Goto, TypeOK, Waiters, Lock!vars
      <4> QED
        BY <3>7, <4>1, <4>2 DEF AcquireSleep, Goto
    <3>8. CASE AcquireReenter(t)
      BY <3>8 DEF AcquireReenter, Goto, TypeOK, Waiters, Lock!vars
    <3>9. CASE AcquireReturn(t)
      BY <3>9 DEF AcquireReturn, Goto, TypeOK, Waiters, Lock!vars
    <3>10. CASE ReleaseEnter(t)
      BY <3>10 DEF ReleaseEnter, Goto, TypeOK, Waiters, Lock!vars
    <3>11. CASE ReleaseClear(t)
      <4>1. Lock!Release
        BY <3>11 DEF ReleaseClear, Goto, TypeOK, ReleaseOfLocked, Waiters, Lock!Release
      <4> QED
        BY <4>1 DEF Lock!Next
    <3>12. CASE ReleaseLeave(t)
      BY <3>12 DEF ReleaseLeave, Goto, TypeOK, Waiters, Lock!vars
    <3>13. CASE ReleaseSignal(t)
      BY <3>13 DEF ReleaseSignal, TypeOK, Waiters, Lock!vars
    <3> QED
      BY <3>1, <3>2, <3>3, <3>4, <3>5, <3>6, <3>7, <3>8, <3>9, <3>10, <3>11, <3>12, <3>13
         DEF Proceed
  <2> QED
    BY <2>u, <2>n
<1>3. Spec => Init /\ [][Next]_vars
  BY DEF Spec
<1> QED
  BY <1>1, <1>2, <1>3, LockInvariantsHold, PTL DEF LockSafety

-------------------------------------------------------------------------------
(* Pending calls and signals.                                              *)

\* Where a thread owns pending_lock.
Holding == {"store", "flag", "unlock"}
LockInv ==
  /\ \A c \in Callers : cpc[c] \in Holding <=> pending_lock = c
  /\ mpc \in {"take", "unlock"} <=> pending_lock = Main

\* What the main thread has taken it calls, and inside that call PyErr_CheckSignals loops.
CallInv ==
  /\ mpc \in {"lock", "take"} => i < NPENDINGCALLS
  /\ mpc \in {"unlock", "call"} => i < NPENDINGCALLS
  /\ func # None => mpc \in {"unlock", "call"}
  /\ mpc = "call" => func # None
  /\ scan # 0 => mpc = "call" /\ func = CheckSignals

\* What is on its way to the ring, or in it, is a function.
AddingInv ==
  /\ \A c \in Callers : cpc[c] \in {"try", "store"} => adding[c] \in Funcs
  /\ \A k \in DOMAIN Pending : Pending[k] \in Funcs

\* A ring that is not empty keeps the flag raised, but for the moment in which the
\* thread that stored a call holds the lock: MakeTake never clears it too early.
FlagInv == pendingfirst # pendinglast => pendingcalls_to_do \/ \E c \in Callers : cpc[c] = "flag"

RingInv == SignalTypeOK /\ LockInv /\ CallInv /\ AddingInv /\ FlagInv
IInv == RingInv /\ CheckScheduled /\ TripAnnounced

-------------------------------------------------------------------------------
\* Arithmetic of the ring.
LEMMA Modulo ==
  ASSUME SignalAssumption, NEW a \in Int
  PROVE  /\ a \in 0 .. (NPENDINGCALLS - 1) => a % NPENDINGCALLS = a
         /\ a \in NPENDINGCALLS .. (2 * NPENDINGCALLS - 1) =>
              a % NPENDINGCALLS = a - NPENDINGCALLS
         /\ -NPENDINGCALLS < a /\ a < 0 => a % NPENDINGCALLS = a + NPENDINGCALLS
  BY DEF SignalAssumption, PendingAssumption

Count(first, last) == (last - first) % NPENDINGCALLS
Slot(first, k) == (first + k - 1) % NPENDINGCALLS

\* The slot after the last one is the first one.
LEMMA AfterSlot ==
  ASSUME SignalAssumption, NEW s \in Slots
  PROVE  After(s) = (IF s = NPENDINGCALLS - 1 THEN 0 ELSE s + 1) /\ After(s) \in Slots
<1> USE DEF SignalAssumption, PendingAssumption, Slots, After
<1>1. CASE s = NPENDINGCALLS - 1
  <2>1. (s + 1) % NPENDINGCALLS = s + 1 - NPENDINGCALLS
    BY <1>1, Modulo
  <2> QED BY <1>1, <2>1
<1>2. CASE s # NPENDINGCALLS - 1
  <2>1. (s + 1) % NPENDINGCALLS = s + 1
    BY <1>2, Modulo
  <2> QED BY <1>2, <2>1
<1> QED BY <1>1, <1>2

\* The number of calls in the ring, and their slots, without the modulus.
LEMMA Counted ==
  ASSUME SignalAssumption, NEW f \in Slots, NEW l \in Slots
  PROVE  /\ Count(f, l) = IF f <= l THEN l - f ELSE l - f + NPENDINGCALLS
         /\ Count(f, l) \in 0 .. (NPENDINGCALLS - 1)
         /\ Count(f, l) = 0 <=> f = l
<1> USE DEF SignalAssumption, PendingAssumption, Slots
<1>1. CASE f <= l
  <2>1. (l - f) % NPENDINGCALLS = l - f
    BY <1>1, Modulo
  <2> QED BY <1>1, <2>1 DEF Count
<1>2. CASE l < f
  <2>1. (l - f) % NPENDINGCALLS = l - f + NPENDINGCALLS
    BY <1>2, Modulo
  <2> QED BY <1>2, <2>1 DEF Count
<1> QED BY <1>1, <1>2

\* The slot of the k-th call of the queue.
LEMMA Slotted ==
  ASSUME SignalAssumption, NEW f \in Slots, NEW k \in 1 .. NPENDINGCALLS
  PROVE  /\ Slot(f, k) = IF f + k - 1 < NPENDINGCALLS THEN f + k - 1
                                                     ELSE f + k - 1 - NPENDINGCALLS
         /\ Slot(f, k) \in Slots
<1> USE DEF SignalAssumption, PendingAssumption, Slots
<1>1. CASE f + k - 1 < NPENDINGCALLS
  <2>1. (f + k - 1) % NPENDINGCALLS = f + k - 1
    BY <1>1, Modulo
  <2> QED BY <1>1, <2>1 DEF Slot
<1>2. CASE f + k - 1 >= NPENDINGCALLS
  <2>1. (f + k - 1) % NPENDINGCALLS = f + k - 1 - NPENDINGCALLS
    BY <1>2, Modulo
  <2> QED BY <1>2, <2>1 DEF Slot
<1> QED BY <1>1, <1>2

\* The queue in the ring as a sequence.
LEMMA PendingIsSeq ==
  ASSUME SignalAssumption, PendingTypeOK
  PROVE  /\ Pending \in Seq(Funcs \cup {None})
         /\ Len(Pending) = Count(pendingfirst, pendinglast)
         /\ \A k \in 1 .. Count(pendingfirst, pendinglast) :
              Pending[k] = pendingcalls[Slot(pendingfirst, k)]
         /\ Pending = <<>> <=> pendingfirst = pendinglast
<1> DEFINE n == Count(pendingfirst, pendinglast)
<1>1. n \in 0 .. (NPENDINGCALLS - 1) /\ (n = 0 <=> pendingfirst = pendinglast)
  BY Counted DEF PendingTypeOK
<1>2. NPENDINGCALLS \in Nat
  BY DEF SignalAssumption, PendingAssumption
<1>3. \A k \in 1 .. n : pendingcalls[Slot(pendingfirst, k)] \in Funcs \cup {None}
  <2> SUFFICES ASSUME NEW k \in 1 .. n PROVE pendingcalls[Slot(pendingfirst, k)] \in Funcs \cup {None}
    OBVIOUS
  <2>1. k \in 1 .. NPENDINGCALLS
    BY <1>1, <1>2
  <2> QED BY <2>1, Slotted DEF PendingTypeOK
<1>4. Pending = [k \in 1 .. n |-> pendingcalls[Slot(pendingfirst, k)]]
  BY DEF Pending, Count, Slot
<1> HIDE DEF n
<1>5. Pending \in [1 .. n -> Funcs \cup {None}]
  BY <1>3, <1>4
<1>6. Pending \in Seq(Funcs \cup {None}) /\ Len(Pending) = n
  BY <1>1, <1>2, <1>5
<1>7. Pending = <<>> <=> n = 0
  BY <1>6, EmptySeq
<1> QED BY <1>1, <1>4, <1>6, <1>7 DEF n

\* Store puts a call at the end of the queue, or leaves a full ring alone.
LEMMA StoreAppends ==
  ASSUME SignalAssumption, PendingTypeOK, NEW f \in Funcs, Store(f)
  PROVE  /\ pendingcalls' \in [Slots -> Funcs \cup {None}]
         /\ pendingfirst' \in Slots /\ pendinglast' \in Slots
         /\ RingFull => Pending' = Pending
         /\ ~RingFull => Pending' = Append(Pending, f) /\ Len(Pending) < NPENDINGCALLS - 1
<1> USE DEF SignalAssumption, PendingAssumption
<1>1. CASE RingFull
  BY <1>1 DEF Store, ring, PendingTypeOK, Pending
<1>2. CASE ~RingFull
  <2> DEFINE n == Count(pendingfirst, pendinglast)
  <2>1. /\ pendingcalls' = [pendingcalls EXCEPT ![pendinglast] = f]
        /\ pendinglast' = After(pendinglast) /\ pendingfirst' = pendingfirst
    BY <1>2 DEF Store
  <2>2. /\ pendingcalls' \in [Slots -> Funcs \cup {None}]
        /\ pendingfirst' \in Slots /\ pendinglast' \in Slots
    BY <2>1, AfterSlot DEF PendingTypeOK
  <2>3. /\ pendingfirst \in 0 .. (NPENDINGCALLS - 1) /\ pendinglast \in 0 .. (NPENDINGCALLS - 1)
        /\ After(pendinglast) # pendingfirst
    BY <1>2 DEF RingFull, PendingTypeOK, Slots
  <2>4. n < NPENDINGCALLS - 1 /\ Count(pendingfirst', pendinglast') = n + 1 /\ n \in Nat
    <3>1. Count(pendingfirst, pendinglast) =
            IF pendingfirst <= pendinglast THEN pendinglast - pendingfirst
            ELSE pendinglast - pendingfirst + NPENDINGCALLS
      BY Counted, <2>3 DEF Slots
    <3>2. Count(pendingfirst', pendinglast') =
            IF pendingfirst <= pendinglast' THEN pendinglast' - pendingfirst
            ELSE pendinglast' - pendingfirst + NPENDINGCALLS
      BY Counted, <2>1, <2>2
    <3>3. pendinglast' = IF pendinglast = NPENDINGCALLS - 1 THEN 0 ELSE pendinglast + 1
      BY AfterSlot, <2>1, <2>3 DEF Slots
    <3> QED BY <3>1, <3>2, <3>3, <2>1, <2>3
  <2>5. \A k \in 1 .. n : Slot(pendingfirst, k) # pendinglast
    <3> SUFFICES ASSUME NEW k \in 1 .. n PROVE Slot(pendingfirst, k) # pendinglast
      OBVIOUS
    <3>1. k \in 1 .. NPENDINGCALLS
      BY <2>4
    <3>2. Slot(pendingfirst, k) = IF pendingfirst + k - 1 < NPENDINGCALLS THEN pendingfirst + k - 1
                                  ELSE pendingfirst + k - 1 - NPENDINGCALLS
      BY Slotted, <2>3, <3>1 DEF Slots
    <3>3. n = IF pendingfirst <= pendinglast THEN pendinglast - pendingfirst
              ELSE pendinglast - pendingfirst + NPENDINGCALLS
      BY Counted, <2>3 DEF Slots
    <3> QED BY <2>3, <3>2, <3>3
  <2>6. Slot(pendingfirst, n + 1) = pendinglast
    <3>1. n + 1 \in 1 .. NPENDINGCALLS
      BY <2>4
    <3>2. Slot(pendingfirst, n + 1) =
            IF pendingfirst + (n + 1) - 1 < NPENDINGCALLS THEN pendingfirst + (n + 1) - 1
            ELSE pendingfirst + (n + 1) - 1 - NPENDINGCALLS
      BY Slotted, <2>3, <3>1 DEF Slots
    <3>3. n = IF pendingfirst <= pendinglast THEN pendinglast - pendingfirst
              ELSE pendinglast - pendingfirst + NPENDINGCALLS
      BY Counted, <2>3 DEF Slots
    <3> QED BY <2>3, <3>2, <3>3
  <2>7. /\ Pending \in Seq(Funcs \cup {None}) /\ Len(Pending) = n
        /\ \A k \in 1 .. n : Pending[k] = pendingcalls[Slot(pendingfirst, k)]
    BY PendingIsSeq
  <2>8. Pending' = [k \in 1 .. (n + 1) |-> pendingcalls'[Slot(pendingfirst, k)]]
    BY <2>1, <2>4 DEF Pending, Count, Slot
  <2>9. \A k \in 1 .. (n + 1) : Slot(pendingfirst, k) \in Slots
    <3> SUFFICES ASSUME NEW k \in 1 .. (n + 1) PROVE Slot(pendingfirst, k) \in Slots
      OBVIOUS
    <3>1. k \in 1 .. NPENDINGCALLS
      BY <2>4
    <3> QED BY <3>1, Slotted, <2>3 DEF Slots
  <2> HIDE DEF n
  <2>10. \A k \in 1 .. n : pendingcalls'[Slot(pendingfirst, k)] = Pending[k]
    <3> SUFFICES ASSUME NEW k \in 1 .. n
                 PROVE pendingcalls'[Slot(pendingfirst, k)] = Pending[k]
      OBVIOUS
    <3>1. Slot(pendingfirst, k) # pendinglast /\ Slot(pendingfirst, k) \in Slots
      BY <2>4, <2>5, <2>9
    <3> QED BY <2>1, <2>7, <3>1 DEF PendingTypeOK
  <2>11. pendingcalls'[Slot(pendingfirst, n + 1)] = f
    BY <2>1, <2>3, <2>6 DEF PendingTypeOK, Slots
  <2>12. Pending' \in [1 .. (n + 1) -> Funcs \cup {None}]
    BY <2>2, <2>8, <2>9
  <2>13. Pending' \in Seq(Funcs \cup {None}) /\ Len(Pending') = n + 1
    BY <2>4, <2>12
  <2>14. \A k \in 1 .. (n + 1) : Pending'[k] = IF k = n + 1 THEN f ELSE Pending[k]
    BY <2>4, <2>8, <2>10, <2>11
  <2>15. /\ Append(Pending, f) \in Seq(Funcs \cup {None})
         /\ Len(Append(Pending, f)) = n + 1
         /\ \A k \in 1 .. n : Append(Pending, f)[k] = Pending[k]
         /\ Append(Pending, f)[n + 1] = f
    BY <2>7, AppendProperties
  <2>16. \A k \in 1 .. Len(Pending') : Pending'[k] = Append(Pending, f)[k]
    BY <2>4, <2>13, <2>14, <2>15
  <2>17. Pending' = Append(Pending, f)
    BY <2>13, <2>15, <2>16, SeqEqual
  <2> QED BY <1>2, <2>2, <2>4, <2>7, <2>17
<1> QED BY <1>1, <1>2

\* MakeTake takes the first call of the queue.
LEMMA TakeRemoves ==
  ASSUME SignalAssumption, PendingTypeOK, pendingfirst # pendinglast,
         pendingfirst' = After(pendingfirst), UNCHANGED <<pendingcalls, pendinglast>>
  PROVE  /\ pendingfirst' \in Slots
         /\ Pending # <<>> /\ Head(Pending) = pendingcalls[pendingfirst]
         /\ Pending' = Tail(Pending)
<1> USE DEF SignalAssumption, PendingAssumption
<1> DEFINE n == Count(pendingfirst, pendinglast)
<1>1. pendingfirst \in 0 .. (NPENDINGCALLS - 1) /\ pendinglast \in 0 .. (NPENDINGCALLS - 1)
  BY DEF PendingTypeOK, Slots
<1>2. /\ pendingfirst' = (IF pendingfirst = NPENDINGCALLS - 1 THEN 0 ELSE pendingfirst + 1)
      /\ pendingfirst' \in Slots
  BY <1>1, AfterSlot DEF Slots
<1>3. n \in 1 .. (NPENDINGCALLS - 1) /\ Count(pendingfirst', pendinglast') = n - 1
  <2>1. n = IF pendingfirst <= pendinglast THEN pendinglast - pendingfirst
            ELSE pendinglast - pendingfirst + NPENDINGCALLS
    BY Counted, <1>1 DEF Slots
  <2>2. Count(pendingfirst', pendinglast') =
          IF pendingfirst' <= pendinglast THEN pendinglast - pendingfirst'
          ELSE pendinglast - pendingfirst' + NPENDINGCALLS
    BY Counted, <1>1, <1>2 DEF Slots
  <2> QED BY <1>1, <1>2, <2>1, <2>2
<1>4. /\ Pending \in Seq(Funcs \cup {None}) /\ Len(Pending) = n /\ Pending # <<>>
      /\ \A k \in 1 .. n : Pending[k] = pendingcalls[Slot(pendingfirst, k)]
  BY PendingIsSeq
<1>5. Slot(pendingfirst, 1) = pendingfirst
  <2>1. 1 \in 1 .. NPENDINGCALLS
    OBVIOUS
  <2>2. Slot(pendingfirst, 1) = IF pendingfirst + 1 - 1 < NPENDINGCALLS THEN pendingfirst + 1 - 1
                                ELSE pendingfirst + 1 - 1 - NPENDINGCALLS
    BY <1>1, <2>1, Slotted DEF Slots
  <2> QED BY <1>1, <2>2
<1>6. \A k \in 1 .. (n - 1) : /\ Slot(pendingfirst', k) = Slot(pendingfirst, k + 1)
                              /\ Slot(pendingfirst, k + 1) \in Slots
  <2> SUFFICES ASSUME NEW k \in 1 .. (n - 1)
               PROVE  /\ Slot(pendingfirst', k) = Slot(pendingfirst, k + 1)
                      /\ Slot(pendingfirst, k + 1) \in Slots
    OBVIOUS
  <2>1. k \in 1 .. NPENDINGCALLS /\ k + 1 \in 1 .. NPENDINGCALLS
    BY <1>3
  <2>2. /\ Slot(pendingfirst, k + 1) =
             IF pendingfirst + (k + 1) - 1 < NPENDINGCALLS THEN pendingfirst + (k + 1) - 1
             ELSE pendingfirst + (k + 1) - 1 - NPENDINGCALLS
        /\ Slot(pendingfirst, k + 1) \in Slots
    BY <1>1, <2>1, Slotted DEF Slots
  <2>3. Slot(pendingfirst', k) =
          IF pendingfirst' + k - 1 < NPENDINGCALLS THEN pendingfirst' + k - 1
          ELSE pendingfirst' + k - 1 - NPENDINGCALLS
    BY <1>2, <2>1, Slotted
  <2> QED BY <1>1, <1>2, <1>3, <2>2, <2>3
<1>7. Pending' = [k \in 1 .. (n - 1) |-> pendingcalls[Slot(pendingfirst', k)]]
  BY <1>3 DEF Pending, Count, Slot
<1> HIDE DEF n
<1>8. Pending' = [k \in 1 .. (n - 1) |-> Pending[k + 1]]
  <2>1. \A k \in 1 .. (n - 1) : pendingcalls[Slot(pendingfirst', k)] = Pending[k + 1]
    BY <1>3, <1>4, <1>6
  <2> QED BY <1>7, <2>1
<1>9. /\ Tail(Pending) \in Seq(Funcs \cup {None}) /\ Len(Tail(Pending)) = n - 1
      /\ \A k \in 1 .. (n - 1) : Tail(Pending)[k] = Pending[k + 1]
  BY <1>4, HeadTailProperties
<1>10. Pending' \in [1 .. (n - 1) -> Funcs \cup {None}]
  BY <1>3, <1>4, <1>8
<1>11. Pending' \in Seq(Funcs \cup {None}) /\ Len(Pending') = n - 1
  BY <1>3, <1>10
<1>12. Pending' = Tail(Pending)
  BY <1>8, <1>9, <1>11, SeqEqual
<1>13. Head(Pending) = pendingcalls[pendingfirst]
  BY <1>3, <1>4, <1>5
<1> QED BY <1>2, <1>4, <1>12, <1>13

\* The queue is a function of the ring alone.
LEMMA PendingKept == UNCHANGED ring => Pending' = Pending
  BY DEF Pending, ring

\* What a call that is stored or refused means for AddingInv, and for CheckScheduled.
LEMMA StoreKeeps ==
  ASSUME SignalAssumption, RingInv, NEW f \in Funcs, Store(f)
  PROVE  /\ \A k \in DOMAIN Pending' : Pending'[k] \in Funcs
         /\ \A g \in Funcs : (\E k \in DOMAIN Pending : Pending[k] = g) =>
              \E k \in DOMAIN Pending' : Pending'[k] = g
         /\ ~RingFull => \E k \in DOMAIN Pending' : Pending'[k] = f
<1>1. CASE RingFull
  BY <1>1, StoreAppends DEF RingInv, SignalTypeOK, AddingInv
<1>2. CASE ~RingFull
  <2>1. Pending' = Append(Pending, f)
    BY <1>2, StoreAppends DEF RingInv, SignalTypeOK
  <2>2. Pending \in Seq(Funcs \cup {None})
    BY PendingIsSeq DEF RingInv, SignalTypeOK
  <2>3. \A k \in 1 .. Len(Pending) : Pending[k] \in Funcs
    BY <2>2 DEF RingInv, AddingInv
  <2>4. /\ Len(Pending') = Len(Pending) + 1 /\ DOMAIN Pending' = 1 .. (Len(Pending) + 1)
        /\ Len(Pending) \in Nat /\ DOMAIN Pending = 1 .. Len(Pending)
        /\ \A k \in 1 .. Len(Pending) : Pending'[k] = Pending[k]
        /\ Pending'[Len(Pending) + 1] = f
    BY <2>1, <2>2, AppendProperties, LenProperties
  <2> QED BY <2>3, <2>4
<1> QED BY <1>1, <1>2

\* What the call that is taken means for AddingInv, and for CheckScheduled.
LEMMA TakeKeeps ==
  ASSUME SignalAssumption, RingInv, pendingfirst # pendinglast,
         pendingfirst' = After(pendingfirst), UNCHANGED <<pendingcalls, pendinglast>>
  PROVE  /\ pendingcalls[pendingfirst] \in Funcs
         /\ \A k \in DOMAIN Pending' : Pending'[k] \in Funcs
         /\ \A g \in Funcs : (\E k \in DOMAIN Pending : Pending[k] = g) =>
              g = pendingcalls[pendingfirst] \/ \E k \in DOMAIN Pending' : Pending'[k] = g
<1>1. /\ Pending # <<>> /\ Head(Pending) = pendingcalls[pendingfirst]
      /\ Pending' = Tail(Pending)
  BY TakeRemoves DEF RingInv, SignalTypeOK
<1>2. Pending \in Seq(Funcs \cup {None})
  BY PendingIsSeq DEF RingInv, SignalTypeOK
<1>3. /\ Len(Pending) \in Nat \ {0} /\ DOMAIN Pending = 1 .. Len(Pending)
      /\ DOMAIN Pending' = 1 .. (Len(Pending) - 1)
      /\ \A k \in 1 .. (Len(Pending) - 1) : Pending'[k] = Pending[k + 1]
      /\ Head(Pending) = Pending[1]
  BY <1>1, <1>2, HeadTailProperties, LenProperties, EmptySeq
<1>4. \A k \in 1 .. Len(Pending) : Pending[k] \in Funcs
  BY <1>3 DEF RingInv, AddingInv
<1>5. \A k \in 2 .. Len(Pending) : k - 1 \in 1 .. (Len(Pending) - 1) /\ Pending'[k - 1] = Pending[k]
  BY <1>3
<1>6. pendingcalls[pendingfirst] \in Funcs
  BY <1>1, <1>3, <1>4
<1>7. \A k \in DOMAIN Pending' : Pending'[k] \in Funcs
  BY <1>3, <1>4
<1>8. \A k \in 1 .. Len(Pending) : k = 1 \/ k \in 2 .. Len(Pending)
  BY <1>3
<1> QED BY ZenonT(60), <1>1, <1>3, <1>5, <1>6, <1>7, <1>8

-------------------------------------------------------------------------------
\* The invariant holds at the start.
LEMMA InitHolds == SignalAssumption /\ SignalInit => IInv
<1> SUFFICES ASSUME SignalAssumption, SignalInit PROVE IInv
  OBVIOUS
<1> USE DEF SignalAssumption, PendingAssumption, SignalInit, PendingInit
<1>1. SignalTypeOK
  <2>1. 0 \in Slots /\ MaxSignals \in Nat
    BY DEF Slots
  <2>2. PendingTypeOK
    BY <2>1 DEF PendingTypeOK
  <2>3. /\ tripped \in [Sigs -> BOOLEAN] /\ is_tripped \in BOOLEAN
        /\ tpc \in [Callers -> {"out", "test", "set", "add"}]
    OBVIOUS
  <2>4. scan \in 0 .. NSIG /\ signals \in 0 .. MaxSignals
    BY <2>1
  <2> QED BY <2>2, <2>3, <2>4 DEF SignalTypeOK
<1>2. Pending = <<>> /\ DOMAIN Pending = {}
  <2>1. Pending = <<>>
    BY <1>1, PendingIsSeq DEF SignalTypeOK
  <2> QED BY <2>1
<1>3. LockInv /\ CallInv /\ AddingInv /\ FlagInv
  BY <1>2 DEF LockInv, Holding, CallInv, AddingInv, FlagInv
<1>4. CheckScheduled /\ TripAnnounced
  BY DEF CheckScheduled, TripAnnounced
<1> QED BY <1>1, <1>3, <1>4 DEF IInv, RingInv

\* A step of a thread that adds a call keeps the invariant.
LEMMA AdderKeeps ==
  ASSUME SignalAssumption, IInv, NEW c \in Callers, AddStep(c)
  PROVE  IInv'
<1> USE DEF SignalAssumption, PendingAssumption, CallerGoto, main, ring
<1>1. UNCHANGED <<tripped, is_tripped, tpc, scan, signals, raised, adding, adds, mpc, i, func>>
  BY DEF AddStep, Add, AddLock, AddGiveUp, AddStore, AddFlag, AddUnlock
<1>2. refused' \in BOOLEAN /\ (refused => refused')
  <2>1. refused \in BOOLEAN
    BY DEF IInv, RingInv, SignalTypeOK
  <2> QED BY <2>1 DEF AddStep
<1>3. TripAnnounced'
  BY <1>1 DEF IInv, TripAnnounced
<1>4. CASE AddLock(c)
  <2> USE <1>1, <1>2, <1>4 DEF AddLock
  <2>1. SignalTypeOK'
    BY DEF IInv, RingInv, SignalTypeOK, PendingTypeOK
  <2>2. LockInv'
    BY DEF IInv, RingInv, SignalTypeOK, PendingTypeOK, LockInv, Holding
  <2>3. CallInv' /\ AddingInv' /\ FlagInv'
    BY PendingKept DEF IInv, RingInv, SignalTypeOK, PendingTypeOK, CallInv, AddingInv, FlagInv
  <2>4. CheckScheduled'
    BY PendingKept DEF IInv, RingInv, SignalTypeOK, PendingTypeOK, CheckScheduled, Scheduled
  <2> QED BY <1>3, <2>1, <2>2, <2>3, <2>4 DEF IInv, RingInv
<1>5. CASE AddGiveUp(c)
  <2> USE <1>1, <1>2, <1>5 DEF AddGiveUp
  <2>1. SignalTypeOK'
    BY DEF IInv, RingInv, SignalTypeOK, PendingTypeOK
  <2>2. LockInv'
    BY DEF IInv, RingInv, SignalTypeOK, PendingTypeOK, LockInv, Holding
  <2>3. CallInv' /\ AddingInv' /\ FlagInv'
    BY PendingKept DEF IInv, RingInv, SignalTypeOK, PendingTypeOK, CallInv, AddingInv, FlagInv
  <2>4. CheckScheduled'
    <3>1. adding[c] = CheckSignals => refused'
      BY DEF AddStep, IInv, RingInv, SignalTypeOK, PendingTypeOK
    <3> QED BY <3>1, PendingKept DEF IInv, RingInv, SignalTypeOK, PendingTypeOK,
                                     CheckScheduled, Scheduled
  <2> QED BY <1>3, <2>1, <2>2, <2>3, <2>4 DEF IInv, RingInv
<1>6. CASE AddStore(c)
  <2> USE <1>1, <1>2, <1>6 DEF AddStore
  <2>1. adding[c] \in Funcs /\ Store(adding[c])
    BY DEF IInv, RingInv, AddingInv
  <2>2. SignalTypeOK'
    <3>1. pendingcalls' \in [Slots -> Funcs \cup {None}] /\ pendingfirst' \in Slots /\ pendinglast' \in Slots
      BY <2>1, StoreAppends DEF IInv, RingInv, SignalTypeOK
    <3> QED BY <3>1 DEF IInv, RingInv, SignalTypeOK, PendingTypeOK
  <2>3. LockInv'
    BY DEF IInv, RingInv, SignalTypeOK, PendingTypeOK, LockInv, Holding
  <2>4. CallInv' /\ FlagInv'
    BY DEF IInv, RingInv, SignalTypeOK, PendingTypeOK, CallInv, FlagInv
  <2>5. AddingInv'
    <3>1. \A k \in DOMAIN Pending' : Pending'[k] \in Funcs
      BY <2>1, StoreKeeps DEF IInv
    <3> QED BY <3>1 DEF IInv, RingInv, SignalTypeOK, PendingTypeOK, AddingInv
  <2>6. CheckScheduled'
    <3>1. /\ (\E k \in DOMAIN Pending : Pending[k] = CheckSignals) =>
               \E k \in DOMAIN Pending' : Pending'[k] = CheckSignals
          /\ ~RingFull => \E k \in DOMAIN Pending' : Pending'[k] = adding[c]
      BY <2>1, StoreKeeps DEF IInv
    <3>2. RingFull /\ adding[c] = CheckSignals => refused'
      BY DEF AddStep
    <3> QED BY <3>1, <3>2 DEF IInv, RingInv, SignalTypeOK, PendingTypeOK, CheckScheduled, Scheduled
  <2> QED BY <1>3, <2>2, <2>3, <2>4, <2>5, <2>6 DEF IInv, RingInv
<1>7. CASE AddFlag(c)
  <2> USE <1>1, <1>2, <1>7 DEF AddFlag
  <2>1. SignalTypeOK'
    BY DEF IInv, RingInv, SignalTypeOK, PendingTypeOK
  <2>2. LockInv'
    BY DEF IInv, RingInv, SignalTypeOK, PendingTypeOK, LockInv, Holding
  <2>3. CallInv' /\ AddingInv' /\ FlagInv'
    BY PendingKept DEF IInv, RingInv, SignalTypeOK, PendingTypeOK, CallInv, AddingInv, FlagInv
  <2>4. CheckScheduled'
    BY PendingKept DEF IInv, RingInv, SignalTypeOK, PendingTypeOK, CheckScheduled, Scheduled
  <2> QED BY <1>3, <2>1, <2>2, <2>3, <2>4 DEF IInv, RingInv
<1>8. CASE AddUnlock(c)
  <2> USE <1>1, <1>2, <1>8 DEF AddUnlock
  <2>1. SignalTypeOK'
    BY DEF IInv, RingInv, SignalTypeOK, PendingTypeOK
  <2>2. LockInv'
    BY DEF IInv, RingInv, SignalTypeOK, PendingTypeOK, LockInv, Holding
  <2>3. CallInv' /\ AddingInv' /\ FlagInv'
    BY PendingKept DEF IInv, RingInv, SignalTypeOK, PendingTypeOK, CallInv, AddingInv, FlagInv
  <2>4. CheckScheduled'
    BY PendingKept DEF IInv, RingInv, SignalTypeOK, PendingTypeOK, CheckScheduled, Scheduled
  <2> QED BY <1>3, <2>1, <2>2, <2>3, <2>4 DEF IInv, RingInv
<1> QED BY <1>4, <1>5, <1>6, <1>7, <1>8 DEF AddStep, Add

\* A call that is begun: by a signal handler, or by another thread.
LEMMA CallBegins ==
  ASSUME SignalAssumption, RingInv, CheckScheduled,
         NEW c \in Callers, NEW f \in Funcs, AddCall(c, f),
         UNCHANGED <<tripped, is_tripped, scan, signals, refused, raised>>,
         tpc' = tpc \/ (f = CheckSignals /\ TripGoto(c, "add", "out"))
  PROVE  RingInv' /\ CheckScheduled'
<1> USE DEF SignalAssumption, PendingAssumption, CallerGoto, TripGoto, main, ring, AddCall, history
<1>1. SignalTypeOK'
  BY DEF RingInv, SignalTypeOK, PendingTypeOK
<1>2. LockInv'
  BY DEF RingInv, SignalTypeOK, PendingTypeOK, LockInv, Holding
<1>3. CallInv' /\ AddingInv' /\ FlagInv'
  BY PendingKept DEF RingInv, SignalTypeOK, PendingTypeOK, CallInv, AddingInv, FlagInv
<1>4. CheckScheduled'
  BY PendingKept DEF RingInv, SignalTypeOK, PendingTypeOK, CheckScheduled, Scheduled
<1> QED BY <1>1, <1>2, <1>3, <1>4 DEF RingInv

\* A step of trip_signal on another thread, or the call that another thread adds,
\* keeps the invariant.
LEMMA TripKeeps ==
  ASSUME SignalAssumption, IInv, NEW c \in Callers,
         OtherAdd(c) \/ TripStep(c) \/ \E s \in Sigs : Trip(c, s)
  PROVE  IInv'
<1> USE DEF SignalAssumption, PendingAssumption, TripGoto
<1>1. CASE OtherAdd(c)
  <2>1. PICK f \in Funcs : AddCall(c, f) /\ UNCHANGED sigVars
    BY <1>1 DEF OtherAdd
  <2>2. UNCHANGED <<tripped, is_tripped, scan, signals, refused, raised>> /\ tpc' = tpc
    BY <2>1 DEF sigVars, history
  <2>3. RingInv' /\ CheckScheduled'
    BY <2>1, <2>2, CallBegins DEF IInv
  <2>4. TripAnnounced'
    BY <2>1 DEF sigVars, history, IInv, TripAnnounced
  <2> QED BY <2>3, <2>4 DEF IInv
<1>2. CASE TripAdd(c)
  <2>1. RingInv' /\ CheckScheduled'
    BY <1>2, CallBegins DEF TripAdd, IInv, history
  <2>2. TripAnnounced'
    BY <1>2 DEF TripAdd, history, IInv, RingInv, SignalTypeOK, TripAnnounced
  <2> QED BY <2>1, <2>2 DEF IInv
<1>3. CASE TripTest(c) \/ TripSet(c) \/ \E s \in Sigs : Trip(c, s)
  <2>1. UNCHANGED pendingVars /\ UNCHANGED <<scan, history>>
    BY <1>3 DEF TripTest, TripSet, Trip, Delivered
  <2> USE <2>1 DEF pendingVars, ring, callers, main, history
  <2>2. SignalTypeOK'
    <3>1. PendingTypeOK'
      BY DEF IInv, RingInv, SignalTypeOK, PendingTypeOK
    <3>2. CASE TripTest(c) \/ TripSet(c)
      BY <3>1, <3>2 DEF TripTest, TripSet, IInv, RingInv, SignalTypeOK
    <3>3. CASE \E s \in Sigs : Trip(c, s)
      BY <3>1, <3>3 DEF Trip, Delivered, IInv, RingInv, SignalTypeOK
    <3> QED BY <1>3, <3>2, <3>3
  <2>3. LockInv' /\ CallInv' /\ AddingInv' /\ FlagInv'
    BY PendingKept DEF IInv, RingInv, LockInv, CallInv, AddingInv, FlagInv
  <2>4. CheckScheduled'
    BY <1>3, PendingKept DEF TripTest, TripSet, Trip, Delivered, IInv, RingInv, SignalTypeOK,
                             CheckScheduled, Scheduled
  <2>5. TripAnnounced'
    BY <1>3 DEF TripTest, TripSet, Trip, Delivered, IInv, RingInv, SignalTypeOK, TripAnnounced
  <2> QED BY <2>2, <2>3, <2>4, <2>5 DEF IInv, RingInv
<1> QED BY <1>1, <1>2, <1>3 DEF TripStep

\* A signal that interrupts the main thread keeps the invariant.
LEMMA InterruptKeeps ==
  ASSUME SignalAssumption, IInv, NEW s \in Sigs, TripOnMain(s)
  PROVE  IInv'
<1> USE DEF SignalAssumption, PendingAssumption, TripOnMain, Delivered
<1>1. /\ UNCHANGED <<pending_lock, adding, cpc, adds, mpc, i, func, tpc, scan, raised>>
      /\ is_tripped'
      /\ CheckSignals \in Funcs
  BY DEF callers, main
<1>2. TripAnnounced'
  BY <1>1 DEF TripAnnounced
<1>3. CASE ~is_tripped /\ pending_lock = None
  <2>1. Store(CheckSignals) /\ pendingcalls_to_do' = TRUE /\ refused' = (refused \/ RingFull)
    BY <1>3
  <2>2. SignalTypeOK'
    <3>1. pendingcalls' \in [Slots -> Funcs \cup {None}] /\ pendingfirst' \in Slots /\ pendinglast' \in Slots
      BY <1>1, <2>1, StoreAppends DEF IInv, RingInv, SignalTypeOK
    <3>2. refused' \in BOOLEAN
      BY <2>1 DEF IInv, RingInv, SignalTypeOK, RingFull
    <3> QED BY <1>1, <2>1, <3>1, <3>2 DEF IInv, RingInv, SignalTypeOK, PendingTypeOK
  <2>3. LockInv' /\ CallInv' /\ FlagInv'
    BY <1>1, <2>1 DEF IInv, RingInv, LockInv, CallInv, FlagInv
  <2>4. AddingInv'
    <3>1. \A k \in DOMAIN Pending' : Pending'[k] \in Funcs
      BY <1>1, <2>1, StoreKeeps DEF IInv
    <3> QED BY <1>1, <3>1 DEF IInv, RingInv, AddingInv
  <2>5. CheckScheduled'
    <3>1. ~RingFull => \E k \in DOMAIN Pending' : Pending'[k] = CheckSignals
      BY <1>1, <2>1, StoreKeeps DEF IInv
    <3> QED BY <2>1, <3>1 DEF CheckScheduled, Scheduled
  <2> QED BY <1>2, <2>2, <2>3, <2>4, <2>5 DEF IInv, RingInv
<1>4. CASE is_tripped \/ pending_lock # None
  <2>1. UNCHANGED <<ring, pendingcalls_to_do>> /\ refused' \in BOOLEAN
        /\ (is_tripped => refused' = refused) /\ (~is_tripped => refused')
    BY <1>4 DEF IInv, RingInv, SignalTypeOK
  <2>2. SignalTypeOK'
    BY <1>1, <2>1 DEF ring, IInv, RingInv, SignalTypeOK, PendingTypeOK
  <2>3. LockInv' /\ CallInv' /\ FlagInv' /\ AddingInv'
    BY <1>1, <2>1, PendingKept DEF ring, IInv, RingInv, LockInv, CallInv, FlagInv, AddingInv
  <2>4. CheckScheduled'
    BY <1>1, <2>1, PendingKept DEF IInv, CheckScheduled, Scheduled
  <2> QED BY <1>2, <2>2, <2>3, <2>4 DEF IInv, RingInv
<1> QED BY <1>3, <1>4

\* A step of Py_MakePendingCalls before the call keeps the invariant.
LEMMA MakerKeeps ==
  ASSUME SignalAssumption, IInv, Make, UNCHANGED sigVars
  PROVE  IInv'
<1> USE DEF SignalAssumption, PendingAssumption, callers, sigVars, history
<1>1. TripAnnounced'
  BY DEF IInv, TripAnnounced
<1>2. CASE MakeStart \/ MakeLock \/ MakeUnlock
  <2>1. UNCHANGED <<ring, pendingcalls_to_do, adding, cpc, adds, func>>
    BY <1>2 DEF MakeStart, MakeLock, MakeUnlock
  <2>2. SignalTypeOK'
    BY <1>2, <2>1 DEF MakeStart, MakeLock, MakeUnlock, ring, IInv, RingInv, SignalTypeOK, PendingTypeOK
  <2>3. LockInv'
    BY <1>2, <2>1 DEF MakeStart, MakeLock, MakeUnlock, IInv, RingInv, SignalTypeOK, PendingTypeOK, LockInv, Holding
  <2>4. CallInv' /\ AddingInv' /\ FlagInv'
    BY <1>2, <2>1, PendingKept DEF MakeStart, MakeLock, MakeUnlock, ring, IInv, RingInv, CallInv,
                                   AddingInv, FlagInv
  <2>5. CheckScheduled'
    BY <2>1, PendingKept DEF IInv, CheckScheduled, Scheduled
  <2> QED BY <1>1, <2>2, <2>3, <2>4, <2>5 DEF IInv, RingInv
<1>3. CASE MakeTake
  <2> USE <1>3 DEF MakeTake
  <2>1. func = None /\ scan = 0
    BY DEF IInv, RingInv, CallInv
  <2>2. CASE pendingfirst = pendinglast
    <3>1. UNCHANGED <<ring, func>> /\ ~pendingcalls_to_do'
      BY <2>1, <2>2 DEF ring
    <3>2. SignalTypeOK'
      BY <3>1 DEF ring, IInv, RingInv, SignalTypeOK, PendingTypeOK
    <3>3. LockInv' /\ CallInv' /\ AddingInv' /\ FlagInv'
      BY <2>2, <3>1, PendingKept DEF ring, IInv, RingInv, LockInv, CallInv, AddingInv, FlagInv
    <3>4. CheckScheduled'
      BY <3>1, PendingKept DEF IInv, CheckScheduled, Scheduled
    <3> QED BY <1>1, <3>2, <3>3, <3>4 DEF IInv, RingInv
  <2>3. CASE pendingfirst # pendinglast
    <3>1. /\ func' = pendingcalls[pendingfirst] /\ pendingfirst' = After(pendingfirst)
          /\ UNCHANGED <<pendingcalls, pendinglast>>
          /\ pendingcalls_to_do' = (pendingfirst' # pendinglast')
      BY <2>3
    <3>2. /\ func' \in Funcs
          /\ \A k \in DOMAIN Pending' : Pending'[k] \in Funcs
          /\ (\E k \in DOMAIN Pending : Pending[k] = CheckSignals) =>
               CheckSignals = func' \/ \E k \in DOMAIN Pending' : Pending'[k] = CheckSignals
      BY <2>3, <3>1, TakeKeeps DEF IInv
    <3>3. SignalTypeOK'
      <4>1. pendingfirst' \in Slots
        BY <3>1, AfterSlot DEF IInv, RingInv, SignalTypeOK, PendingTypeOK
      <4> QED BY <3>1, <3>2, <4>1 DEF IInv, RingInv, SignalTypeOK, PendingTypeOK
    <3>4. LockInv' /\ CallInv' /\ AddingInv' /\ FlagInv'
      BY <3>1, <3>2 DEF IInv, RingInv, LockInv, CallInv, AddingInv, FlagInv
    <3>5. CheckScheduled'
      BY <2>1, <3>2 DEF IInv, CheckScheduled, Scheduled
    <3> QED BY <1>1, <3>3, <3>4, <3>5 DEF IInv, RingInv
  <2> QED BY <2>2, <2>3
<1> QED BY <1>2, <1>3 DEF Make

\* A call that returns leaves the ring and the lock alone.
LEMMA ReturnKeeps ==
  ASSUME SignalAssumption, RingInv, NEW r \in {0, -1}, Return(r), scan' = 0,
         UNCHANGED <<tpc, signals>>, tripped' \in [Sigs -> BOOLEAN],
         is_tripped' \in BOOLEAN, refused' \in BOOLEAN, raised' \in BOOLEAN
  PROVE  RingInv'
<1> USE DEF SignalAssumption, PendingAssumption, callers, Return
<1>1. SignalTypeOK'
  BY DEF ring, RingInv, SignalTypeOK, PendingTypeOK, CallInv
<1>2. LockInv' /\ CallInv' /\ AddingInv' /\ FlagInv'
  BY PendingKept DEF ring, RingInv, SignalTypeOK, PendingTypeOK, LockInv, CallInv, AddingInv, FlagInv
<1> QED BY <1>1, <1>2 DEF RingInv

\* A call that is made, PyErr_CheckSignals or another one, keeps the invariant.
LEMMA CallKeeps ==
  ASSUME SignalAssumption, IInv, OtherCall \/ Check
  PROVE  IInv'
<1> USE DEF SignalAssumption, PendingAssumption, callers
<1>1. CASE OtherCall
  <2>1. PICK r \in {0, -1} : Return(r)
    BY <1>1 DEF OtherCall, MakeCall
  <2>2. UNCHANGED <<tripped, is_tripped, tpc, scan, signals, refused, raised>> /\ func # CheckSignals
    BY <1>1 DEF OtherCall, sigVars, history
  <2>3. scan' = 0
    BY <2>2 DEF IInv, RingInv, CallInv
  <2>4. RingInv'
    BY <2>1, <2>2, <2>3, ReturnKeeps DEF IInv, RingInv, SignalTypeOK
  <2>5. CheckScheduled'
    BY <2>1, <2>2, PendingKept DEF Return, IInv, CheckScheduled, Scheduled
  <2>6. TripAnnounced'
    BY <2>2 DEF IInv, TripAnnounced
  <2> QED BY <2>4, <2>5, <2>6 DEF IInv
<1>2. CASE CheckNothing
  <2>1. UNCHANGED <<tripped, is_tripped, tpc, scan, signals, refused, raised>> /\ Return(0) /\ scan' = 0
    BY <1>2 DEF CheckNothing, sigVars, history
  <2>2. RingInv'
    BY <2>1, ReturnKeeps DEF IInv, RingInv, SignalTypeOK
  <2>3. CheckScheduled' /\ TripAnnounced'
    BY <1>2, <2>1 DEF CheckNothing, IInv, CheckScheduled, TripAnnounced
  <2> QED BY <2>2, <2>3 DEF IInv
<1>3. CASE CheckClear \/ CheckNext
  <2>1. UNCHANGED pendingVars /\ UNCHANGED <<tpc, signals, refused, raised>>
    BY <1>3 DEF CheckClear, CheckNext, history
  <2> USE <2>1 DEF pendingVars, ring, main
  <2>2. SignalTypeOK'
    <3>1. PendingTypeOK'
      BY DEF IInv, RingInv, SignalTypeOK, PendingTypeOK
    <3>2. CASE CheckClear
      <4>1. scan' = 1 /\ ~is_tripped' /\ UNCHANGED tripped /\ 1 \in 0 .. NSIG
        BY <3>2 DEF CheckClear
      <4>2. is_tripped' \in BOOLEAN
        BY <3>2 DEF CheckClear
      <4> QED BY <3>1, <4>1, <4>2 DEF IInv, RingInv, SignalTypeOK
    <3>3. CASE CheckNext
      <4>1. scan' \in 0 .. NSIG
        BY <3>3 DEF CheckNext, Sigs
      <4> QED BY <3>1, <3>3, <4>1 DEF CheckNext, IInv, RingInv, SignalTypeOK
    <3> QED BY <1>3, <3>2, <3>3
  <2>3. LockInv' /\ AddingInv' /\ FlagInv'
    BY PendingKept DEF IInv, RingInv, LockInv, AddingInv, FlagInv
  <2>4. CallInv'
    <3>1. scan' # 0 => mpc = "call" /\ func = CheckSignals
      BY <1>3 DEF CheckClear, CheckNext, IInv, RingInv, CallInv, Sigs
    <3> QED BY <3>1 DEF IInv, RingInv, CallInv
  <2>5. CheckScheduled'
    <3>1. CASE CheckClear
      BY <3>1 DEF CheckClear, CheckScheduled
    <3>2. CASE CheckNext
      <4>1. UNCHANGED is_tripped /\ scan # 0
        BY <3>2 DEF CheckNext, Sigs
      <4> QED BY <4>1, PendingKept DEF IInv, CheckScheduled, Scheduled
    <3> QED BY <1>3, <3>1, <3>2
  <2>6. TripAnnounced'
    <3>1. CASE CheckClear
      BY <3>1 DEF CheckClear, TripAnnounced, Sigs
    <3>2. CASE CheckNext
      <4> SUFFICES ASSUME NEW s \in Sigs, tripped'[s], ~is_tripped'
                   PROVE  scan' \in 1 .. s \/ (\E c \in Callers : tpc'[c] \in {"test", "set"}) \/ raised'
        BY DEF TripAnnounced
      <4>1. tripped[s] /\ s # scan /\ ~is_tripped
        BY <3>2 DEF CheckNext, IInv, RingInv, SignalTypeOK
      <4>2. scan \in 1 .. s \/ (\E c \in Callers : tpc[c] \in {"test", "set"}) \/ raised
        BY <4>1 DEF IInv, TripAnnounced
      <4>3. scan \in 1 .. s => scan' \in 1 .. s
        BY <3>2, <4>1 DEF CheckNext, Sigs
      <4> QED BY <4>2, <4>3
    <3> QED BY <1>3, <3>1, <3>2
  <2> QED BY <2>2, <2>3, <2>4, <2>5, <2>6 DEF IInv, RingInv
<1>4. CASE CheckRaise
  <2>1. UNCHANGED <<is_tripped, tpc, signals, refused>> /\ Return(-1) /\ scan' = 0 /\ raised'
    BY <1>4 DEF CheckRaise
  <2>2. tripped' \in [Sigs -> BOOLEAN] /\ raised' \in BOOLEAN
    BY <1>4 DEF CheckRaise, IInv, RingInv, SignalTypeOK
  <2>3. RingInv'
    BY <2>1, <2>2, ReturnKeeps DEF IInv, RingInv, SignalTypeOK
  <2>4. CheckScheduled'
    <3>1. scan # 0
      BY <1>4 DEF CheckRaise, Sigs
    <3> QED BY <2>1, <3>1, PendingKept DEF Return, IInv, CheckScheduled, Scheduled
  <2>5. TripAnnounced'
    BY <2>1 DEF TripAnnounced
  <2> QED BY <2>3, <2>4, <2>5 DEF IInv
<1>5. CASE CheckEnd
  <2>1. UNCHANGED <<tripped, is_tripped, tpc, signals, refused, raised>> /\ Return(0) /\ scan' = 0
        /\ scan = NSIG
    BY <1>5 DEF CheckEnd, history
  <2>2. RingInv'
    BY <2>1, ReturnKeeps DEF IInv, RingInv, SignalTypeOK
  <2>3. CheckScheduled'
    BY <2>1, PendingKept DEF Return, IInv, CheckScheduled, Scheduled
  <2>4. TripAnnounced'
    <3>1. \A s \in Sigs : scan \notin 1 .. s
      BY <2>1 DEF Sigs
    <3> QED BY <2>1, <3>1 DEF IInv, TripAnnounced
  <2> QED BY <2>2, <2>3, <2>4 DEF IInv
<1> QED BY <1>1, <1>2, <1>3, <1>4, <1>5 DEF Check

\* A step that changes nothing keeps it.
LEMMA StutterKeeps == IInv /\ UNCHANGED allVars => IInv'
<1> SUFFICES ASSUME IInv, UNCHANGED allVars PROVE IInv'
  OBVIOUS
<1> USE DEF allVars, pendingVars, sigVars, history, ring, callers, main, IInv, RingInv
<1>1. SignalTypeOK' /\ LockInv' /\ CallInv' /\ FlagInv'
  BY DEF SignalTypeOK, PendingTypeOK, LockInv, CallInv, FlagInv
<1>2. AddingInv' /\ CheckScheduled' /\ TripAnnounced'
  BY PendingKept DEF AddingInv, CheckScheduled, Scheduled, TripAnnounced
<1> QED BY <1>1, <1>2

\* The invariant holds in every state of every behaviour.
LEMMA InductiveInvariant == ASSUME SignalAssumption PROVE SignalSpec => []IInv
<1>1. SignalInit => IInv
  BY InitHolds
<1>2. IInv /\ [SignalNext]_allVars => IInv'
  <2> SUFFICES ASSUME IInv, [SignalNext]_allVars PROVE IInv'
    OBVIOUS
  <2>1. CASE MakeStep
    BY <2>1, MakerKeeps, CallKeeps DEF MakeStep
  <2>2. CASE \E s \in Sigs : TripOnMain(s)
    BY <2>2, InterruptKeeps
  <2>3. CASE \E c \in Callers : AddStep(c)
    BY <2>3, AdderKeeps
  <2>4. CASE \E c \in Callers : OtherAdd(c) \/ TripStep(c) \/ \E s \in Sigs : Trip(c, s)
    BY <2>4, TripKeeps
  <2>5. CASE UNCHANGED allVars
    BY <2>5, StutterKeeps
  <2> QED BY <2>1, <2>2, <2>3, <2>4, <2>5 DEF SignalNext
<1> QED BY <1>1, <1>2, PTL DEF SignalSpec

\* The variables of the ring, its users and trip_signal keep their types.
THEOREM TypeCorrect == ASSUME SignalAssumption PROVE SignalSpec => []SignalTypeOK
<1>1. IInv => SignalTypeOK
  BY DEF IInv, RingInv
<1> QED BY <1>1, InductiveInvariant, PTL

\* The evaluation loop, which reads pendingcalls_to_do without the lock, never passes
\* by a call in the ring for good: the flag is raised, or about to be, or the calls
\* are being made.
THEOREM CallsAreAnnounced == ASSUME SignalAssumption PROVE SignalSpec => []PendingAnnounced
<1>1. IInv => PendingAnnounced
  <2>1. IInv => (Pending # <<>> <=> pendingfirst # pendinglast)
    BY PendingIsSeq DEF IInv, RingInv, SignalTypeOK
  <2> QED BY <2>1 DEF IInv, RingInv, FlagInv, PendingAnnounced
<1> QED BY <1>1, InductiveInvariant, PTL

\* No signal falls between the flags: is_tripped has a check on its way unless a call of
\* trip_signal was refused, and a tripped signal is announced unless a handler raised.
THEOREM SignalsAreAnnounced == ASSUME SignalAssumption PROVE SignalSpec => []SignalsAnnounced
<1>1. IInv => SignalsAnnounced
  BY DEF IInv, SignalsAnnounced
<1> QED BY <1>1, InductiveInvariant, PTL

-------------------------------------------------------------------------------
\* Storing a call is accepting it, or refusing it without a trace.
LEMMA StoreRefines ==
  ASSUME SignalAssumption, IInv, NEW f \in Funcs, Store(f), UNCHANGED func
  PROVE  Abstract!Accept(f) \/ UNCHANGED Abstract!vars
<1>1. /\ RingFull => Pending' = Pending
      /\ ~RingFull => Pending' = Append(Pending, f) /\ Len(Pending) < NPENDINGCALLS - 1
  BY StoreAppends DEF IInv, RingInv, SignalTypeOK
<1> QED BY <1>1 DEF Abstract!Accept, Abstract!vars

\* Every step is a step of the abstract queue, or leaves it alone.
LEMMA StepRefines ==
  ASSUME SignalAssumption, IInv, [SignalNext]_allVars
  PROVE  [Abstract!Next]_(Abstract!vars)
<1> USE DEF Abstract!Next, Abstract!vars
<1>1. CASE \E s \in Sigs : TripOnMain(s)
  <2>1. PICK s \in Sigs : TripOnMain(s)
    BY <1>1
  <2>2. UNCHANGED func
    BY <2>1 DEF TripOnMain, main
  <2>3. Store(CheckSignals) \/ UNCHANGED ring
    BY <2>1 DEF TripOnMain
  <2>4. CheckSignals \in Funcs
    BY DEF SignalAssumption
  <2> QED BY <2>2, <2>3, <2>4, StoreRefines, PendingKept
<1>2. CASE \E c \in Callers : AddStep(c) \/ OtherAdd(c) \/ TripStep(c) \/ \E s \in Sigs : Trip(c, s)
  <2>1. PICK c \in Callers : AddStep(c) \/ OtherAdd(c) \/ TripStep(c) \/ \E s \in Sigs : Trip(c, s)
    BY <1>2
  <2>2. CASE AddStep(c)
    <3>1. UNCHANGED func
      BY <2>2 DEF AddStep, Add, AddLock, AddGiveUp, AddStore, AddFlag, AddUnlock, main
    <3>2. CASE AddStore(c)
      <4>1. adding[c] \in Funcs /\ Store(adding[c])
        BY <3>2 DEF AddStore, CallerGoto, IInv, RingInv, AddingInv
      <4> QED BY <3>1, <4>1, StoreRefines
    <3>3. CASE ~AddStore(c)
      <4>1. UNCHANGED ring
        BY <2>2, <3>3 DEF AddStep, Add, AddLock, AddGiveUp, AddFlag, AddUnlock
      <4> QED BY <3>1, <4>1, PendingKept
    <3> QED BY <3>2, <3>3
  <2>3. CASE OtherAdd(c) \/ TripStep(c) \/ \E s \in Sigs : Trip(c, s)
    <3>1. UNCHANGED <<ring, func>>
      <4>1. CASE OtherAdd(c)
        BY <4>1 DEF OtherAdd, AddCall, main
      <4>2. CASE TripStep(c)
        BY <4>2 DEF TripStep, TripTest, TripSet, TripAdd, AddCall, pendingVars, main
      <4>3. CASE \E s \in Sigs : Trip(c, s)
        BY <4>3 DEF Trip, pendingVars, main
      <4> QED BY <2>3, <4>1, <4>2, <4>3
    <3> QED BY <3>1, PendingKept
  <2> QED BY <2>1, <2>2, <2>3
<1>3. CASE Make /\ UNCHANGED sigVars
  <2>1. CASE MakeTake /\ pendingfirst # pendinglast
    <3>1. /\ Pending # <<>> /\ Head(Pending) = pendingcalls[pendingfirst]
          /\ Pending' = Tail(Pending)
      BY <2>1, TakeRemoves DEF MakeTake, IInv, RingInv, SignalTypeOK
    <3>2. func = None /\ func' = pendingcalls[pendingfirst]
      BY <2>1 DEF MakeTake, IInv, RingInv, CallInv
    <3> QED BY <3>1, <3>2 DEF Abstract!Begin
  <2>2. CASE MakeTake /\ pendingfirst = pendinglast
    <3>1. UNCHANGED <<ring, func>>
      BY <2>2 DEF MakeTake, ring, IInv, RingInv, CallInv
    <3> QED BY <3>1, PendingKept
  <2>3. CASE MakeStart \/ MakeLock \/ MakeUnlock
    <3>1. UNCHANGED <<ring, func>>
      BY <2>3 DEF MakeStart, MakeLock, MakeUnlock
    <3> QED BY <3>1, PendingKept
  <2> QED BY <1>3, <2>1, <2>2, <2>3 DEF Make
<1>4. CASE OtherCall \/ Check
  <2>1. CASE \E r \in {0, -1} : Return(r)
    <3>1. UNCHANGED ring /\ func # None /\ func' = None
      BY <2>1 DEF Return, IInv, RingInv, CallInv
    <3> QED BY <3>1, PendingKept DEF Abstract!End
  <2>2. CASE UNCHANGED pendingVars
    BY <2>2, PendingKept DEF pendingVars, main
  <2> QED BY <1>4, <2>1, <2>2 DEF OtherCall, MakeCall, Check, CheckNothing, CheckClear,
                                  CheckNext, CheckRaise, CheckEnd
<1>5. CASE UNCHANGED allVars
  BY <1>5, PendingKept DEF allVars, pendingVars, main
<1> QED BY <1>1, <1>2, <1>3, <1>4, <1>5 DEF SignalNext, MakeStep

\* The safety of the promise: calls are made in the order in which they were accepted,
\* each once, never inside another one, and no more than the ring holds wait.
THEOREM RingIsQueue ==
  ASSUME SignalAssumption
  PROVE  SignalSpec => Abstract!Init /\ [][Abstract!Next]_(Abstract!vars)
<1>1. SignalInit => Abstract!Init
  <2> SUFFICES ASSUME SignalInit PROVE Abstract!Init
    OBVIOUS
  <2>1. Pending = <<>>
    BY InitHolds, PendingIsSeq DEF IInv, RingInv, SignalTypeOK, SignalInit, PendingInit
  <2> QED BY <2>1 DEF SignalInit, PendingInit, Abstract!Init
<1>2. IInv /\ [SignalNext]_allVars => [Abstract!Next]_(Abstract!vars)
  BY StepRefines
<1> QED BY <1>1, <1>2, InductiveInvariant, PTL DEF SignalSpec
===============================================================================
