---------------------------- MODULE ProcessesProofs ----------------------------
(***************************************************************************)
(* Proofs about SemCondition, for any finite set of threads: the counts by *)
(* which a notifier knows of sleepers fit, so that the assertions of the   *)
(* code hold, and notify() and notify_all() see sleepers out, whichever    *)
(* time out.  And about MPQueue (JQ), for any finite set of processes: the *)
(* permits and the unfinished tasks are counted right, join_thread() waits *)
(* for all that was put, and the items of each process are received once   *)
(* and in order, as ProcessQueue promises.                                 *)
(***************************************************************************)
EXTENDS MCProcesses, Sequences, FiniteSetTheorems, SequenceTheorems, WellFoundedInduction, TLAPS

\* The threads that count as asleep until they say otherwise.
Sleepers == Asleep \cup Late

\* The lock is held between its acquisition and wait(), and during notify().
LockMatches == \A t \in Threads : lock = t <=> pc[t] \in {"held"} \cup Notifying

\* A sleeper is counted in _sleeping_count, or by the notifier that has picked it, until
\* its count in _woken_count has been taken off.
SleepersCounted == sleeping + left = Cardinality(Sleepers) + woken

\* Tokens and picked sleepers there are during a notification only.
NotifierOwes ==
  /\ tokens > 0 => lock \in Threads /\ pc[lock] \in {"pick", "await", "rezero"}
  /\ left > 0 => lock \in Threads /\ pc[lock] \in {"pick", "await"}
  /\ \A t \in Threads :
       /\ pc[t] = "pick" => tokens <= left /\ (~all => left <= 1)
       /\ pc[t] = "await" => left > 0 /\ (~all => tokens <= 1)
       /\ pc[t] = "rezero" /\ ~all => tokens <= 1

\* Nobody falls asleep during a notification; of those found, one at least is no longer
\* counted when somebody has been picked, and none when all have been.
SomeoneOut ==
  \A t \in Threads :
    /\ pc[t] \in Notifying => Sleepers \subseteq found \cup late
    /\ pc[t] = "pick" => sleeping + left <= Cardinality(found \cup late)
    /\ pc[t] \in {"await", "rezero"} =>
         sleeping < Cardinality(found \cup late) /\ (all => sleeping = 0)

IInv == TypeOK /\ LockMatches /\ SleepersCounted /\ NotifierOwes /\ SomeoneOut

-------------------------------------------------------------------------------
\* The set of sleepers is finite and counts as expected.
LEMMA SleepersCount ==
  ASSUME SemConditionAssumption, TypeOK
  PROVE  /\ Cardinality(Sleepers) \in Nat
         /\ Cardinality(Sleepers) = 0 <=> Sleepers = {}
         /\ \A t \in Threads :
              /\ t \notin Sleepers =>
                   Cardinality(Sleepers \cup {t}) = Cardinality(Sleepers) + 1
              /\ t \in Sleepers =>
                   Cardinality(Sleepers \ {t}) = Cardinality(Sleepers) - 1
         /\ Cardinality(found \cup late) \in Nat
         /\ Sleepers \subseteq found \cup late =>
              Cardinality(Sleepers) <= Cardinality(found \cup late)
         /\ found \cup late \subseteq Sleepers =>
              Cardinality(found \cup late) <= Cardinality(Sleepers)
<1>1. IsFiniteSet(Sleepers)
  BY FS_Subset, Sleepers \subseteq Threads DEF SemConditionAssumption, Sleepers, Asleep, Late
<1>2. IsFiniteSet(found \cup late)
  BY FS_Subset DEF SemConditionAssumption, TypeOK
<1>3. Cardinality(Sleepers) \in Nat /\ Cardinality(found \cup late) \in Nat
  BY <1>1, <1>2, FS_CardinalityType
<1>4. Cardinality(Sleepers) = 0 <=> Sleepers = {}
  BY <1>1, FS_EmptySet
<1>5. ASSUME NEW t \in Threads
      PROVE  /\ t \notin Sleepers => Cardinality(Sleepers \cup {t}) = Cardinality(Sleepers) + 1
             /\ t \in Sleepers => Cardinality(Sleepers \ {t}) = Cardinality(Sleepers) - 1
  BY <1>1, FS_AddElement, FS_RemoveElement
<1>6. Sleepers \subseteq found \cup late => Cardinality(Sleepers) <= Cardinality(found \cup late)
  BY <1>2, FS_Subset
<1>7. found \cup late \subseteq Sleepers => Cardinality(found \cup late) <= Cardinality(Sleepers)
  BY <1>1, FS_Subset
<1> QED BY <1>3, <1>4, <1>5, <1>6, <1>7

\* A thread falls asleep in wait() and ceases to be a sleeper in _woken_count.release();
\* no other step changes the set.
LEMMA SleepersChange ==
  ASSUME TypeOK, NEW t \in Threads
  PROVE  /\ \A timeout \in BOOLEAN : Wait(t, timeout) =>
                t \notin Sleepers /\ Sleepers' = Sleepers \cup {t}
         /\ SayWoken(t) => t \in Sleepers /\ Sleepers' = Sleepers \ {t}
         /\ Acquire(t) \/ Release(t) \/ Relock(t) => Sleepers' = Sleepers
         /\ Wake(t) \/ TimeOut(t) => Sleepers' = Sleepers
         /\ \A everyone \in BOOLEAN : Notify(t, everyone) => Sleepers' = Sleepers
         /\ InNotify(t) => Sleepers' = Sleepers
<1> USE DEF TypeOK, Labels, Notifying, Goto, Sleepers, Asleep, Late
<1>1. ASSUME NEW timeout \in BOOLEAN, Wait(t, timeout)
      PROVE  t \notin Sleepers /\ Sleepers' = Sleepers \cup {t}
  BY <1>1 DEF Wait
<1>2. ASSUME SayWoken(t) PROVE t \in Sleepers /\ Sleepers' = Sleepers \ {t}
  BY <1>2 DEF SayWoken
<1>3. ASSUME Acquire(t) \/ Release(t) \/ Relock(t) PROVE Sleepers' = Sleepers
  BY <1>3 DEF Acquire, Release, Relock
<1>4. ASSUME Wake(t) \/ TimeOut(t) PROVE Sleepers' = Sleepers
  BY <1>4 DEF Wake, TimeOut
<1>5. ASSUME NEW everyone \in BOOLEAN, Notify(t, everyone) PROVE Sleepers' = Sleepers
  BY <1>5 DEF Notify
<1>6. ASSUME InNotify(t) PROVE Sleepers' = Sleepers
  <2>1. CASE Drain(t) \/ Pick(t)
    BY <2>1 DEF Drain, Pick
  <2>2. CASE DrainEnd(t)
    BY <2>2 DEF DrainEnd
  <2>3. CASE PickEnd(t)
    BY <2>3 DEF PickEnd
  <2>4. CASE AwaitWoken(t)
    BY <2>4 DEF AwaitWoken
  <2>5. CASE Rezero(t)
    BY <2>5 DEF Rezero
  <2> QED BY <1>6, <2>1, <2>2, <2>3, <2>4, <2>5 DEF InNotify
<1> QED BY <1>1, <1>2, <1>3, <1>4, <1>5, <1>6

\* The invariant holds at the start.
LEMMA InitHolds == SemConditionAssumption /\ Init => IInv
<1> SUFFICES ASSUME SemConditionAssumption, Init PROVE IInv
  OBVIOUS
<1>1. TypeOK
  BY DEF Init, TypeOK, Labels, counts
<1>2. \A t \in Threads : pc[t] = "out"
  BY DEF Init
<1>3. Sleepers = {} /\ Cardinality(Sleepers) = 0
  BY <1>2, FS_EmptySet DEF Sleepers, Asleep, Late
<1>4. LockMatches
  BY <1>2 DEF Init, LockMatches, Notifying, SemConditionAssumption
<1>5. SleepersCounted /\ NotifierOwes /\ SomeoneOut
  BY <1>2, <1>3 DEF Init, SleepersCounted, NotifierOwes, SomeoneOut, Notifying
<1> QED BY <1>1, <1>4, <1>5 DEF IInv

\* A step outside of notify() keeps the invariant.
LEMMA ClientKeeps ==
  ASSUME SemConditionAssumption, IInv, NEW t \in Threads,
         \/ Acquire(t) \/ Release(t) \/ \E timeout \in BOOLEAN : Wait(t, timeout)
         \/ Wake(t) \/ TimeOut(t) \/ SayWoken(t) \/ Relock(t)
  PROVE  IInv'
<1> USE DEF IInv, TypeOK, Labels, Notifying, Goto
<1>1. CASE Acquire(t)
  <2>1. Sleepers' = Sleepers
    BY <1>1, SleepersChange
  <2>2. TypeOK'
    BY <1>1, SleepersCount DEF Acquire, Forget, counts, locals, SleepersCounted, NotifierOwes,
       LockMatches, MorePicks
  <2>3. LockMatches'
    BY <1>1, SleepersCount DEF Acquire, LockMatches, SemConditionAssumption
  <2>4. SleepersCounted'
    BY <1>1, <2>1, SleepersCount DEF Acquire, counts, locals, SleepersCounted, NotifierOwes
  <2>5. NotifierOwes'
    BY <1>1, SleepersCount DEF Acquire, Forget, counts, locals, NotifierOwes, LockMatches,
       MorePicks, SemConditionAssumption
  <2>6. SomeoneOut'
    BY <1>1, <2>1, SleepersCount DEF Acquire, Forget, counts, locals, SomeoneOut, NotifierOwes,
       LockMatches, SleepersCounted, MorePicks
  <2> QED BY <2>2, <2>3, <2>4, <2>5, <2>6 DEF IInv
<1>2. CASE Release(t)
  <2>1. Sleepers' = Sleepers
    BY <1>2, SleepersChange
  <2>2. TypeOK'
    BY <1>2, SleepersCount DEF Release, Forget, counts, locals, SleepersCounted, NotifierOwes,
       LockMatches, MorePicks
  <2>3. LockMatches'
    BY <1>2, SleepersCount DEF Release, LockMatches, SemConditionAssumption
  <2>4. SleepersCounted'
    BY <1>2, <2>1, SleepersCount DEF Release, counts, locals, SleepersCounted, NotifierOwes
  <2>5. NotifierOwes'
    BY <1>2, SleepersCount DEF Release, Forget, counts, locals, NotifierOwes, LockMatches,
       MorePicks, SemConditionAssumption
  <2>6. SomeoneOut'
    BY <1>2, <2>1, SleepersCount DEF Release, Forget, counts, locals, SomeoneOut, NotifierOwes,
       LockMatches, SleepersCounted, MorePicks
  <2> QED BY <2>2, <2>3, <2>4, <2>5, <2>6 DEF IInv
<1>3. CASE \E timeout \in BOOLEAN : Wait(t, timeout)
  <2> PICK timeout \in BOOLEAN : Wait(t, timeout)
    BY <1>3
  <2>1. t \notin Sleepers /\ Sleepers' = Sleepers \cup {t}
    BY SleepersChange
  <2>2. TypeOK'
    BY SleepersCount DEF Wait, Forget, counts, locals, SleepersCounted, NotifierOwes,
       LockMatches, MorePicks
  <2>3. LockMatches'
    BY SleepersCount DEF Wait, LockMatches, SemConditionAssumption
  <2>4. SleepersCounted'
    BY <2>1, SleepersCount DEF Wait, counts, locals, SleepersCounted, NotifierOwes
  <2>5. NotifierOwes'
    BY SleepersCount DEF Wait, Forget, counts, locals, NotifierOwes, LockMatches, MorePicks,
       SemConditionAssumption
  <2>6. SomeoneOut'
    BY <2>1, SleepersCount DEF Wait, Forget, counts, locals, SomeoneOut, NotifierOwes,
       LockMatches, SleepersCounted, MorePicks
  <2> QED BY <2>2, <2>3, <2>4, <2>5, <2>6 DEF IInv
<1>4. CASE Wake(t)
  <2>1. Sleepers' = Sleepers
    BY <1>4, SleepersChange
  <2>2. TypeOK'
    BY <1>4, SleepersCount DEF Wake, Forget, counts, locals, SleepersCounted, NotifierOwes,
       LockMatches, MorePicks
  <2>3. LockMatches'
    BY <1>4, SleepersCount DEF Wake, LockMatches, SemConditionAssumption
  <2>4. SleepersCounted'
    BY <1>4, <2>1, SleepersCount DEF Wake, counts, locals, SleepersCounted, NotifierOwes
  <2>5. NotifierOwes'
    BY <1>4, SleepersCount DEF Wake, Forget, counts, locals, NotifierOwes, LockMatches,
       MorePicks, SemConditionAssumption
  <2>6. SomeoneOut'
    BY <1>4, <2>1, SleepersCount DEF Wake, Forget, counts, locals, SomeoneOut, NotifierOwes,
       LockMatches, SleepersCounted, MorePicks
  <2> QED BY <2>2, <2>3, <2>4, <2>5, <2>6 DEF IInv
<1>5. CASE TimeOut(t)
  <2>1. Sleepers' = Sleepers
    BY <1>5, SleepersChange
  <2>2. TypeOK'
    BY <1>5, SleepersCount DEF TimeOut, Forget, counts, locals, SleepersCounted, NotifierOwes,
       LockMatches, MorePicks
  <2>3. LockMatches'
    BY <1>5, SleepersCount DEF TimeOut, LockMatches, SemConditionAssumption
  <2>4. SleepersCounted'
    BY <1>5, <2>1, SleepersCount DEF TimeOut, counts, locals, SleepersCounted, NotifierOwes
  <2>5. NotifierOwes'
    BY <1>5, SleepersCount DEF TimeOut, Forget, counts, locals, NotifierOwes, LockMatches,
       MorePicks, SemConditionAssumption
  <2>6. SomeoneOut'
    BY <1>5, <2>1, SleepersCount DEF TimeOut, Forget, counts, locals, SomeoneOut, NotifierOwes,
       LockMatches, SleepersCounted, MorePicks
  <2> QED BY <2>2, <2>3, <2>4, <2>5, <2>6 DEF IInv
<1>6. CASE SayWoken(t)
  <2>1. t \in Sleepers /\ Sleepers' = Sleepers \ {t}
    BY <1>6, SleepersChange
  <2>2. TypeOK'
    BY <1>6, SleepersCount DEF SayWoken, Forget, counts, locals, SleepersCounted, NotifierOwes,
       LockMatches, MorePicks
  <2>3. LockMatches'
    BY <1>6, SleepersCount DEF SayWoken, LockMatches, SemConditionAssumption
  <2>4. SleepersCounted'
    BY <1>6, <2>1, SleepersCount DEF SayWoken, counts, locals, SleepersCounted, NotifierOwes
  <2>5. NotifierOwes'
    BY <1>6, SleepersCount DEF SayWoken, Forget, counts, locals, NotifierOwes, LockMatches,
       MorePicks, SemConditionAssumption
  <2>6. SomeoneOut'
    BY <1>6, <2>1, SleepersCount DEF SayWoken, Forget, counts, locals, SomeoneOut, NotifierOwes,
       LockMatches, SleepersCounted, MorePicks
  <2> QED BY <2>2, <2>3, <2>4, <2>5, <2>6 DEF IInv
<1>7. CASE Relock(t)
  <2>1. Sleepers' = Sleepers
    BY <1>7, SleepersChange
  <2>2. TypeOK'
    BY <1>7, SleepersCount DEF Relock, Forget, counts, locals, SleepersCounted, NotifierOwes,
       LockMatches, MorePicks
  <2>3. LockMatches'
    BY <1>7, SleepersCount DEF Relock, LockMatches, SemConditionAssumption
  <2>4. SleepersCounted'
    BY <1>7, <2>1, SleepersCount DEF Relock, counts, locals, SleepersCounted, NotifierOwes
  <2>5. NotifierOwes'
    BY <1>7, SleepersCount DEF Relock, Forget, counts, locals, NotifierOwes, LockMatches,
       MorePicks, SemConditionAssumption
  <2>6. SomeoneOut'
    BY <1>7, <2>1, SleepersCount DEF Relock, Forget, counts, locals, SomeoneOut, NotifierOwes,
       LockMatches, SleepersCounted, MorePicks
  <2> QED BY <2>2, <2>3, <2>4, <2>5, <2>6 DEF IInv
<1> QED BY <1>1, <1>2, <1>3, <1>4, <1>5, <1>6, <1>7

\* A step of notify() or notify_all() keeps the invariant.
LEMMA NotifierKeeps ==
  ASSUME SemConditionAssumption, IInv, NEW t \in Threads,
         \/ \E everyone \in BOOLEAN : Notify(t, everyone)
         \/ Drain(t) \/ DrainEnd(t) \/ Pick(t) \/ PickEnd(t) \/ AwaitWoken(t) \/ Rezero(t)
  PROVE  IInv'
<1> USE DEF IInv, TypeOK, Labels, Notifying, Goto
<1>1. CASE \E everyone \in BOOLEAN : Notify(t, everyone)
  <2> PICK everyone \in BOOLEAN : Notify(t, everyone)
    BY <1>1
  <2>1. Sleepers' = Sleepers
    BY SleepersChange
  <2>2. TypeOK'
    <3>1. pc' \in [Threads -> Labels] /\ left' \in Nat /\ all' \in BOOLEAN
      BY DEF Notify
    <3>2. found' \cup late' \subseteq Threads
      BY DEF Notify, Asleep, Late
    <3> QED BY <3>1, <3>2 DEF Notify, counts
  <2>3. LockMatches'
    BY SleepersCount DEF Notify, LockMatches, SemConditionAssumption
  <2>4. SleepersCounted'
    <3>1. left = 0
      BY DEF Notify, LockMatches, NotifierOwes
    <3> QED BY <2>1, <3>1 DEF Notify, counts, SleepersCounted
  <2>5. NotifierOwes'
    BY SleepersCount DEF Notify, Forget, counts, locals, NotifierOwes, LockMatches, MorePicks,
       SemConditionAssumption
  <2>6. SomeoneOut'
    <3>1. \A s \in Threads : pc'[s] \in Notifying => s = t
      BY DEF Notify, LockMatches
    <3>2. Sleepers' \subseteq found' \cup late'
      BY <2>1 DEF Notify, Sleepers
    <3> QED BY <3>1, <3>2 DEF Notify, SomeoneOut
  <2> QED BY <2>2, <2>3, <2>4, <2>5, <2>6 DEF IInv
<1>2. CASE Drain(t)
  <2>1. Sleepers' = Sleepers
    BY <1>2, SleepersChange DEF InNotify
  <2>2. TypeOK'
    BY <1>2, SleepersCount DEF Drain, Forget, counts, locals, SleepersCounted, NotifierOwes,
       LockMatches, MorePicks
  <2>3. LockMatches'
    BY <1>2, SleepersCount DEF Drain, LockMatches, SemConditionAssumption
  <2>4. SleepersCounted'
    BY <1>2, <2>1, SleepersCount DEF Drain, counts, locals, SleepersCounted, NotifierOwes
  <2>5. NotifierOwes'
    BY <1>2, SleepersCount DEF Drain, Forget, counts, locals, NotifierOwes, LockMatches,
       MorePicks, SemConditionAssumption
  <2>6. SomeoneOut'
    BY <1>2, <2>1, SleepersCount DEF Drain, Forget, counts, locals, SomeoneOut, NotifierOwes,
       LockMatches, SleepersCounted, MorePicks
  <2> QED BY <2>2, <2>3, <2>4, <2>5, <2>6 DEF IInv
<1>3. CASE DrainEnd(t)
  <2>1. Sleepers' = Sleepers
    BY <1>3, SleepersChange DEF InNotify
  <2>2. TypeOK'
    BY <1>3, SleepersCount DEF DrainEnd, Forget, counts, locals, SleepersCounted, NotifierOwes,
       LockMatches, MorePicks
  <2>3. LockMatches'
    BY <1>3, SleepersCount DEF DrainEnd, LockMatches, SemConditionAssumption
  <2>4. SleepersCounted'
    BY <1>3, <2>1, SleepersCount DEF DrainEnd, counts, locals, SleepersCounted, NotifierOwes
  <2>5. NotifierOwes'
    BY <1>3, SleepersCount DEF DrainEnd, Forget, counts, locals, NotifierOwes, LockMatches,
       MorePicks, SemConditionAssumption
  <2>6. SomeoneOut'
    BY <1>3, <2>1, SleepersCount DEF DrainEnd, Forget, counts, locals, SomeoneOut, NotifierOwes,
       LockMatches, SleepersCounted, MorePicks
  <2> QED BY <2>2, <2>3, <2>4, <2>5, <2>6 DEF IInv
<1>4. CASE Pick(t)
  <2>1. Sleepers' = Sleepers
    BY <1>4, SleepersChange DEF InNotify
  <2>2. TypeOK'
    BY <1>4, SleepersCount DEF Pick, Forget, counts, locals, SleepersCounted, NotifierOwes,
       LockMatches, MorePicks
  <2>3. LockMatches'
    BY <1>4, SleepersCount DEF Pick, LockMatches, SemConditionAssumption
  <2>4. SleepersCounted'
    BY <1>4, <2>1, SleepersCount DEF Pick, counts, locals, SleepersCounted, NotifierOwes
  <2>5. NotifierOwes'
    BY <1>4, SleepersCount DEF Pick, Forget, counts, locals, NotifierOwes, LockMatches,
       MorePicks, SemConditionAssumption
  <2>6. SomeoneOut'
    <3>1. \A s \in Threads : pc'[s] \in Notifying => s = t
      BY <1>4 DEF Pick, LockMatches
    <3>2. sleeping' + left' = sleeping + left /\ UNCHANGED <<found, late>> /\ pc'[t] = "pick"
      BY <1>4 DEF Pick, MorePicks
    <3>3. Cardinality(found' \cup late') = Cardinality(found \cup late)
      BY <3>2
    <3>4. /\ Sleepers \subseteq found \cup late
          /\ sleeping + left <= Cardinality(found \cup late)
      BY <1>4 DEF Pick, SomeoneOut
    <3> QED BY <2>1, <3>1, <3>2, <3>3, <3>4 DEF SomeoneOut
  <2> QED BY <2>2, <2>3, <2>4, <2>5, <2>6 DEF IInv
<1>5. CASE PickEnd(t)
  <2>1. Sleepers' = Sleepers
    BY <1>5, SleepersChange DEF InNotify
  <2>2. TypeOK'
    BY <1>5, SleepersCount DEF PickEnd, Forget, counts, locals, SleepersCounted, NotifierOwes,
       LockMatches, MorePicks
  <2>3. LockMatches'
    BY <1>5, SleepersCount DEF PickEnd, LockMatches, SemConditionAssumption
  <2>4. SleepersCounted'
    BY <1>5, <2>1, SleepersCount DEF PickEnd, counts, locals, SleepersCounted, NotifierOwes
  <2>5. NotifierOwes'
    BY <1>5, SleepersCount DEF PickEnd, Forget, counts, locals, NotifierOwes, LockMatches,
       MorePicks, SemConditionAssumption
  <2>6. SomeoneOut'
    <3>1. \A s \in Threads : pc'[s] \in Notifying => s = t
      BY <1>5 DEF PickEnd, LockMatches
    <3>2. CASE left = 0
      BY <1>5, <3>1, <3>2 DEF PickEnd, SomeoneOut
    <3>3. CASE left # 0
      <4>1. UNCHANGED <<sleeping, found, late, all>> /\ pc'[t] = "await"
        BY <1>5, <3>3 DEF PickEnd, counts
      <4>2. Cardinality(found' \cup late') = Cardinality(found \cup late)
        BY <4>1
      <4>3. /\ Sleepers \subseteq found \cup late
            /\ sleeping + left <= Cardinality(found \cup late)
        BY <1>5 DEF PickEnd, SomeoneOut
      <4>4. sleeping < Cardinality(found \cup late) /\ (all => sleeping = 0)
        BY <1>5, <3>3, <4>3, SleepersCount DEF PickEnd, MorePicks
      <4> QED BY <2>1, <3>1, <4>1, <4>2, <4>3, <4>4 DEF SomeoneOut
    <3> QED BY <3>2, <3>3
  <2> QED BY <2>2, <2>3, <2>4, <2>5, <2>6 DEF IInv
<1>6. CASE AwaitWoken(t)
  <2>1. Sleepers' = Sleepers
    BY <1>6, SleepersChange DEF InNotify
  <2>2. TypeOK'
    BY <1>6, SleepersCount DEF AwaitWoken, Forget, counts, locals, SleepersCounted, NotifierOwes,
       LockMatches, MorePicks
  <2>3. LockMatches'
    BY <1>6, SleepersCount DEF AwaitWoken, LockMatches, SemConditionAssumption
  <2>4. SleepersCounted'
    BY <1>6, <2>1, SleepersCount DEF AwaitWoken, counts, locals, SleepersCounted, NotifierOwes
  <2>5. NotifierOwes'
    BY <1>6, SleepersCount DEF AwaitWoken, Forget, counts, locals, NotifierOwes, LockMatches,
       MorePicks, SemConditionAssumption
  <2>6. SomeoneOut'
    BY <1>6, <2>1, SleepersCount DEF AwaitWoken, Forget, counts, locals, SomeoneOut,
       NotifierOwes, LockMatches, SleepersCounted, MorePicks
  <2> QED BY <2>2, <2>3, <2>4, <2>5, <2>6 DEF IInv
<1>7. CASE Rezero(t)
  <2>1. Sleepers' = Sleepers
    BY <1>7, SleepersChange DEF InNotify
  <2>2. TypeOK'
    <3>1. tokens' \in Nat
      BY <1>7 DEF Rezero
    <3>2. pc' \in [Threads -> Labels]
      BY <1>7 DEF Rezero
    <3>3. all' \in BOOLEAN /\ found' \cup late' \subseteq Threads
      BY <1>7 DEF Rezero, Forget
    <3> QED BY <1>7, <3>1, <3>2, <3>3 DEF Rezero
  <2>3. LockMatches'
    BY <1>7, SleepersCount DEF Rezero, LockMatches, SemConditionAssumption
  <2>4. SleepersCounted'
    BY <1>7, <2>1, SleepersCount DEF Rezero, counts, locals, SleepersCounted, NotifierOwes
  <2>5. NotifierOwes'
    BY <1>7, SleepersCount DEF Rezero, Forget, counts, locals, NotifierOwes, LockMatches,
       MorePicks, SemConditionAssumption
  <2>6. SomeoneOut'
    BY <1>7, <2>1, SleepersCount DEF Rezero, Forget, counts, locals, SomeoneOut, NotifierOwes,
       LockMatches, SleepersCounted, MorePicks
  <2> QED BY <2>2, <2>3, <2>4, <2>5, <2>6 DEF IInv
<1> QED BY <1>1, <1>2, <1>3, <1>4, <1>5, <1>6, <1>7

-------------------------------------------------------------------------------
\* A step of any thread, or none, keeps the invariant.
LEMMA NextKeeps == SemConditionAssumption /\ IInv /\ [Next]_vars => IInv'
<1> SUFFICES ASSUME SemConditionAssumption, IInv, [Next]_vars PROVE IInv'
  OBVIOUS
<1>1. CASE Next
  BY <1>1, ClientKeeps, NotifierKeeps DEF Next, InNotify
<1>2. CASE UNCHANGED vars
  BY <1>2 DEF vars, counts, locals, IInv, TypeOK, LockMatches, SleepersCounted, NotifierOwes,
     SomeoneOut, Sleepers, Asleep, Late
<1> QED BY <1>1, <1>2

\* The counts fit in every state.
THEOREM InvariantsHold == ASSUME SemConditionAssumption PROVE Spec => []IInv
<1>1. Init => IInv
  BY InitHolds
<1>2. IInv /\ [Next]_vars => IInv'
  BY NextKeeps
<1> QED BY <1>1, <1>2, PTL DEF Spec

\* The assertions of wait(), notify() and notify_all() in multiprocessing.Condition never
\* fail: no token of an earlier notification is left although sleepers may have timed
\* out, and every count of a woken sleeper has a sleeper to take off.
THEOREM AssertionsNeverFail == ASSUME SemConditionAssumption PROVE Spec => []AssertionsHold
<1>1. IInv => AssertionsHold
  <2> SUFFICES ASSUME IInv, NEW t \in Threads, pc[t] = "drain"
               PROVE  tokens = 0 /\ woken <= sleeping
    BY DEF AssertionsHold
  <2>1. lock = t
    BY DEF IInv, LockMatches, Notifying
  <2>2. tokens = 0 /\ left = 0
    BY <2>1 DEF IInv, TypeOK, NotifierOwes
  <2> QED BY <2>2, SleepersCount DEF IInv, TypeOK, SleepersCounted
<1> QED BY InvariantsHold, <1>1, PTL

\* notify() of multiprocessing.Condition sees a thread out of the sleep if there was
\* any, and notify_all() all of them, whichever time out meanwhile.
THEOREM SleepersComeOut == ASSUME SemConditionAssumption PROVE Spec => NotifyWakes
<1> DEFINE Out ==
      \A t \in Threads : Returns(t) =>
        IF all THEN Asleep' \cup Late' = {}
               ELSE found \cup late # {} => ~(found \cup late \subseteq Asleep' \cup Late')
<1>1. IInv /\ [Next]_vars => [Out]_vars
  <2> SUFFICES ASSUME IInv, Next, NEW t \in Threads, Returns(t)
               PROVE  IF all THEN Sleepers' = {}
                      ELSE found \cup late # {} => ~(found \cup late \subseteq Sleepers')
    BY DEF Sleepers
  <2> USE DEF IInv, TypeOK, Notifying
  <2>1. (PickEnd(t) /\ left = 0) \/ (Rezero(t) /\ pc[t] = "rezero")
    BY DEF Returns, Next, InNotify, Acquire, Release, Wait, Wake, TimeOut, SayWoken, Relock,
       Notify, Drain, DrainEnd, Pick, PickEnd, AwaitWoken, Rezero, Goto
  <2>2. lock = t /\ Sleepers' = Sleepers
    BY <2>1, SleepersChange DEF LockMatches, InNotify, PickEnd, Goto
  <2>3. CASE PickEnd(t) /\ left = 0
    <3>1. sleeping = 0
      BY <2>3 DEF PickEnd, MorePicks
    <3>2. Sleepers = {}
      BY <2>3, <3>1, SleepersCount DEF SleepersCounted
    <3> QED BY <2>2, <3>2
  <2>4. CASE pc[t] = "rezero"
    <3>1. left = 0
      BY <2>2, <2>4 DEF NotifierOwes
    <3>2. sleeping < Cardinality(found \cup late) /\ (all => sleeping = 0)
      BY <2>4 DEF SomeoneOut
    <3>3. Cardinality(Sleepers) < Cardinality(found \cup late)
          /\ (all => Sleepers = {})
      BY <3>1, <3>2, SleepersCount DEF SleepersCounted
    <3> QED BY <2>2, <3>3, SleepersCount
  <2> QED BY <2>1, <2>3, <2>4
<1>2. NotifyWakes <=> [][Out]_vars
  BY DEF NotifyWakes
<1> QED BY InvariantsHold, <1>1, <1>2, PTL DEF Spec

-------------------------------------------------------------------------------
(* MPQueue                                                                  *)

\* What a process may be: TypeOK without the bounds of the model on the numbers of
\* items, which are data of the guard of PutAcquire.
QueueStates ==
  [pc : JQ!ClientPlaces, parent : Procs \cup {None}, feeder : JQ!FeederPlaces,
   buffer : Seq(Nat), hand : Seq(Nat), told : BOOLEAN, closed : BOOLEAN,
   cancelled : BOOLEAN, owed : Nat, puts : Nat]

\* A feeder has an item in hand from popleft() until send() has returned.
InHand(r) ==
  /\ r.feeder \in {"lock", "send"} => Len(r.hand) = 1 /\ r.hand[1] # 0
  /\ r.feeder \notin {"lock", "send"} => r.hand = <<>>

\* The sentinel, put when nobody puts any more, is the last in the buffer.
SentinelLast(r) ==
  /\ \A i \in 1 .. Len(r.buffer) : r.buffer[i] = 0 => r.told /\ i = Len(r.buffer)
  /\ r.told => r.closed \/ r.pc \in {"exiting", "dead"}
  /\ r.pc \in {"enter", "append", "count"} => ~r.closed

\* A feeder that has not started, or has seen the sentinel, has nothing to send; one
\* that was killed was in a process that is dead.
NothingBehind(r) ==
  /\ r.feeder \in {"none", "done"} => r.buffer = <<>>
  /\ r.feeder = "done" => r.told \/ r.pc = "dead"
  /\ r.feeder = "killed" => r.pc = "dead"

Fit(r) == r \in QueueStates /\ InHand(r) /\ SentinelLast(r) /\ NothingBehind(r)

QueueTypeOK ==
  /\ sem \in Nat /\ unfinished \in Nat
  /\ {rlock, wlock, cond} \subseteq Procs \cup {None}
  /\ pipe \in Seq(Procs \X Nat) /\ Len(pipe) <= PipeSize
  /\ q \in [Procs -> QueueStates]

\* The lock of _cond is held from the append of an item until it is counted.
CondHeld == \A p \in Procs : q[p].pc = "count" <=> cond = p

\* Clients that have a permit that is no item's yet, or no item's any more.
Permitted == {p \in Procs : q[p].pc \in {"enter", "append", "got"}}

\* A permit for each of them and for each item on its way, and no more than maxsize.
PermitsKept == sem + Cardinality(Permitted) + Cardinality(JQ!Behind) + Len(pipe) <= MaxSize

\* Every item on its way, or received and not done, is counted or is about to be.
TasksCounted ==
  Len(pipe) + Cardinality(JQ!Behind) + Cardinality(JQ!Owed)
    <= unfinished + (IF cond = None THEN 0 ELSE 1)

QueueIInv ==
  /\ QueueTypeOK /\ CondHeld /\ \A p \in Procs : Fit(q[p])
  /\ IsFiniteSet(JQ!Behind) /\ IsFiniteSet(JQ!Owed) /\ PermitsKept /\ TasksCounted

\* The constants of the queue.
LEMMA QueueConstants ==
  /\ IsFiniteSet(Procs) /\ Root \in Procs /\ None \notin Procs
  /\ MaxSize \in Nat \ {0} /\ PipeSize \in Nat \ {0}
  BY QueueHasItsConstants DEF JQ!MPQueueAssumption, JQ!IsFiniteSet, IsFiniteSet

\* The places of the items in sequences of items, one for each process.
Places(u) == UNION {{p} \X {i \in DOMAIN u[p] : u[p][i] # 0} : p \in Procs}

\* What it is to be such a place.
LEMMA PlacesMembers ==
  ASSUME NEW u
  PROVE  \A x : x \in Places(u) <=>
           \E p \in Procs : \E i \in DOMAIN u[p] : u[p][i] # 0 /\ x = <<p, i>>
  BY DEF Places

\* The number of places when a sequence is emptied, ...
LEMMA PlacesCleared ==
  ASSUME NEW u, NEW v, NEW p \in Procs, \A r \in Procs \ {p} : v[r] = u[r],
         v[p] = <<>>, IsFiniteSet(Places(u))
  PROVE  IsFiniteSet(Places(v)) /\ Cardinality(Places(v)) <= Cardinality(Places(u))
<1>1. Places(v) \subseteq Places(u)
  <2>1. DOMAIN v[p] = {}
    BY EmptySeq
  <2> QED BY <2>1, PlacesMembers
<1> QED BY <1>1, FS_Subset

\* ... when an item or the sentinel is appended to it, ...
LEMMA PlacesAppended ==
  ASSUME NEW u, NEW v, NEW p \in Procs, \A r \in Procs \ {p} : v[r] = u[r],
         NEW x \in Nat, u[p] \in Seq(Nat), v[p] = Append(u[p], x), IsFiniteSet(Places(u))
  PROVE  /\ IsFiniteSet(Places(v))
         /\ Cardinality(Places(v)) <= Cardinality(Places(u)) + (IF x = 0 THEN 0 ELSE 1)
<1> DEFINE n == Len(u[p])
<1>1. /\ n \in Nat /\ DOMAIN u[p] = 1 .. n /\ DOMAIN v[p] = 1 .. n + 1
      /\ v[p][n + 1] = x /\ \A i \in 1 .. n : v[p][i] = u[p][i]
  BY AppendProperties, LenProperties
<1> HIDE DEF n
<1>2. Places(v) \subseteq Places(u) \cup {<<p, n + 1>>}
  <2> SUFFICES ASSUME NEW r \in Procs, NEW i \in DOMAIN v[r], v[r][i] # 0
               PROVE  <<r, i>> \in Places(u) \cup {<<p, n + 1>>}
    BY PlacesMembers
  <2>1. CASE r = p
    <3>1. i = n + 1 \/ (i \in DOMAIN u[p] /\ u[p][i] # 0)
      BY <1>1, <2>1
    <3> QED BY <2>1, <3>1, PlacesMembers
  <2>2. CASE r # p
    BY <2>2, PlacesMembers
  <2> QED BY <2>1, <2>2
<1>3. x = 0 => Places(v) \subseteq Places(u)
  <2> SUFFICES ASSUME x = 0, NEW r \in Procs, NEW i \in DOMAIN v[r], v[r][i] # 0
               PROVE  <<r, i>> \in Places(u)
    BY PlacesMembers
  <2>1. CASE r = p
    <3>1. i \in 1 .. n + 1 /\ v[p][i] # 0
      BY <1>1, <2>1
    <3>2. i \in 1 .. n /\ u[p][i] # 0
      BY <1>1, <3>1
    <3>3. i \in DOMAIN u[p]
      BY <1>1, <3>2
    <3> QED BY <2>1, <3>2, <3>3, PlacesMembers
  <2>2. CASE r # p
    BY <2>2, PlacesMembers
  <2> QED BY <2>1, <2>2
<1>4. /\ IsFiniteSet(Places(u) \cup {<<p, n + 1>>})
      /\ Cardinality(Places(u)) \in Nat
      /\ Cardinality(Places(u) \cup {<<p, n + 1>>}) <= Cardinality(Places(u)) + 1
  <2>1. Cardinality(Places(u)) \in Nat
    BY FS_CardinalityType
  <2>2. /\ IsFiniteSet(Places(u) \cup {<<p, n + 1>>})
        /\ Cardinality(Places(u) \cup {<<p, n + 1>>}) =
             IF <<p, n + 1>> \in Places(u) THEN Cardinality(Places(u))
             ELSE Cardinality(Places(u)) + 1
    BY FS_AddElement
  <2> QED BY <2>1, <2>2
<1>5. /\ IsFiniteSet(Places(v)) /\ Cardinality(Places(v)) \in Nat
      /\ Cardinality(Places(v)) <= Cardinality(Places(u) \cup {<<p, n + 1>>})
  BY <1>2, <1>4, FS_Subset, FS_CardinalityType
<1>6. Cardinality(Places(u) \cup {<<p, n + 1>>}) \in Nat
  BY <1>4, FS_CardinalityType
<1>7. x = 0 => Cardinality(Places(v)) <= Cardinality(Places(u))
  BY <1>3, FS_Subset
<1> QED BY <1>4, <1>5, <1>6, <1>7

\* ... and when an item is taken off its head.
LEMMA PlacesTaken ==
  ASSUME NEW u, NEW v, NEW p \in Procs, \A r \in Procs \ {p} : v[r] = u[r],
         u[p] \in Seq(Nat), u[p] # <<>>, u[p][1] # 0, v[p] = Tail(u[p]),
         IsFiniteSet(Places(u))
  PROVE  /\ IsFiniteSet(Places(v))
         /\ Cardinality(Places(v)) <= Cardinality(Places(u)) - 1
<1> DEFINE n == Len(u[p])
<1>1. /\ n \in Nat \ {0} /\ DOMAIN u[p] = 1 .. n /\ DOMAIN v[p] = 1 .. n - 1
      /\ \A i \in 1 .. n - 1 : v[p][i] = u[p][i + 1]
  BY HeadTailProperties, LenProperties, EmptySeq
<1> HIDE DEF n
<1> DEFINE Rest == Places(u) \ {<<p, 1>>}
           f == [x \in Places(v) |-> IF x[1] = p THEN <<p, x[2] + 1>> ELSE x]
<1>2. <<p, 1>> \in Places(u)
  BY <1>1, PlacesMembers
<1>3. ASSUME NEW r \in Procs, NEW i \in DOMAIN v[r], v[r][i] # 0
      PROVE  /\ r = p => <<p, i + 1>> \in Rest /\ i \in Int
             /\ r # p => <<r, i>> \in Rest
  <2>1. CASE r = p
    <3>1. i \in DOMAIN v[p] /\ v[p][i] # 0
      BY <1>3, <2>1
    <3>2. i \in 1 .. n - 1
      BY <1>1, <3>1
    <3>3. i \in Int /\ i + 1 \in 1 .. n /\ i + 1 # 1
      BY <1>1, <3>2
    <3>4. i + 1 \in DOMAIN u[p] /\ u[p][i + 1] # 0
      BY <1>1, <3>1, <3>2, <3>3
    <3>5. <<p, i + 1>> \in Places(u)
      BY <3>4, PlacesMembers
    <3> QED BY <2>1, <3>3, <3>5
  <2>2. CASE r # p
    BY <1>3, <2>2, PlacesMembers
  <2> QED BY <2>1, <2>2
<1>4. f \in Injection(Places(v), Rest)
  <2>1. \A x \in Places(v) : f[x] \in Rest
    <3> SUFFICES ASSUME NEW x \in Places(v) PROVE f[x] \in Rest
      OBVIOUS
    <3>1. PICK r \in Procs : \E i \in DOMAIN v[r] : v[r][i] # 0 /\ x = <<r, i>>
      BY PlacesMembers
    <3>2. PICK i \in DOMAIN v[r] : v[r][i] # 0 /\ x = <<r, i>>
      BY <3>1
    <3> HIDE DEF Rest
    <3> QED BY <1>3, <3>2
  <2>2. \A x, y \in Places(v) : f[x] = f[y] => x = y
    <3> SUFFICES ASSUME NEW x \in Places(v), NEW y \in Places(v), f[x] = f[y] PROVE x = y
      OBVIOUS
    <3>1. PICK r \in Procs : \E i \in DOMAIN v[r] : v[r][i] # 0 /\ x = <<r, i>>
      BY PlacesMembers
    <3>2. PICK i \in DOMAIN v[r] : v[r][i] # 0 /\ x = <<r, i>>
      BY <3>1
    <3>3. PICK s \in Procs : \E j \in DOMAIN v[s] : v[s][j] # 0 /\ y = <<s, j>>
      BY PlacesMembers
    <3>4. PICK j \in DOMAIN v[s] : v[s][j] # 0 /\ y = <<s, j>>
      BY <3>3
    <3>5. (r = p => i \in Int) /\ (s = p => j \in Int)
      BY <1>3, <3>2, <3>4
    <3>6. f[x] = IF r = p THEN <<p, i + 1>> ELSE <<r, i>>
      BY <3>2
    <3>7. f[y] = IF s = p THEN <<p, j + 1>> ELSE <<s, j>>
      BY <3>4
    <3> HIDE DEF f
    <3> QED BY <3>2, <3>4, <3>5, <3>6, <3>7
  <2> HIDE DEF Rest
  <2>3. f \in [Places(v) -> Rest]
    BY <2>1
  <2> QED BY <2>2, <2>3 DEF Injection, IsInjective
<1>5. IsFiniteSet(Rest) /\ Cardinality(Rest) = Cardinality(Places(u)) - 1
  BY <1>2, FS_RemoveElement
<1> HIDE DEF f, Rest
<1> QED BY <1>4, <1>5, FS_Injection

-------------------------------------------------------------------------------
\* What the feeder of a process in state r will yet send.
Sent(r) == IF r.feeder \in {"failed", "killed"} THEN <<>> ELSE r.hand \o r.buffer
Sending(s) == [p \in Procs |-> Sent(s[p])]

\* What the queue has accepted and not yet sent, as places.
LEMMA BehindIsPlaces == JQ!Behind = Places(Sending(q)) /\ JQ!Behind' = Places(Sending(q'))
<1>1. \A p \in Procs : Sending(q)[p] = JQ!Unsent(p) /\ Sending(q')[p] = JQ!Unsent(p)'
  BY DEF Sending, Sent, JQ!Unsent, JQ!Broken
<1>2. JQ!Behind = Places(Sending(q))
  BY <1>1 DEF JQ!Behind, JQ!Sentinel, Places
<1>3. JQ!Behind' = Places(Sending(q'))
  BY <1>1 DEF JQ!Behind, JQ!Sentinel, Places
<1> QED BY <1>2, <1>3

\* What p is about to do leaves the other processes as they are, but for where they wait.
OthersAlike(p) ==
  /\ q' \in [Procs -> QueueStates]
  /\ \A r \in Procs \ {p} :
       /\ Fit(q'[r]) /\ Sent(q'[r]) = Sent(q[r]) /\ q'[r].owed = q[r].owed
       /\ q'[r].pc \in {"enter", "append", "got"} <=> q[r].pc \in {"enter", "append", "got"}

\* How many items are on their way when p has acted, ...
LEMMA BehindStep ==
  ASSUME QueueIInv, NEW p \in Procs, OthersAlike(p)
  PROVE  /\ Sent(q'[p]) = Sent(q[p]) \/ Sent(q'[p]) = <<>> =>
              IsFiniteSet(JQ!Behind') /\ Cardinality(JQ!Behind') <= Cardinality(JQ!Behind)
         /\ \A x \in Nat : Sent(q'[p]) = Append(Sent(q[p]), x) =>
              /\ IsFiniteSet(JQ!Behind')
              /\ Cardinality(JQ!Behind') <= Cardinality(JQ!Behind) + (IF x = 0 THEN 0 ELSE 1)
         /\ Sent(q[p]) # <<>> /\ Sent(q[p])[1] # 0 /\ Sent(q'[p]) = Tail(Sent(q[p])) =>
              /\ IsFiniteSet(JQ!Behind')
              /\ Cardinality(JQ!Behind') <= Cardinality(JQ!Behind) - 1
         /\ Cardinality(JQ!Behind) \in Nat
         /\ IsFiniteSet(JQ!Behind') => Cardinality(JQ!Behind') \in Nat
<1> DEFINE u == Sending(q)
           v == Sending(q')
<1>1. /\ \A r \in Procs : u[r] = Sent(q[r]) /\ v[r] = Sent(q'[r])
      /\ \A r \in Procs \ {p} : v[r] = u[r]
  BY DEF OthersAlike, Sending
<1>2. JQ!Behind = Places(u) /\ JQ!Behind' = Places(v) /\ IsFiniteSet(Places(u))
  BY BehindIsPlaces DEF QueueIInv
<1>3. u[p] \in Seq(Nat)
  <2>1. q[p].hand \in Seq(Nat) /\ q[p].buffer \in Seq(Nat)
    BY DEF QueueIInv, Fit, QueueStates
  <2>2. q[p].hand \o q[p].buffer \in Seq(Nat) /\ <<>> \in Seq(Nat)
    BY <2>1, ConcatProperties, EmptySeq
  <2> QED BY <1>1, <2>2 DEF Sent
<1> HIDE DEF u, v
<1>4. ASSUME v[p] = u[p] PROVE Places(v) = Places(u)
  <2>1. \A r \in Procs : v[r] = u[r]
    BY <1>1, <1>4
  <2> QED BY <2>1 DEF Places
<1>5. Cardinality(Places(u)) \in Nat /\ (IsFiniteSet(Places(v)) => Cardinality(Places(v)) \in Nat)
  BY <1>2, FS_CardinalityType
<1>6. v[p] = u[p] \/ v[p] = <<>> =>
        IsFiniteSet(Places(v)) /\ Cardinality(Places(v)) <= Cardinality(Places(u))
  <2>1. CASE v[p] = u[p]
    <3>1. Cardinality(Places(v)) = Cardinality(Places(u)) /\ IsFiniteSet(Places(v))
      BY <1>2, <1>4, <2>1
    <3> QED BY <1>5, <3>1
  <2>2. CASE v[p] = <<>>
    BY <1>1, <1>2, <2>2, PlacesCleared
  <2> QED BY <2>1, <2>2
<1>7. \A x \in Nat : v[p] = Append(u[p], x) =>
        /\ IsFiniteSet(Places(v))
        /\ Cardinality(Places(v)) <= Cardinality(Places(u)) + (IF x = 0 THEN 0 ELSE 1)
  BY <1>1, <1>2, <1>3, PlacesAppended
<1>8. u[p] # <<>> /\ u[p][1] # 0 /\ v[p] = Tail(u[p]) =>
        IsFiniteSet(Places(v)) /\ Cardinality(Places(v)) <= Cardinality(Places(u)) - 1
  BY <1>1, <1>2, <1>3, PlacesTaken
<1>9. u[p] = Sent(q[p]) /\ v[p] = Sent(q'[p])
  BY <1>1
<1> QED BY <1>2, <1>5, <1>6, <1>7, <1>8, <1>9

\* ... how many have been received and are not done, ...
LEMMA OwedStep ==
  ASSUME QueueIInv, NEW p \in Procs, OthersAlike(p), q'[p].owed \in Nat
  PROVE  /\ q'[p].owed <= q[p].owed =>
              IsFiniteSet(JQ!Owed') /\ Cardinality(JQ!Owed') <= Cardinality(JQ!Owed)
         /\ q'[p].owed = q[p].owed + 1 =>
              IsFiniteSet(JQ!Owed') /\ Cardinality(JQ!Owed') <= Cardinality(JQ!Owed) + 1
         /\ q'[p].owed = q[p].owed - 1 =>
              IsFiniteSet(JQ!Owed') /\ Cardinality(JQ!Owed') <= Cardinality(JQ!Owed) - 1
         /\ Cardinality(JQ!Owed) \in Nat
         /\ IsFiniteSet(JQ!Owed') => Cardinality(JQ!Owed') \in Nat
<1> DEFINE n == q[p].owed
<1>1. n \in Nat /\ IsFiniteSet(JQ!Owed)
  BY DEF QueueIInv, Fit, QueueStates
<1>2. \A x : x \in JQ!Owed <=> \E r \in Procs : \E i \in 1 .. q[r].owed : x = <<r, i>>
  BY DEF JQ!Owed
<1>3. \A x : x \in JQ!Owed' <=> \E r \in Procs : \E i \in 1 .. q'[r].owed : x = <<r, i>>
  BY DEF JQ!Owed
<1>4. \A r \in Procs \ {p} : q'[r].owed = q[r].owed
  BY DEF OthersAlike
<1>5. ASSUME q'[p].owed <= n PROVE JQ!Owed' \subseteq JQ!Owed
  <2> SUFFICES ASSUME NEW r \in Procs, NEW i \in 1 .. q'[r].owed PROVE <<r, i>> \in JQ!Owed
    BY <1>3
  <2>1. i \in 1 .. q[r].owed
    BY <1>1, <1>4, <1>5
  <2> QED BY <1>2, <2>1
<1>6. ASSUME q'[p].owed = n + 1 PROVE JQ!Owed' \subseteq JQ!Owed \cup {<<p, n + 1>>}
  <2> SUFFICES ASSUME NEW r \in Procs, NEW i \in 1 .. q'[r].owed
               PROVE  <<r, i>> \in JQ!Owed \cup {<<p, n + 1>>}
    BY <1>3
  <2>1. i \in 1 .. q[r].owed \/ (r = p /\ i = n + 1)
    BY <1>1, <1>4, <1>6
  <2> QED BY <1>2, <2>1
<1>7. ASSUME q'[p].owed = n - 1
      PROVE  <<p, n>> \in JQ!Owed /\ JQ!Owed' \subseteq JQ!Owed \ {<<p, n>>}
  <2>1. n \in 1 .. n
    BY <1>1, <1>7
  <2>2. <<p, n>> \in JQ!Owed
    BY <1>2, <2>1
  <2>3. ASSUME NEW r \in Procs, NEW i \in 1 .. q'[r].owed PROVE <<r, i>> \in JQ!Owed \ {<<p, n>>}
    <3>1. i \in 1 .. q[r].owed /\ ~(r = p /\ i = n)
      BY <1>1, <1>4, <1>7, <2>3
    <3> QED BY <1>2, <3>1
  <2> QED BY <1>3, <2>2, <2>3
<1> HIDE DEF n
<1>8. Cardinality(JQ!Owed) \in Nat /\ (IsFiniteSet(JQ!Owed') => Cardinality(JQ!Owed') \in Nat)
  BY <1>1, FS_CardinalityType
<1>9. q'[p].owed <= n =>
        IsFiniteSet(JQ!Owed') /\ Cardinality(JQ!Owed') <= Cardinality(JQ!Owed)
  BY <1>1, <1>5, FS_Subset
<1>10. ASSUME q'[p].owed = n + 1
       PROVE  IsFiniteSet(JQ!Owed') /\ Cardinality(JQ!Owed') <= Cardinality(JQ!Owed) + 1
  <2> DEFINE A == JQ!Owed \cup {<<p, n + 1>>}
  <2>1. /\ IsFiniteSet(A)
        /\ Cardinality(A) =
             IF <<p, n + 1>> \in JQ!Owed THEN Cardinality(JQ!Owed) ELSE Cardinality(JQ!Owed) + 1
    BY <1>1, FS_AddElement
  <2>2. IsFiniteSet(JQ!Owed') /\ Cardinality(JQ!Owed') <= Cardinality(A)
    BY <1>6, <1>10, <2>1, FS_Subset
  <2> HIDE DEF A
  <2> QED BY <1>8, <2>1, <2>2
<1>11. ASSUME q'[p].owed = n - 1
       PROVE  IsFiniteSet(JQ!Owed') /\ Cardinality(JQ!Owed') <= Cardinality(JQ!Owed) - 1
  <2> DEFINE A == JQ!Owed \ {<<p, n>>}
  <2>1. IsFiniteSet(A) /\ Cardinality(A) = Cardinality(JQ!Owed) - 1
    BY <1>1, <1>7, <1>11, FS_RemoveElement
  <2>2. IsFiniteSet(JQ!Owed') /\ Cardinality(JQ!Owed') <= Cardinality(A)
    BY <1>7, <1>11, <2>1, FS_Subset
  <2> HIDE DEF A
  <2> QED BY <2>1, <2>2
<1> QED BY <1>8, <1>9, <1>10, <1>11 DEF n

\* ... and how many clients have a permit.
LEMMA PermittedStep ==
  ASSUME QueueIInv, NEW p \in Procs, OthersAlike(p)
  PROVE  /\ q[p].pc \in {"enter", "append", "got"} \/ q'[p].pc \notin {"enter", "append", "got"} =>
              Cardinality(Permitted') <= Cardinality(Permitted)
         /\ q[p].pc \in {"enter", "append", "got"} /\ q'[p].pc \notin {"enter", "append", "got"} =>
              Cardinality(Permitted') <= Cardinality(Permitted) - 1
         /\ Cardinality(Permitted') <= Cardinality(Permitted) + 1
         /\ Cardinality(Permitted) \in Nat /\ Cardinality(Permitted') \in Nat
<1>1. /\ IsFiniteSet(Permitted) /\ Cardinality(Permitted) \in Nat
      /\ IsFiniteSet(Permitted') /\ Cardinality(Permitted') \in Nat
  <2>1. Permitted \subseteq Procs /\ Permitted' \subseteq Procs
    BY DEF Permitted
  <2>2. IsFiniteSet(Permitted) /\ IsFiniteSet(Permitted')
    BY <2>1, QueueConstants, FS_Subset
  <2> QED BY <2>2, FS_CardinalityType
<1>2. \A r \in Procs \ {p} : r \in Permitted' <=> r \in Permitted
  BY DEF OthersAlike, Permitted
<1>3. ASSUME q[p].pc \in {"enter", "append", "got"} \/ q'[p].pc \notin {"enter", "append", "got"}
      PROVE  Cardinality(Permitted') <= Cardinality(Permitted)
  <2>1. Permitted' \subseteq Permitted
    BY <1>2, <1>3 DEF Permitted
  <2> QED BY <1>1, <2>1, FS_Subset
<1>4. ASSUME q[p].pc \in {"enter", "append", "got"}, q'[p].pc \notin {"enter", "append", "got"}
      PROVE  Cardinality(Permitted') <= Cardinality(Permitted) - 1
  <2>1. Permitted' = Permitted \ {p} /\ p \in Permitted
    BY <1>2, <1>4 DEF Permitted
  <2>2. Cardinality(Permitted \ {p}) = Cardinality(Permitted) - 1
    BY <1>1, <2>1, FS_RemoveElement
  <2>3. Cardinality(Permitted') = Cardinality(Permitted \ {p})
    BY <2>1
  <2> QED BY <1>1, <2>2, <2>3
<1>5. Cardinality(Permitted') <= Cardinality(Permitted) + 1
  <2>1. Permitted' \subseteq Permitted \cup {p}
    BY <1>2 DEF Permitted
  <2>2. /\ IsFiniteSet(Permitted \cup {p})
        /\ Cardinality(Permitted \cup {p}) =
             IF p \in Permitted THEN Cardinality(Permitted) ELSE Cardinality(Permitted) + 1
    BY <1>1, FS_AddElement
  <2>3. Cardinality(Permitted') <= Cardinality(Permitted \cup {p})
    BY <2>1, <2>2, FS_Subset
  <2> QED BY <1>1, <2>2, <2>3
<1> QED BY <1>1, <1>3, <1>4, <1>5

-------------------------------------------------------------------------------
\* The state of p is replaced by r, and no other.
LEMMA OneProcess ==
  ASSUME QueueIInv, NEW p \in Procs, NEW r, Fit(r), q' = [q EXCEPT ![p] = r]
  PROVE  OthersAlike(p) /\ q'[p] = r /\ r.owed \in Nat /\ \A u \in Procs : Fit(q'[u])
<1>1. q \in [Procs -> QueueStates] /\ \A u \in Procs : Fit(q[u])
  BY DEF QueueIInv, QueueTypeOK
<1>2. r \in QueueStates /\ r.owed \in Nat
  BY DEF Fit, QueueStates
<1>3. q' \in [Procs -> QueueStates] /\ q'[p] = r /\ \A u \in Procs \ {p} : q'[u] = q[u]
  BY <1>1, <1>2
<1> QED BY <1>1, <1>2, <1>3 DEF OthersAlike

\* A step by which one process takes no permit and puts no item on its way.
LEMMA QuietStep ==
  ASSUME QueueIInv, NEW p \in Procs, NEW r, Fit(r), q' = [q EXCEPT ![p] = r],
         \/ Sent(r) = Sent(q[p]) \/ Sent(r) = <<>> \/ Sent(r) = Append(Sent(q[p]), 0),
         r.owed <= q[p].owed,
         r.pc \in {"enter", "append", "got"} => q[p].pc \in {"enter", "append", "got"},
         r.pc = "count" <=> q[p].pc = "count",
         {rlock', wlock'} \subseteq Procs \cup {None},
         UNCHANGED <<sem, pipe, unfinished, cond>>
  PROVE  QueueIInv'
<1>1. OthersAlike(p) /\ q'[p] = r /\ r.owed \in Nat /\ \A u \in Procs : Fit(q'[u])
  BY OneProcess
<1>2. /\ IsFiniteSet(JQ!Behind') /\ Cardinality(JQ!Behind') <= Cardinality(JQ!Behind)
      /\ Cardinality(JQ!Behind) \in Nat /\ Cardinality(JQ!Behind') \in Nat
  <2>1. CASE Sent(r) = Sent(q[p]) \/ Sent(r) = <<>>
    BY <1>1, <2>1, BehindStep
  <2>2. CASE Sent(r) = Append(Sent(q[p]), 0)
    <3>1. IsFiniteSet(JQ!Behind') /\ Cardinality(JQ!Behind') <= Cardinality(JQ!Behind) + 0
      BY <1>1, <2>2, BehindStep
    <3> QED BY <1>1, <3>1, BehindStep
  <2> QED BY <2>1, <2>2
<1>3. /\ IsFiniteSet(JQ!Owed') /\ Cardinality(JQ!Owed') <= Cardinality(JQ!Owed)
      /\ Cardinality(JQ!Owed) \in Nat /\ Cardinality(JQ!Owed') \in Nat
  BY <1>1, OwedStep
<1>4. /\ Cardinality(Permitted') <= Cardinality(Permitted)
      /\ Cardinality(Permitted) \in Nat /\ Cardinality(Permitted') \in Nat
  BY <1>1, PermittedStep
<1>5. QueueTypeOK' /\ CondHeld'
  BY <1>1 DEF OthersAlike, QueueIInv, QueueTypeOK, CondHeld
<1>6. sem \in Nat /\ unfinished \in Nat /\ Len(pipe) \in Nat
  BY LenProperties DEF QueueIInv, QueueTypeOK
<1>7. PermitsKept'
  BY <1>2, <1>4, <1>6, QueueConstants DEF QueueIInv, PermitsKept
<1>8. TasksCounted'
  BY <1>2, <1>3, <1>6 DEF QueueIInv, TasksCounted
<1> QED BY <1>1, <1>2, <1>3, <1>5, <1>7, <1>8 DEF QueueIInv

\* Where the client of a live process goes.
LEMMA PcChanges ==
  ASSUME NEW s, Fit(s), NEW x \in JQ!ClientPlaces, s.pc \notin {"exiting", "dead"},
         x \in {"enter", "append", "count"} => ~s.closed
  PROVE  /\ Fit([s EXCEPT !.pc = x]) /\ Sent([s EXCEPT !.pc = x]) = Sent(s)
         /\ [s EXCEPT !.pc = x].owed = s.owed /\ [s EXCEPT !.pc = x].pc = x
         /\ [s EXCEPT !.pc = x].feeder = s.feeder
<1> DEFINE r == [s EXCEPT !.pc = x]
<1>1. /\ r \in QueueStates /\ r.pc = x /\ r.feeder = s.feeder /\ r.buffer = s.buffer
      /\ r.hand = s.hand /\ r.told = s.told /\ r.closed = s.closed /\ r.owed = s.owed
  BY DEF Fit, QueueStates
<1> HIDE DEF r
<1>2. Sent(r) = Sent(s)
  BY <1>1 DEF Sent
<1>3. InHand(r) /\ SentinelLast(r) /\ NothingBehind(r)
  BY <1>1 DEF Fit, InHand, SentinelLast, NothingBehind
<1> QED BY <1>1, <1>2, <1>3 DEF Fit, r

\* A step by which the client of one process goes on, and no more.
LEMMA ClientGoesOn ==
  ASSUME QueueIInv, NEW p \in Procs, NEW x \in JQ!ClientPlaces \ {"count"},
         q[p].pc \notin {"count", "exiting", "dead"}, q' = [q EXCEPT ![p].pc = x],
         x \in {"enter", "append", "got"} => q[p].pc = "enter",
         {rlock', wlock'} \subseteq Procs \cup {None},
         UNCHANGED <<sem, pipe, unfinished, cond>>
  PROVE  QueueIInv'
<1> DEFINE s == q[p]
           r == [s EXCEPT !.pc = x]
<1>1. q' = [q EXCEPT ![p] = r] /\ Fit(s)
  BY DEF QueueIInv, QueueTypeOK
<1>2. s.owed \in Nat /\ (s.pc = "enter" => ~s.closed)
  BY <1>1 DEF Fit, QueueStates, SentinelLast
<1> HIDE DEF s
<1>3. Fit(r) /\ Sent(r) = Sent(s) /\ r.owed = s.owed /\ r.pc = x
  BY <1>1, <1>2, PcChanges DEF s
<1> HIDE DEF r
<1>4. s = q[p]
  BY DEF s
<1>5. r.owed <= q[p].owed
  BY <1>2, <1>3, <1>4
<1>6. /\ r.pc = "count" <=> q[p].pc = "count"
      /\ r.pc \in {"enter", "append", "got"} => q[p].pc \in {"enter", "append", "got"}
  BY <1>3
<1>7. Sent(r) = Sent(q[p])
  BY <1>3, <1>4
<1> QED BY <1>1, <1>3, <1>5, <1>6, <1>7, QuietStep

\* An item put at the end of the buffer is the last that the feeder will send.
LEMMA SentAppend ==
  ASSUME NEW h \in Seq(Nat), NEW b \in Seq(Nat), NEW x \in Nat
  PROVE  h \o Append(b, x) = Append(h \o b, x)
<1>1. <<x>> \in Seq(Nat) /\ h \o b \in Seq(Nat)
  BY ConcatProperties
<1>2. h \o Append(b, x) = h \o (b \o <<x>>)
  BY AppendIsConcat
<1>3. h \o (b \o <<x>>) = (h \o b) \o <<x>>
  BY <1>1, ConcatAssociative
<1>4. Append(h \o b, x) = (h \o b) \o <<x>>
  BY <1>1, AppendIsConcat
<1> QED BY <1>2, <1>3, <1>4

\* What close() and exit tell the feeder.
LEMMA TellSays ==
  ASSUME NEW s, Fit(s), s.pc = "out"
  PROVE  LET t == JQ!Tell(s) IN
         /\ t \in QueueStates /\ InHand(t) /\ NothingBehind(t)
         /\ \A i \in 1 .. Len(t.buffer) : t.buffer[i] = 0 => t.told /\ i = Len(t.buffer)
         /\ Sent(t) = Sent(s) \/ Sent(t) = Append(Sent(s), 0)
         /\ t.pc = "out" /\ t.owed = s.owed /\ t.closed = s.closed
<1> DEFINE t == JQ!Tell(s)
<1>1. s \in QueueStates /\ InHand(s) /\ SentinelLast(s) /\ NothingBehind(s)
  BY DEF Fit
<1>2. CASE s.told \/ s.feeder = "none"
  <2>1. t = s
    BY <1>2 DEF JQ!Tell, JQ!At, JQ!shared
  <2> HIDE DEF t
  <2>2. \A i \in 1 .. Len(s.buffer) : s.buffer[i] = 0 => s.told /\ i = Len(s.buffer)
    BY <1>1 DEF SentinelLast
  <2> QED BY <1>1, <2>1, <2>2 DEF t
<1>3. CASE ~s.told /\ s.feeder # "none"
  <2>1. t = [s EXCEPT !.told = TRUE, !.buffer = Append(s.buffer, 0),
                      !.feeder = IF s.feeder = "waiting" THEN "notified" ELSE s.feeder]
    BY <1>3 DEF JQ!Tell, JQ!Notified, JQ!Sentinel
  <2>2. s.buffer \in Seq(Nat) /\ s.hand \in Seq(Nat)
    BY <1>1 DEF QueueStates
  <2>3. /\ Append(s.buffer, 0) \in Seq(Nat) /\ Len(Append(s.buffer, 0)) = Len(s.buffer) + 1
        /\ \A i \in 1 .. Len(s.buffer) : Append(s.buffer, 0)[i] = s.buffer[i]
        /\ Len(s.buffer) \in Nat
    BY <2>2, AppendProperties, LenProperties
  <2>4. /\ t \in QueueStates
        /\ t.told = TRUE /\ t.buffer = Append(s.buffer, 0) /\ t.hand = s.hand
        /\ t.feeder = IF s.feeder = "waiting" THEN "notified" ELSE s.feeder
        /\ t.pc = "out" /\ t.owed = s.owed /\ t.closed = s.closed
    BY <1>1, <2>1, <2>3 DEF QueueStates, JQ!FeederPlaces, JQ!FeederStopped
  <2> HIDE DEF t
  <2>5. InHand(t)
    BY <1>1, <2>4 DEF InHand
  <2>6. NothingBehind(t)
    BY <1>1, <1>3, <2>4 DEF NothingBehind
  <2>7. \A i \in 1 .. Len(t.buffer) : t.buffer[i] = 0 => t.told /\ i = Len(t.buffer)
    <3> SUFFICES ASSUME NEW i \in 1 .. Len(t.buffer), t.buffer[i] = 0 PROVE i = Len(t.buffer)
      BY <2>4
    <3>1. \A j \in 1 .. Len(s.buffer) : s.buffer[j] # 0
      BY <1>1, <1>3 DEF SentinelLast
    <3>2. i \notin 1 .. Len(s.buffer)
      BY <2>3, <2>4, <3>1
    <3> QED BY <2>3, <2>4, <3>2
  <2>8. Sent(t) = Sent(s) \/ Sent(t) = Append(Sent(s), 0)
    <3>1. s.hand \o Append(s.buffer, 0) = Append(s.hand \o s.buffer, 0)
      BY <2>2, SentAppend
    <3>2. t.hand \o t.buffer = Append(s.hand \o s.buffer, 0)
      BY <2>4, <3>1
    <3>3. t.feeder \in {"failed", "killed"} <=> s.feeder \in {"failed", "killed"}
      BY <2>4
    <3> QED BY <3>2, <3>3 DEF Sent
  <2> QED BY <2>4, <2>5, <2>6, <2>7, <2>8 DEF t
<1> QED BY <1>2, <1>3

\* close() keeps the invariant: the feeder is told to end after what it has to send.
LEMMA CloseKeeps == ASSUME QueueIInv, NEW p \in Procs, JQ!Close(p) PROVE QueueIInv'
<1> DEFINE s == q[p]
           t == JQ!Tell(s)
           r == [t EXCEPT !.closed = TRUE]
<1>1. /\ q' = [q EXCEPT ![p] = r] /\ Fit(s) /\ s.pc = "out"
      /\ {rlock', wlock'} \subseteq Procs \cup {None}
      /\ UNCHANGED <<sem, pipe, unfinished, cond>>
  BY DEF QueueIInv, QueueTypeOK, JQ!Close, JQ!At, JQ!shared
<1>2. s.owed \in Nat
  BY <1>1 DEF Fit, QueueStates
<1> HIDE DEF s
<1>3. /\ t \in QueueStates /\ InHand(t) /\ NothingBehind(t)
      /\ \A i \in 1 .. Len(t.buffer) : t.buffer[i] = 0 => t.told /\ i = Len(t.buffer)
      /\ Sent(t) = Sent(s) \/ Sent(t) = Append(Sent(s), 0)
      /\ t.pc = "out" /\ t.owed = s.owed /\ t.closed = s.closed
  BY <1>1, TellSays
<1> HIDE DEF t
<1>4. /\ r \in QueueStates /\ r.closed = TRUE /\ r.feeder = t.feeder /\ r.buffer = t.buffer
      /\ r.hand = t.hand /\ r.told = t.told /\ r.owed = t.owed /\ r.pc = t.pc
  BY <1>3 DEF QueueStates, JQ!ClientPlaces
<1> HIDE DEF r
<1>5. Fit(r)
  BY <1>3, <1>4 DEF Fit, InHand, NothingBehind, SentinelLast
<1>6. Sent(r) = Sent(t)
  BY <1>4 DEF Sent
<1>7. s = q[p]
  BY DEF s
<1>8. r.owed <= q[p].owed
  BY <1>2, <1>3, <1>4, <1>7
<1>9. /\ r.pc = "count" <=> q[p].pc = "count"
      /\ r.pc \in {"enter", "append", "got"} => q[p].pc \in {"enter", "append", "got"}
  BY <1>1, <1>3, <1>4, <1>7
<1>10. Sent(r) = Sent(q[p]) \/ Sent(r) = Append(Sent(q[p]), 0)
  BY <1>3, <1>6, <1>7
<1> QED BY <1>1, <1>5, <1>8, <1>9, <1>10, QuietStep

\* A process that begins to exit keeps the invariant.
LEMMA ExitKeeps == ASSUME QueueIInv, NEW p \in Procs, JQ!Exit(p) PROVE QueueIInv'
<1> DEFINE s == q[p]
           t == JQ!Tell(s)
           r == [t EXCEPT !.pc = "exiting"]
<1>1. /\ q' = [q EXCEPT ![p] = r] /\ Fit(s) /\ s.pc = "out"
      /\ {rlock', wlock'} \subseteq Procs \cup {None}
      /\ UNCHANGED <<sem, pipe, unfinished, cond>>
  BY DEF QueueIInv, QueueTypeOK, JQ!Exit, JQ!At, JQ!shared
<1>2. s.owed \in Nat
  BY <1>1 DEF Fit, QueueStates
<1> HIDE DEF s
<1>3. /\ t \in QueueStates /\ InHand(t) /\ NothingBehind(t)
      /\ \A i \in 1 .. Len(t.buffer) : t.buffer[i] = 0 => t.told /\ i = Len(t.buffer)
      /\ Sent(t) = Sent(s) \/ Sent(t) = Append(Sent(s), 0)
      /\ t.pc = "out" /\ t.owed = s.owed /\ t.closed = s.closed
  BY <1>1, TellSays
<1> HIDE DEF t
<1>4. /\ r \in QueueStates /\ r.pc = "exiting" /\ r.feeder = t.feeder /\ r.buffer = t.buffer
      /\ r.hand = t.hand /\ r.told = t.told /\ r.owed = t.owed /\ r.closed = t.closed
  BY <1>3 DEF QueueStates, JQ!ClientPlaces
<1> HIDE DEF r
<1>5. Fit(r)
  BY <1>3, <1>4 DEF Fit, InHand, NothingBehind, SentinelLast
<1>6. Sent(r) = Sent(t)
  BY <1>4 DEF Sent
<1>7. s = q[p]
  BY DEF s
<1>8. r.owed <= q[p].owed
  BY <1>2, <1>3, <1>4, <1>7
<1>9. /\ r.pc = "count" <=> q[p].pc = "count"
      /\ r.pc \in {"enter", "append", "got"} => q[p].pc \in {"enter", "append", "got"}
  BY <1>1, <1>3, <1>4, <1>7
<1>10. Sent(r) = Sent(q[p]) \/ Sent(r) = Append(Sent(q[p]), 0)
  BY <1>3, <1>6, <1>7
<1> QED BY <1>1, <1>5, <1>8, <1>9, <1>10, QuietStep

\* cancel_join_thread() changes nothing that is sent.
LEMMA CancelJoinThreadKeeps ==
  ASSUME QueueIInv, NEW p \in Procs, JQ!CancelJoinThread(p) PROVE QueueIInv'
<1> DEFINE s == q[p]
           r == [s EXCEPT !.cancelled = TRUE]
<1>1. /\ q' = [q EXCEPT ![p] = r] /\ Fit(s)
      /\ {rlock', wlock'} \subseteq Procs \cup {None}
      /\ UNCHANGED <<sem, pipe, unfinished, cond>>
  BY DEF QueueIInv, QueueTypeOK, JQ!CancelJoinThread, JQ!shared
<1>2. s = q[p]
  OBVIOUS
<1> HIDE DEF s
<1>3. /\ r \in QueueStates /\ r.pc = s.pc /\ r.feeder = s.feeder /\ r.buffer = s.buffer
      /\ r.hand = s.hand /\ r.told = s.told /\ r.closed = s.closed /\ r.owed = s.owed
      /\ s.owed \in Nat
  BY <1>1 DEF Fit, QueueStates
<1> HIDE DEF r
<1>4. Fit(r)
  BY <1>1, <1>3 DEF Fit, InHand, NothingBehind, SentinelLast
<1>5. Sent(r) = Sent(q[p]) /\ r.pc = q[p].pc
  BY <1>2, <1>3 DEF Sent
<1>6. r.owed <= q[p].owed
  BY <1>2, <1>3
<1> QED BY <1>1, <1>4, <1>5, <1>6, QuietStep

\* A forked process begins with an empty buffer.
LEMMA ForkKeeps ==
  ASSUME QueueIInv, NEW p \in Procs, NEW child \in Procs, JQ!Fork(p, child) PROVE QueueIInv'
<1> DEFINE r == JQ!Fresh(p)
<1>1. /\ q' = [q EXCEPT ![child] = r] /\ Fit(q[child]) /\ q[child].pc = "unborn"
      /\ {rlock', wlock'} \subseteq Procs \cup {None}
      /\ UNCHANGED <<sem, pipe, unfinished, cond>>
  BY DEF QueueIInv, QueueTypeOK, JQ!Fork, JQ!At, JQ!shared
<1>2. q[child].owed \in Nat
  BY <1>1 DEF Fit, QueueStates
<1>3. <<>> \in Seq(Nat) /\ Len(<<>>) = 0
  BY EmptySeq
<1>4. /\ r \in QueueStates /\ r.pc = "out" /\ r.feeder = "none" /\ r.buffer = <<>>
      /\ r.hand = <<>> /\ ~r.told /\ ~r.closed /\ r.owed = 0
  BY <1>3 DEF JQ!Fresh, QueueStates, JQ!ClientPlaces, JQ!FeederPlaces, JQ!FeederStopped
<1> HIDE DEF r
<1>5. Fit(r)
  BY <1>3, <1>4 DEF Fit, InHand, NothingBehind, SentinelLast
<1>6. Sent(r) = <<>>
  BY <1>3, <1>4, ConcatEmptySeq DEF Sent
<1>7. r.owed <= q[child].owed
  BY <1>2, <1>4
<1>8. /\ r.pc = "count" <=> q[child].pc = "count"
      /\ r.pc \notin {"enter", "append", "got"}
  BY <1>1, <1>4
<1> QED BY <1>1, <1>5, <1>6, <1>7, <1>8, QuietStep

\* What a dying process had to send is lost.
LEMMA ExitEndKeeps ==
  ASSUME QueueIInv, NEW p \in Procs, JQ!ExitEnd(p) PROVE QueueIInv'
<1> DEFINE s == q[p]
           r == [s EXCEPT !.pc = "dead", !.buffer = <<>>, !.hand = <<>>,
                          !.told = FALSE, !.closed = FALSE, !.cancelled = FALSE,
                          !.feeder = IF s.feeder \in JQ!FeederStopped THEN s.feeder ELSE "killed"]
<1>0. q' = [q EXCEPT ![p] = r]
  BY DEF JQ!ExitEnd
<1> HIDE DEF r
<1>1. /\ q' = [q EXCEPT ![p] = r] /\ Fit(s) /\ s.pc = "exiting"
      /\ {rlock', wlock'} \subseteq Procs \cup {None}
      /\ UNCHANGED <<sem, pipe, unfinished, cond>>
  BY <1>0 DEF QueueIInv, QueueTypeOK, JQ!ExitEnd, JQ!At, JQ!shared
<1>2. s = q[p]
  OBVIOUS
<1> HIDE DEF s
<1>3. <<>> \in Seq(Nat) /\ Len(<<>>) = 0
  BY EmptySeq
<1>4. /\ r \in QueueStates /\ r.pc = "dead" /\ r.feeder \in JQ!FeederStopped /\ r.buffer = <<>>
      /\ r.hand = <<>> /\ ~r.told /\ ~r.closed /\ r.owed = s.owed /\ s.owed \in Nat
  BY <1>1, <1>3 DEF Fit, QueueStates, JQ!ClientPlaces, JQ!FeederPlaces, JQ!FeederStopped, r
<1> HIDE DEF r
<1>5. Fit(r)
  BY <1>3, <1>4 DEF Fit, InHand, NothingBehind, SentinelLast, JQ!FeederStopped
<1>6. Sent(r) = <<>>
  BY <1>3, <1>4, ConcatEmptySeq DEF Sent
<1>7. r.owed <= q[p].owed
  BY <1>2, <1>4
<1>8. /\ r.pc = "count" <=> q[p].pc = "count"
      /\ r.pc \notin {"enter", "append", "got"}
  BY <1>1, <1>2, <1>4
<1> QED BY <1>1, <1>5, <1>6, <1>7, <1>8, QuietStep

\* A step by which a feeder goes on with the same items.
LEMMA FeederGoesOn ==
  ASSUME QueueIInv, NEW p \in Procs, NEW x \in JQ!FeederPlaces \ JQ!FeederStopped,
         q[p].feeder \notin JQ!FeederStopped, q' = [q EXCEPT ![p].feeder = x],
         x \in {"lock", "send"} <=> q[p].feeder \in {"lock", "send"},
         {rlock', wlock'} \subseteq Procs \cup {None},
         UNCHANGED <<sem, pipe, unfinished, cond>>
  PROVE  QueueIInv'
<1> DEFINE s == q[p]
           r == [s EXCEPT !.feeder = x]
<1>1. q' = [q EXCEPT ![p] = r] /\ Fit(s)
  BY DEF QueueIInv, QueueTypeOK
<1>2. s = q[p]
  OBVIOUS
<1> HIDE DEF s
<1>3. /\ r \in QueueStates /\ r.pc = s.pc /\ r.feeder = x /\ r.buffer = s.buffer
      /\ r.hand = s.hand /\ r.told = s.told /\ r.closed = s.closed /\ r.owed = s.owed
      /\ s.owed \in Nat
  BY <1>1 DEF Fit, QueueStates
<1> HIDE DEF r
<1>4. x \notin {"none", "done", "failed", "killed"} /\ s.feeder \notin {"none", "done", "failed", "killed"}
  BY <1>2 DEF JQ!FeederStopped, JQ!FeederAt, JQ!shared
<1>5. Fit(r)
  BY <1>1, <1>2, <1>3, <1>4 DEF Fit, InHand, NothingBehind, SentinelLast
<1>6. Sent(r) = Sent(q[p]) /\ r.pc = q[p].pc
  BY <1>2, <1>3, <1>4 DEF Sent
<1>7. r.owed <= q[p].owed
  BY <1>2, <1>3
<1> QED BY <1>1, <1>5, <1>6, <1>7, QuietStep

\* send() raises: the feeder ends, and what it had to send stays where it is.
LEMMA FeedFailKeeps ==
  ASSUME QueueIInv, NEW p \in Procs, JQ!FeedFail(p) PROVE QueueIInv'
<1> DEFINE s == q[p]
           r == [s EXCEPT !.feeder = "failed", !.hand = <<>>]
<1>1. /\ q' = [q EXCEPT ![p] = r] /\ Fit(s)
      /\ {rlock', wlock'} \subseteq Procs \cup {None}
      /\ UNCHANGED <<sem, pipe, unfinished, cond>>
  BY DEF QueueIInv, QueueTypeOK, JQ!FeedFail, JQ!FeederAt
<1>2. s = q[p]
  OBVIOUS
<1> HIDE DEF s
<1>3. <<>> \in Seq(Nat)
  BY EmptySeq
<1>4. /\ r \in QueueStates /\ r.pc = s.pc /\ r.feeder = "failed" /\ r.buffer = s.buffer
      /\ r.hand = <<>> /\ r.told = s.told /\ r.closed = s.closed /\ r.owed = s.owed
      /\ s.owed \in Nat
  BY <1>1, <1>3 DEF Fit, QueueStates, JQ!FeederPlaces, JQ!FeederStopped
<1> HIDE DEF r
<1>5. Fit(r)
  BY <1>1, <1>4 DEF Fit, InHand, NothingBehind, SentinelLast
<1>6. Sent(r) = <<>> /\ r.pc = q[p].pc
  BY <1>2, <1>4 DEF Sent
<1>7. r.owed <= q[p].owed
  BY <1>2, <1>4
<1> QED BY <1>1, <1>5, <1>6, <1>7, QuietStep

\* popleft() moves an item from the buffer into the hand of the feeder, or finds the
\* sentinel, which has nothing behind it.
LEMMA FeedPopKeeps ==
  ASSUME QueueIInv, NEW p \in Procs, JQ!FeedPop(p) PROVE QueueIInv'
<1> DEFINE s == q[p]
           t == Tail(s.buffer)
<1>1. /\ Fit(s) /\ s.feeder = "pop"
      /\ q' = [q EXCEPT ![p] =
                 IF s.buffer = <<>> THEN [s EXCEPT !.feeder = "check"]
                 ELSE IF Head(s.buffer) = 0 THEN [s EXCEPT !.feeder = "done", !.buffer = t]
                 ELSE [s EXCEPT !.feeder = "lock", !.buffer = t, !.hand = <<Head(s.buffer)>>]]
      /\ {rlock', wlock'} \subseteq Procs \cup {None}
      /\ UNCHANGED <<sem, pipe, unfinished, cond>>
  BY DEF QueueIInv, QueueTypeOK, JQ!FeedPop, JQ!FeederAt, JQ!Sentinel, JQ!shared
<1>2. s = q[p]
  OBVIOUS
<1> HIDE DEF s
<1>3. s \in QueueStates /\ s.buffer \in Seq(Nat) /\ s.hand = <<>> /\ s.owed \in Nat
  BY <1>1 DEF Fit, QueueStates, InHand
<1>4. Sent(s) = s.buffer
  BY <1>1, <1>3, ConcatEmptySeq DEF Sent
<1>5. CASE s.buffer = <<>>
  <2>1. q' = [q EXCEPT ![p].feeder = "check"]
    BY <1>1, <1>2, <1>5 DEF QueueIInv, QueueTypeOK
  <2> QED BY <1>1, <1>2, <2>1, FeederGoesOn DEF JQ!FeederPlaces, JQ!FeederStopped
<1>6. ASSUME s.buffer # <<>>
      PROVE  /\ t \in Seq(Nat) /\ Len(t) = Len(s.buffer) - 1 /\ Len(s.buffer) \in Nat \ {0}
             /\ \A i \in 1 .. Len(t) : t[i] = s.buffer[i + 1]
             /\ Head(s.buffer) \in Nat /\ Head(s.buffer) = s.buffer[1]
  BY <1>3, <1>6, HeadTailProperties, EmptySeq
<1>7. ASSUME s.buffer # <<>>
      PROVE  \A i \in 1 .. Len(t) : t[i] = 0 => s.told /\ i = Len(t)
  <2> SUFFICES ASSUME NEW i \in 1 .. Len(t), t[i] = 0 PROVE s.told /\ i = Len(t)
    OBVIOUS
  <2>1. i + 1 \in 1 .. Len(s.buffer) /\ s.buffer[i + 1] = 0
    BY <1>6, <1>7
  <2>2. s.told /\ i + 1 = Len(s.buffer)
    BY <1>1, <2>1 DEF Fit, SentinelLast
  <2> QED BY <1>6, <1>7, <2>2
<1>8. CASE s.buffer # <<>> /\ Head(s.buffer) = 0
  <2> DEFINE r == [s EXCEPT !.feeder = "done", !.buffer = t]
  <2>1. q' = [q EXCEPT ![p] = r]
    BY <1>1, <1>8
  <2>2. s.told /\ t = <<>>
    <3>1. 1 \in 1 .. Len(s.buffer)
      BY <1>6, <1>8
    <3>2. s.told /\ 1 = Len(s.buffer)
      BY <1>1, <1>6, <1>8, <3>1 DEF Fit, SentinelLast
    <3>3. Len(t) = 0
      BY <1>6, <1>8, <3>2
    <3> QED BY <1>6, <1>8, <3>2, <3>3, EmptySeq
  <2>3. <<>> \in Seq(Nat) /\ Len(<<>>) = 0
    BY EmptySeq
  <2>4. /\ r \in QueueStates /\ r.pc = s.pc /\ r.feeder = "done" /\ r.buffer = <<>>
        /\ r.hand = <<>> /\ r.told = s.told /\ r.closed = s.closed /\ r.owed = s.owed
    BY <1>3, <2>2, <2>3 DEF QueueStates, JQ!FeederPlaces, JQ!FeederStopped
  <2> HIDE DEF r
  <2>5. Fit(r)
    BY <1>1, <2>2, <2>3, <2>4 DEF Fit, InHand, NothingBehind, SentinelLast
  <2>6. Sent(r) = <<>> /\ r.pc = q[p].pc
    BY <1>2, <2>3, <2>4, ConcatEmptySeq DEF Sent
  <2>7. r.owed <= q[p].owed
    BY <1>2, <1>3, <2>4
  <2> QED BY <1>1, <2>1, <2>5, <2>6, <2>7, QuietStep
<1>9. CASE s.buffer # <<>> /\ Head(s.buffer) # 0
  <2> DEFINE h == Head(s.buffer)
             r == [s EXCEPT !.feeder = "lock", !.buffer = t, !.hand = <<h>>]
  <2>1. q' = [q EXCEPT ![p] = r]
    BY <1>1, <1>9
  <2>2. t \in Seq(Nat) /\ <<h>> \in Seq(Nat) /\ Len(<<h>>) = 1 /\ <<h>>[1] # 0
    BY <1>6, <1>9
  <2>3. <<h>> \o t = s.buffer
    <3>1. /\ <<h>> \o t \in Seq(Nat) /\ Len(<<h>> \o t) = Len(s.buffer)
          /\ \A i \in 1 .. Len(s.buffer) : (<<h>> \o t)[i] = s.buffer[i]
      BY <1>6, <1>9, <2>2, ConcatProperties
    <3> QED BY <1>3, <3>1, SeqEqual
  <2> HIDE DEF h, t
  <2>4. /\ r \in QueueStates /\ r.pc = s.pc /\ r.feeder = "lock" /\ r.buffer = t
        /\ r.hand = <<h>> /\ r.told = s.told /\ r.closed = s.closed /\ r.owed = s.owed
    BY <1>3, <2>2 DEF QueueStates, JQ!FeederPlaces, JQ!FeederStopped
  <2> HIDE DEF r
  <2>5. Fit(r)
    BY <1>1, <1>7, <1>9, <2>2, <2>4 DEF Fit, InHand, NothingBehind, SentinelLast
  <2>6. Sent(r) = Sent(q[p]) /\ r.pc = q[p].pc
    BY <1>2, <1>4, <2>3, <2>4 DEF Sent
  <2>7. r.owed <= q[p].owed
    BY <1>2, <1>3, <2>4
  <2> QED BY <1>1, <2>1, <2>5, <2>6, <2>7, QuietStep
<1> QED BY <1>5, <1>8, <1>9

\* Items, permits and places for them: three numbers that go down together, and one more.
LEMMA StillRoom ==
  ASSUME NEW a \in Int, NEW b \in Int, NEW c \in Int, NEW d \in Int, NEW m \in Int,
         NEW a1 \in Int, NEW b1 \in Int, NEW c1 \in Int, NEW d1 \in Int,
         a + b + c + d <= m, a1 + b1 + d1 <= a + b + d, c1 <= c
  PROVE  a1 + b1 + c1 + d1 <= m
  OBVIOUS

\* What the lemmas on counts need to know of the numbers before a step.
LEMMA Numbers ==
  ASSUME QueueIInv
  PROVE  /\ sem \in Nat /\ unfinished \in Nat /\ Len(pipe) \in Nat /\ pipe \in Seq(Procs \X Nat)
         /\ sem + Cardinality(Permitted) + Cardinality(JQ!Behind) + Len(pipe) <= MaxSize
         /\ Len(pipe) + Cardinality(JQ!Behind) + Cardinality(JQ!Owed)
              <= unfinished + (IF cond = None THEN 0 ELSE 1)
         /\ MaxSize \in Nat
  BY QueueConstants, LenProperties DEF QueueIInv, QueueTypeOK, PermitsKept, TasksCounted

\* put() takes a permit.
LEMMA PutAcquireKeeps ==
  ASSUME QueueIInv, NEW p \in Procs, JQ!PutAcquire(p) PROVE QueueIInv'
<1> DEFINE s == q[p]
           r == [s EXCEPT !.pc = "enter"]
<1>1. /\ q' = [q EXCEPT ![p] = r] /\ Fit(s) /\ s.pc = "out" /\ ~s.closed
      /\ sem > 0 /\ sem' = sem - 1 /\ UNCHANGED <<rlock, wlock, pipe, unfinished, cond>>
  BY DEF QueueIInv, QueueTypeOK, JQ!PutAcquire, JQ!At
<1>2. s = q[p]
  OBVIOUS
<1> HIDE DEF s
<1>3. Fit(r) /\ Sent(r) = Sent(s) /\ r.owed = s.owed /\ r.pc = "enter" /\ s.owed \in Nat
  <2>1. s.owed \in Nat
    BY <1>1 DEF Fit, QueueStates
  <2>2. "enter" \in JQ!ClientPlaces
    BY DEF JQ!ClientPlaces
  <2> QED BY <1>1, <2>1, <2>2, PcChanges
<1> HIDE DEF r
<1>4. OthersAlike(p) /\ q'[p] = r /\ \A u \in Procs : Fit(q'[u])
  BY <1>1, <1>3, OneProcess
<1>5. /\ IsFiniteSet(JQ!Behind') /\ Cardinality(JQ!Behind') <= Cardinality(JQ!Behind)
      /\ Cardinality(JQ!Behind) \in Nat /\ Cardinality(JQ!Behind') \in Nat
  BY <1>2, <1>3, <1>4, BehindStep
<1>6. /\ IsFiniteSet(JQ!Owed') /\ Cardinality(JQ!Owed') <= Cardinality(JQ!Owed)
      /\ Cardinality(JQ!Owed) \in Nat /\ Cardinality(JQ!Owed') \in Nat
  BY <1>2, <1>3, <1>4, OwedStep
<1>7. /\ Cardinality(Permitted') <= Cardinality(Permitted) + 1
      /\ Cardinality(Permitted) \in Nat /\ Cardinality(Permitted') \in Nat
  BY <1>4, PermittedStep
<1>8. QueueTypeOK'
  BY <1>1, <1>4, Numbers DEF OthersAlike, QueueIInv, QueueTypeOK
<1>9. CondHeld'
  BY <1>1, <1>2, <1>3 DEF QueueIInv, QueueTypeOK, CondHeld
<1>10. PermitsKept'
  <2>1. sem' \in Nat /\ Len(pipe') = Len(pipe) /\ Len(pipe') \in Nat
    BY <1>1, Numbers
  <2>2. sem' + Cardinality(Permitted') + Len(pipe') <= sem + Cardinality(Permitted) + Len(pipe)
    BY SMTT(30), <1>1, <1>7, <2>1, Numbers
  <2>3. sem' \in Int /\ Len(pipe') \in Int
    BY <2>1
  <2>4. /\ sem \in Int /\ Len(pipe) \in Int /\ MaxSize \in Int
        /\ sem + Cardinality(Permitted) + Cardinality(JQ!Behind) + Len(pipe) <= MaxSize
    BY Numbers
  <2>5. sem' + Cardinality(Permitted') + Cardinality(JQ!Behind') + Len(pipe') <= MaxSize
    <3> DEFINE a == sem
               b == Cardinality(Permitted)
               c == Cardinality(JQ!Behind)
               d == Len(pipe)
               a1 == sem'
               b1 == Cardinality(Permitted')
               c1 == Cardinality(JQ!Behind')
               d1 == Len(pipe')
    <3>1. /\ a \in Int /\ b \in Int /\ c \in Int /\ d \in Int /\ MaxSize \in Int
          /\ a1 \in Int /\ b1 \in Int /\ c1 \in Int /\ d1 \in Int
      BY <1>5, <1>7, <2>3, <2>4
    <3>2. a + b + c + d <= MaxSize /\ a1 + b1 + d1 <= a + b + d /\ c1 <= c
      BY <1>5, <2>2, <2>4
    <3> HIDE DEF a, b, c, d, a1, b1, c1, d1
    <3>3. a1 + b1 + c1 + d1 <= MaxSize
      BY <3>1, <3>2
    <3> QED BY <3>3 DEF a1, b1, c1, d1
  <2> QED BY <2>5 DEF PermitsKept
<1>11. TasksCounted'
  BY <1>1, <1>5, <1>6, Numbers DEF TasksCounted
<1> QED BY <1>4, <1>5, <1>6, <1>8, <1>9, <1>10, <1>11 DEF QueueIInv

\* put() appends the item, for which it has a permit, and holds the lock of _cond until
\* it is counted.
LEMMA PutAppendKeeps ==
  ASSUME QueueIInv, NEW p \in Procs, JQ!PutAppend(p) PROVE QueueIInv'
<1> DEFINE s == q[p]
           n == s.puts + 1
           b == Append(s.buffer, n)
           r == [s EXCEPT !.pc = "count", !.puts = n,
                          !.feeder = IF s.feeder = "none" THEN "check" ELSE s.feeder,
                          !.buffer = b]
<1>1. /\ Fit(s) /\ s.pc = "append" /\ cond = None /\ cond' = p
      /\ UNCHANGED <<sem, rlock, wlock, pipe, unfinished>>
  BY DEF QueueIInv, JQ!PutAppend, JQ!At
<1>2. s = q[p]
  OBVIOUS
<1>3. s.feeder = "none" => s.buffer = <<>>
  BY <1>1 DEF Fit, NothingBehind
<1>4. q' = [q EXCEPT ![p] = r]
  <2>1. (IF JQ!FeederAt(p, "none") THEN <<>> ELSE s.buffer) = s.buffer
    BY <1>3 DEF JQ!FeederAt, JQ!FeederAt, JQ!shared
  <2>2. q' = [q EXCEPT ![p].pc = "count", ![p].puts = @ + 1,
               ![p].feeder = IF @ = "none" THEN "check" ELSE @,
               ![p].buffer = Append(s.buffer, s.puts + 1)]
    BY <2>1 DEF JQ!PutAppend
  <2>3. q \in [Procs -> QueueStates]
    BY DEF QueueIInv, QueueTypeOK
  <2> QED BY <2>2, <2>3
<1> HIDE DEF s
<1>5. s.buffer \in Seq(Nat) /\ s.hand \in Seq(Nat) /\ n \in Nat \ {0} /\ s.owed \in Nat
  BY <1>1 DEF Fit, QueueStates
<1> HIDE DEF n
<1>6. /\ b \in Seq(Nat) /\ Len(b) = Len(s.buffer) + 1 /\ Len(s.buffer) \in Nat
      /\ b[Len(s.buffer) + 1] = n /\ \A i \in 1 .. Len(s.buffer) : b[i] = s.buffer[i]
  BY <1>5, AppendProperties, LenProperties
<1>7. s.hand \o b = Append(s.hand \o s.buffer, n)
  BY <1>5, SentAppend
<1>8. ~s.closed /\ ~s.told /\ s.feeder # "done" /\ s.feeder # "killed"
  BY <1>1 DEF Fit, SentinelLast, NothingBehind
<1> HIDE DEF b
<1>9. /\ r \in QueueStates /\ r.pc = "count" /\ r.buffer = b
      /\ r.feeder = IF s.feeder = "none" THEN "check" ELSE s.feeder
      /\ r.hand = s.hand /\ r.told = s.told /\ r.closed = s.closed /\ r.owed = s.owed
  BY ZenonT(60), <1>1, <1>5, <1>6 DEF Fit, QueueStates, JQ!ClientPlaces, JQ!FeederPlaces, JQ!FeederStopped
<1> HIDE DEF r
<1>10. \A i \in 1 .. Len(b) : b[i] # 0
  <2>1. \A i \in 1 .. Len(s.buffer) : s.buffer[i] # 0
    BY <1>1, <1>8 DEF Fit, SentinelLast
  <2> SUFFICES ASSUME NEW i \in 1 .. Len(b) PROVE b[i] # 0
    OBVIOUS
  <2>2. i = Len(s.buffer) + 1 \/ i \in 1 .. Len(s.buffer)
    BY <1>6
  <2>3. CASE i = Len(s.buffer) + 1
    BY <1>5, <1>6, <2>3
  <2>4. CASE i \in 1 .. Len(s.buffer)
    BY <1>6, <2>1, <2>4
  <2> QED BY <2>2, <2>3, <2>4
<1>11. Fit(r)
  <2>1. InHand(r) /\ NothingBehind(r)
    BY <1>1, <1>8, <1>9 DEF Fit, InHand, NothingBehind
  <2>2. SentinelLast(r)
    BY <1>8, <1>9, <1>10 DEF SentinelLast
  <2> QED BY <1>9, <2>1, <2>2 DEF Fit
<1>12. Sent(r) = Sent(s) \/ Sent(r) = Append(Sent(s), n)
  BY <1>7, <1>9 DEF Sent
<1>13. OthersAlike(p) /\ q'[p] = r /\ \A u \in Procs : Fit(q'[u])
  BY <1>4, <1>11, OneProcess
<1>14. /\ IsFiniteSet(JQ!Behind') /\ Cardinality(JQ!Behind') <= Cardinality(JQ!Behind) + 1
       /\ Cardinality(JQ!Behind) \in Nat /\ Cardinality(JQ!Behind') \in Nat
  <2>1. CASE Sent(r) = Sent(s)
    BY <1>2, <1>13, <2>1, BehindStep
  <2>2. CASE Sent(r) = Append(Sent(s), n)
    <3>1. /\ IsFiniteSet(JQ!Behind')
          /\ Cardinality(JQ!Behind') <= Cardinality(JQ!Behind) + (IF n = 0 THEN 0 ELSE 1)
      BY <1>2, <1>5, <1>13, <2>2, BehindStep
    <3> QED BY <1>5, <1>13, <3>1, BehindStep
  <2> QED BY <1>12, <2>1, <2>2
<1>15. /\ IsFiniteSet(JQ!Owed') /\ Cardinality(JQ!Owed') <= Cardinality(JQ!Owed)
       /\ Cardinality(JQ!Owed) \in Nat /\ Cardinality(JQ!Owed') \in Nat
  BY <1>2, <1>5, <1>9, <1>13, OwedStep
<1>16. /\ Cardinality(Permitted') <= Cardinality(Permitted) - 1
       /\ Cardinality(Permitted) \in Nat /\ Cardinality(Permitted') \in Nat
  BY <1>1, <1>2, <1>9, <1>13, PermittedStep
<1>17. QueueTypeOK'
  BY <1>1, <1>13 DEF OthersAlike, QueueIInv, QueueTypeOK
<1>18. CondHeld'
  <2>1. \A u \in Procs : q[u].pc # "count"
    BY <1>1, QueueConstants DEF QueueIInv, CondHeld
  <2>2. \A u \in Procs \ {p} : q'[u].pc = q[u].pc
    BY <1>4 DEF QueueIInv, QueueTypeOK
  <2> QED BY <1>1, <1>9, <1>13, <2>1, <2>2 DEF CondHeld
<1>19. PermitsKept'
  BY SMTT(30), <1>1, <1>14, <1>16, Numbers DEF PermitsKept
<1>20. TasksCounted'
  <2>1. cond' # None
    BY <1>1, QueueConstants
  <2> QED BY <1>1, <1>14, <1>15, <2>1, Numbers DEF TasksCounted
<1> QED BY <1>13, <1>14, <1>15, <1>17, <1>18, <1>19, <1>20 DEF QueueIInv

\* put() counts the item.
LEMMA PutCountKeeps ==
  ASSUME QueueIInv, NEW p \in Procs, JQ!PutCount(p) PROVE QueueIInv'
<1> DEFINE s == q[p]
           f == IF s.feeder = "waiting" THEN "notified" ELSE s.feeder
           r == [s EXCEPT !.pc = "out", !.feeder = f]
<1>1. /\ q' = [q EXCEPT ![p] = r] /\ Fit(s) /\ s.pc = "count" /\ cond = p /\ cond' = None
      /\ unfinished' = unfinished + 1 /\ UNCHANGED <<sem, rlock, wlock, pipe>>
  BY DEF QueueIInv, QueueTypeOK, CondHeld, JQ!PutCount, JQ!At, JQ!Notified
<1>2. s = q[p]
  OBVIOUS
<1> HIDE DEF s
<1>3. /\ r \in QueueStates /\ r.pc = "out" /\ r.feeder = f /\ r.buffer = s.buffer
      /\ r.hand = s.hand /\ r.told = s.told /\ r.closed = s.closed /\ r.owed = s.owed
      /\ s.owed \in Nat
  BY <1>1 DEF Fit, QueueStates, JQ!ClientPlaces, JQ!FeederPlaces, JQ!FeederStopped
<1> HIDE DEF r
<1>4. Fit(r)
  BY <1>1, <1>3 DEF Fit, InHand, NothingBehind, SentinelLast
<1>5. Sent(r) = Sent(s)
  BY <1>3 DEF Sent
<1>6. OthersAlike(p) /\ q'[p] = r /\ \A u \in Procs : Fit(q'[u])
  BY <1>1, <1>4, OneProcess
<1>7. /\ IsFiniteSet(JQ!Behind') /\ Cardinality(JQ!Behind') <= Cardinality(JQ!Behind)
      /\ Cardinality(JQ!Behind) \in Nat /\ Cardinality(JQ!Behind') \in Nat
  BY <1>2, <1>5, <1>6, BehindStep
<1>8. /\ IsFiniteSet(JQ!Owed') /\ Cardinality(JQ!Owed') <= Cardinality(JQ!Owed)
      /\ Cardinality(JQ!Owed) \in Nat /\ Cardinality(JQ!Owed') \in Nat
  BY <1>2, <1>3, <1>6, OwedStep
<1>9. /\ Cardinality(Permitted') <= Cardinality(Permitted)
      /\ Cardinality(Permitted) \in Nat /\ Cardinality(Permitted') \in Nat
  BY <1>3, <1>6, PermittedStep
<1>10. QueueTypeOK'
  BY <1>1, <1>6, Numbers DEF OthersAlike, QueueIInv, QueueTypeOK
<1>11. CondHeld'
  <2>1. \A u \in Procs \ {p} : q'[u].pc = q[u].pc /\ q[u].pc # "count"
    BY <1>1 DEF QueueIInv, QueueTypeOK, CondHeld
  <2> QED BY <1>1, <1>3, <1>6, <2>1, QueueConstants DEF CondHeld
<1>12. PermitsKept'
  BY SMTT(30), <1>1, <1>7, <1>9, Numbers DEF PermitsKept
<1>13. TasksCounted'
  BY <1>1, <1>7, <1>8, Numbers, QueueConstants DEF TasksCounted
<1> QED BY <1>6, <1>7, <1>8, <1>10, <1>11, <1>12, <1>13 DEF QueueIInv

\* get() receives an item, which is owed from then on, ...
LEMMA ReceiveKeeps ==
  ASSUME QueueIInv, NEW p \in Procs, JQ!Receive(p) PROVE QueueIInv'
<1> DEFINE s == q[p]
           n == s.owed + 1
           r == [s EXCEPT !.pc = "got", !.owed = n]
<1>1. /\ q' = [q EXCEPT ![p] = r] /\ Fit(s) /\ s.pc = "receive" /\ pipe # <<>>
      /\ pipe' = Tail(pipe) /\ UNCHANGED <<sem, rlock, wlock, cond, unfinished>>
  BY DEF QueueIInv, QueueTypeOK, JQ!Receive, JQ!At
<1>2. s = q[p]
  OBVIOUS
<1> HIDE DEF s
<1>3. /\ r \in QueueStates /\ r.pc = "got" /\ r.feeder = s.feeder /\ r.buffer = s.buffer
      /\ r.hand = s.hand /\ r.told = s.told /\ r.closed = s.closed /\ r.owed = s.owed + 1
      /\ s.owed \in Nat
  <2>1. s.owed \in Nat /\ n \in Nat /\ n = s.owed + 1
    BY <1>1 DEF Fit, QueueStates
  <2> HIDE DEF n
  <2>2. /\ r \in QueueStates /\ r.pc = "got" /\ r.feeder = s.feeder /\ r.buffer = s.buffer
        /\ r.hand = s.hand /\ r.told = s.told /\ r.closed = s.closed /\ r.owed = n
    BY <1>1, <2>1 DEF Fit, QueueStates, JQ!ClientPlaces
  <2> QED BY <2>1, <2>2
<1> HIDE DEF r, n
<1>4. Fit(r)
  BY <1>1, <1>3 DEF Fit, InHand, NothingBehind, SentinelLast
<1>5. Sent(r) = Sent(s)
  BY <1>3 DEF Sent
<1>6. OthersAlike(p) /\ q'[p] = r /\ \A u \in Procs : Fit(q'[u])
  BY <1>1, <1>4, OneProcess
<1>7. /\ IsFiniteSet(JQ!Behind') /\ Cardinality(JQ!Behind') <= Cardinality(JQ!Behind)
      /\ Cardinality(JQ!Behind) \in Nat /\ Cardinality(JQ!Behind') \in Nat
  BY <1>2, <1>5, <1>6, BehindStep
<1>8. /\ IsFiniteSet(JQ!Owed') /\ Cardinality(JQ!Owed') <= Cardinality(JQ!Owed) + 1
      /\ Cardinality(JQ!Owed) \in Nat /\ Cardinality(JQ!Owed') \in Nat
  BY <1>2, <1>3, <1>6, OwedStep
<1>9. /\ Cardinality(Permitted') <= Cardinality(Permitted) + 1
      /\ Cardinality(Permitted) \in Nat /\ Cardinality(Permitted') \in Nat
  BY <1>6, PermittedStep
<1>10. pipe' \in Seq(Procs \X Nat) /\ Len(pipe') = Len(pipe) - 1 /\ Len(pipe) \in Nat
  BY <1>1, Numbers, HeadTailProperties
<1>11. QueueTypeOK'
  BY <1>1, <1>6, <1>10, QueueConstants DEF OthersAlike, QueueIInv, QueueTypeOK
<1>12. CondHeld'
  BY <1>1, <1>2, <1>3 DEF QueueIInv, QueueTypeOK, CondHeld
<1>13. PermitsKept'
  <2>1. sem' \in Nat /\ sem' = sem /\ Len(pipe') \in Int
    BY <1>1, <1>10, Numbers
  <2>2. sem' + Cardinality(Permitted') + Len(pipe') <= sem + Cardinality(Permitted) + Len(pipe)
    BY <1>9, <1>10, <2>1, Numbers
  <2> QED BY SMTT(30), <1>7, <1>9, <2>1, <2>2, Numbers, StillRoom DEF PermitsKept
<1>14. TasksCounted'
  BY SMTT(30), <1>1, <1>7, <1>8, <1>10, Numbers DEF TasksCounted
<1> QED BY <1>6, <1>7, <1>8, <1>11, <1>12, <1>13, <1>14 DEF QueueIInv

\* ... and gives the permit back.
LEMMA GetReturnKeeps ==
  ASSUME QueueIInv, NEW p \in Procs, JQ!GetReturn(p) PROVE QueueIInv'
<1> DEFINE s == q[p]
           r == [s EXCEPT !.pc = "out"]
<1>1. /\ q' = [q EXCEPT ![p] = r] /\ Fit(s) /\ s.pc = "got" /\ rlock' = None
      /\ sem' = sem + 1 /\ UNCHANGED <<wlock, pipe, unfinished, cond>>
  BY DEF QueueIInv, QueueTypeOK, JQ!GetReturn, JQ!At
<1>2. s = q[p]
  OBVIOUS
<1> HIDE DEF s
<1>3. Fit(r) /\ Sent(r) = Sent(s) /\ r.owed = s.owed /\ r.pc = "out" /\ s.owed \in Nat
  <2>1. s.owed \in Nat
    BY <1>1 DEF Fit, QueueStates
  <2>2. "out" \in JQ!ClientPlaces
    BY DEF JQ!ClientPlaces
  <2> QED BY <1>1, <2>1, <2>2, PcChanges
<1> HIDE DEF r
<1>4. OthersAlike(p) /\ q'[p] = r /\ \A u \in Procs : Fit(q'[u])
  BY <1>1, <1>3, OneProcess
<1>5. /\ IsFiniteSet(JQ!Behind') /\ Cardinality(JQ!Behind') <= Cardinality(JQ!Behind)
      /\ Cardinality(JQ!Behind) \in Nat /\ Cardinality(JQ!Behind') \in Nat
  BY <1>2, <1>3, <1>4, BehindStep
<1>6. /\ IsFiniteSet(JQ!Owed') /\ Cardinality(JQ!Owed') <= Cardinality(JQ!Owed)
      /\ Cardinality(JQ!Owed) \in Nat /\ Cardinality(JQ!Owed') \in Nat
  BY <1>2, <1>3, <1>4, OwedStep
<1>7. /\ Cardinality(Permitted') <= Cardinality(Permitted) - 1
      /\ Cardinality(Permitted) \in Nat /\ Cardinality(Permitted') \in Nat
  BY <1>1, <1>2, <1>3, <1>4, PermittedStep
<1>8. QueueTypeOK'
  BY <1>1, <1>4, Numbers DEF OthersAlike, QueueIInv, QueueTypeOK
<1>9. CondHeld'
  BY <1>1, <1>2, <1>3 DEF QueueIInv, QueueTypeOK, CondHeld
<1>10. PermitsKept'
  <2>1. sem' \in Nat /\ Len(pipe') = Len(pipe) /\ Len(pipe') \in Nat
    BY <1>1, Numbers
  <2>2. sem' + Cardinality(Permitted') + Len(pipe') <= sem + Cardinality(Permitted) + Len(pipe)
    BY SMTT(30), <1>1, <1>7, <2>1, Numbers
  <2>3. sem' \in Int /\ Len(pipe') \in Int
    BY <2>1
  <2>4. /\ sem \in Int /\ Len(pipe) \in Int /\ MaxSize \in Int
        /\ sem + Cardinality(Permitted) + Cardinality(JQ!Behind) + Len(pipe) <= MaxSize
    BY Numbers
  <2>5. sem' + Cardinality(Permitted') + Cardinality(JQ!Behind') + Len(pipe') <= MaxSize
    <3> DEFINE a == sem
               b == Cardinality(Permitted)
               c == Cardinality(JQ!Behind)
               d == Len(pipe)
               a1 == sem'
               b1 == Cardinality(Permitted')
               c1 == Cardinality(JQ!Behind')
               d1 == Len(pipe')
    <3>1. /\ a \in Int /\ b \in Int /\ c \in Int /\ d \in Int /\ MaxSize \in Int
          /\ a1 \in Int /\ b1 \in Int /\ c1 \in Int /\ d1 \in Int
      BY <1>5, <1>7, <2>3, <2>4
    <3>2. a + b + c + d <= MaxSize /\ a1 + b1 + d1 <= a + b + d /\ c1 <= c
      BY <1>5, <2>2, <2>4
    <3> HIDE DEF a, b, c, d, a1, b1, c1, d1
    <3>3. a1 + b1 + c1 + d1 <= MaxSize
      BY <3>1, <3>2
    <3> QED BY <3>3 DEF a1, b1, c1, d1
  <2> QED BY <2>5 DEF PermitsKept
<1>11. TasksCounted'
  BY <1>1, <1>5, <1>6, Numbers DEF TasksCounted
<1> QED BY <1>4, <1>5, <1>6, <1>8, <1>9, <1>10, <1>11 DEF QueueIInv

\* task_done() is one for each item received; the last wakes those in join().
LEMMA TaskDoneKeeps ==
  ASSUME QueueIInv, NEW p \in Procs, JQ!TaskDone(p) PROVE QueueIInv'
<1> DEFINE J == JQ!JoinersNotified
           w == IF unfinished' = 0 THEN J ELSE q
           s == q[p]
           n == s.owed - 1
           r == [s EXCEPT !.owed = n]
<1>1. /\ q \in [Procs -> QueueStates] /\ \A u \in Procs : Fit(q[u])
      /\ s.pc = "out" /\ s.owed > 0 /\ cond = None /\ unfinished' = unfinished - 1
      /\ q' = [w EXCEPT ![p].owed = @ - 1]
      /\ UNCHANGED <<sem, rlock, wlock, cond, pipe>>
  BY DEF QueueIInv, QueueTypeOK, JQ!TaskDone, JQ!At
<1>2. \A u \in Procs :
        /\ J[u] = IF q[u].pc = "joining" THEN [q[u] EXCEPT !.pc = "joined"] ELSE q[u]
        /\ Fit(J[u]) /\ Sent(J[u]) = Sent(q[u]) /\ J[u].owed = q[u].owed
        /\ J[u].pc = IF q[u].pc = "joining" THEN "joined" ELSE q[u].pc
  <2> SUFFICES ASSUME NEW u \in Procs
               PROVE  /\ J[u] = IF q[u].pc = "joining" THEN [q[u] EXCEPT !.pc = "joined"] ELSE q[u]
                      /\ Fit(J[u]) /\ Sent(J[u]) = Sent(q[u]) /\ J[u].owed = q[u].owed
                      /\ J[u].pc = IF q[u].pc = "joining" THEN "joined" ELSE q[u].pc
    OBVIOUS
  <2>1. J[u] = IF q[u].pc = "joining" THEN [q[u] EXCEPT !.pc = "joined"] ELSE q[u]
    BY DEF JQ!JoinersNotified, JQ!At
  <2>2. "joined" \in JQ!ClientPlaces
    BY DEF JQ!ClientPlaces
  <2> HIDE DEF J
  <2>3. CASE q[u].pc = "joining"
    <3> DEFINE a == q[u]
    <3>1. a.pc = "joining" /\ Fit(a) /\ J[u] = [a EXCEPT !.pc = "joined"]
      BY <1>1, <2>1, <2>3
    <3> HIDE DEF a
    <3>2. /\ Fit([a EXCEPT !.pc = "joined"]) /\ Sent([a EXCEPT !.pc = "joined"]) = Sent(a)
          /\ [a EXCEPT !.pc = "joined"].owed = a.owed
          /\ [a EXCEPT !.pc = "joined"].pc = "joined"
      BY <2>2, <3>1, PcChanges
    <3> QED BY <2>1, <2>3, <3>1, <3>2 DEF a
  <2>4. CASE q[u].pc # "joining"
    BY <1>1, <2>1, <2>4
  <2> QED BY <2>1, <2>3, <2>4
<1>3. /\ \A u \in Procs : /\ Fit(w[u]) /\ Sent(w[u]) = Sent(q[u]) /\ w[u].owed = q[u].owed
                          /\ w[u].pc = q[u].pc \/ (q[u].pc = "joining" /\ w[u].pc = "joined")
      /\ w[p] = s /\ w \in [Procs -> QueueStates]
  <2>1. J \in [Procs -> QueueStates]
    <3>1. \A u \in Procs : J[u] \in QueueStates
      BY <1>2 DEF Fit
    <3> QED BY <3>1 DEF JQ!JoinersNotified
  <2> HIDE DEF J
  <2> QED BY <1>1, <1>2, <2>1
<1> HIDE DEF J, w
<1>4. q' = [w EXCEPT ![p] = r]
  BY <1>1, <1>3
<1>5. s = q[p] /\ Fit(s)
  BY <1>1
<1> HIDE DEF s
<1>6. s.owed \in Nat /\ n \in Nat /\ n = s.owed - 1
  BY <1>1, <1>5 DEF Fit, QueueStates
<1> HIDE DEF n
<1>7. /\ r \in QueueStates /\ r.pc = s.pc /\ r.feeder = s.feeder /\ r.buffer = s.buffer
      /\ r.hand = s.hand /\ r.told = s.told /\ r.closed = s.closed /\ r.owed = n
  BY <1>5, <1>6 DEF Fit, QueueStates
<1> HIDE DEF r
<1>8. Fit(r)
  BY <1>5, <1>7 DEF Fit, InHand, NothingBehind, SentinelLast
<1>9. Sent(r) = Sent(s)
  BY <1>7 DEF Sent
<1>10. /\ q' \in [Procs -> QueueStates] /\ q'[p] = r
       /\ \A u \in Procs \ {p} : q'[u] = w[u]
  BY <1>3, <1>4, <1>7
<1>11. OthersAlike(p) /\ \A u \in Procs : Fit(q'[u])
  <2>1. ASSUME NEW u \in Procs \ {p}
        PROVE  /\ Fit(q'[u]) /\ Sent(q'[u]) = Sent(q[u]) /\ q'[u].owed = q[u].owed
               /\ q'[u].pc \in {"enter", "append", "got"} <=> q[u].pc \in {"enter", "append", "got"}
    BY <1>3, <1>10
  <2> QED BY <1>8, <1>10, <2>1 DEF OthersAlike
<1>12. /\ IsFiniteSet(JQ!Behind') /\ Cardinality(JQ!Behind') <= Cardinality(JQ!Behind)
       /\ Cardinality(JQ!Behind) \in Nat /\ Cardinality(JQ!Behind') \in Nat
  BY <1>5, <1>9, <1>10, <1>11, BehindStep
<1>13. /\ IsFiniteSet(JQ!Owed') /\ Cardinality(JQ!Owed') <= Cardinality(JQ!Owed) - 1
       /\ Cardinality(JQ!Owed) \in Nat /\ Cardinality(JQ!Owed') \in Nat
  BY <1>5, <1>6, <1>7, <1>10, <1>11, OwedStep
<1>14. /\ Cardinality(Permitted') <= Cardinality(Permitted)
       /\ Cardinality(Permitted) \in Nat /\ Cardinality(Permitted') \in Nat
  <2>1. q'[p].pc \notin {"enter", "append", "got"}
    BY <1>1, <1>5, <1>7, <1>10
  <2> QED BY <1>11, <2>1, PermittedStep
<1>15. Len(pipe') = Len(pipe) /\ Len(pipe') \in Nat /\ cond' = None /\ sem' = sem
  BY <1>1, Numbers
<1>16. unfinished' \in Nat
  BY <1>1, <1>12, <1>13, Numbers
<1>17. QueueTypeOK'
  BY <1>1, <1>11, <1>16 DEF OthersAlike, QueueIInv, QueueTypeOK
<1>18. CondHeld'
  <2>1. \A u \in Procs : q'[u].pc = "count" <=> q[u].pc = "count"
    BY <1>1, <1>3, <1>5, <1>7, <1>10
  <2> QED BY <1>1, <2>1 DEF QueueIInv, CondHeld
<1>19. PermitsKept'
  BY SMTT(30), <1>12, <1>14, <1>15, Numbers DEF PermitsKept
<1>20. TasksCounted'
  BY SMTT(30), <1>1, <1>12, <1>13, <1>15, <1>16, Numbers DEF TasksCounted
<1> QED BY <1>11, <1>12, <1>13, <1>17, <1>18, <1>19, <1>20 DEF QueueIInv

\* send() moves the item in hand into the pipe.
LEMMA FeedSendKeeps ==
  ASSUME QueueIInv, NEW p \in Procs, JQ!FeedSend(p) PROVE QueueIInv'
<1> DEFINE s == q[p]
           h == s.hand[1]
           r == [s EXCEPT !.feeder = "unlock", !.hand = <<>>]
<1>1. /\ q' = [q EXCEPT ![p] = r] /\ Fit(s) /\ s.feeder = "send" /\ Len(pipe) < PipeSize
      /\ pipe' = Append(pipe, <<p, h>>) /\ UNCHANGED <<sem, rlock, wlock, cond, unfinished>>
  BY DEF QueueIInv, QueueTypeOK, JQ!FeedSend, JQ!FeederAt
<1>2. s = q[p]
  OBVIOUS
<1> HIDE DEF s
<1>3. <<>> \in Seq(Nat) /\ Len(<<>>) = 0
  BY EmptySeq
<1>4. /\ r \in QueueStates /\ r.pc = s.pc /\ r.feeder = "unlock" /\ r.buffer = s.buffer
      /\ r.hand = <<>> /\ r.told = s.told /\ r.closed = s.closed /\ r.owed = s.owed
      /\ s.owed \in Nat
  BY <1>1, <1>3 DEF Fit, QueueStates, JQ!FeederPlaces, JQ!FeederStopped
<1> HIDE DEF r
<1>5. Fit(r)
  BY <1>1, <1>4 DEF Fit, InHand, NothingBehind, SentinelLast
<1>6. /\ s.hand \in Seq(Nat) /\ s.buffer \in Seq(Nat) /\ Len(s.hand) = 1 /\ h # 0
      /\ h \in Nat /\ s.hand # <<>>
  <2>1. s.hand \in Seq(Nat) /\ s.buffer \in Seq(Nat) /\ Len(s.hand) = 1 /\ h # 0
    BY <1>1 DEF Fit, QueueStates, InHand
  <2>2. h \in Nat
    BY <2>1, ElementOfSeq
  <2> QED BY <1>3, <2>1, <2>2
<1>7. /\ Sent(s) = s.hand \o s.buffer /\ Sent(s) # <<>> /\ Sent(s)[1] = h
      /\ Tail(Sent(s)) = s.buffer
  <2> DEFINE c == s.hand \o s.buffer
  <2>1. /\ c \in Seq(Nat) /\ Len(c) = Len(s.buffer) + 1 /\ c[1] = h /\ Len(s.buffer) \in Nat
        /\ \A i \in 1 .. Len(s.buffer) : c[i + 1] = s.buffer[i]
    <3>1. /\ c \in Seq(Nat) /\ Len(c) = Len(s.hand) + Len(s.buffer)
          /\ \A i \in 1 .. Len(s.hand) + Len(s.buffer) :
               c[i] = IF i <= Len(s.hand) THEN s.hand[i] ELSE s.buffer[i - Len(s.hand)]
          /\ Len(s.buffer) \in Nat
      BY <1>6, ConcatProperties, LenProperties
    <3> HIDE DEF c
    <3>2. \A i \in 1 .. 1 + Len(s.buffer) :
            c[i] = IF i <= 1 THEN s.hand[i] ELSE s.buffer[i - 1]
      BY <1>6, <3>1
    <3> HIDE DEF h
    <3>3. c[1] = s.hand[1]
      <4>1. 1 \in 1 .. 1 + Len(s.buffer) /\ 1 <= 1
        BY <3>1
      <4> QED BY <3>2, <4>1
    <3>4. \A i \in 1 .. Len(s.buffer) : c[i + 1] = s.buffer[i]
      <4> SUFFICES ASSUME NEW i \in 1 .. Len(s.buffer) PROVE c[i + 1] = s.buffer[i]
        OBVIOUS
      <4>1. i + 1 \in 1 .. 1 + Len(s.buffer) /\ ~(i + 1 <= 1) /\ (i + 1) - 1 = i
        BY <3>1
      <4> QED BY <3>2, <4>1
    <3> QED BY <1>6, <3>1, <3>3, <3>4 DEF h
  <2>2. Sent(s) = c
    BY <1>1 DEF Sent
  <2> HIDE DEF c
  <2>3. c # <<>>
    BY <1>3, <2>1
  <2>4. /\ Tail(c) \in Seq(Nat) /\ Len(Tail(c)) = Len(s.buffer)
        /\ \A i \in 1 .. Len(s.buffer) : Tail(c)[i] = s.buffer[i]
    BY <2>1, <2>3, HeadTailProperties
  <2>5. Tail(c) = s.buffer
    BY <1>6, <2>4, SeqEqual
  <2> QED BY <2>1, <2>2, <2>3, <2>5 DEF c
<1>8. Sent(r) = s.buffer
  BY <1>4, <1>6, ConcatEmptySeq DEF Sent
<1>9. OthersAlike(p) /\ q'[p] = r /\ \A u \in Procs : Fit(q'[u])
  BY <1>1, <1>5, OneProcess
<1>10. /\ IsFiniteSet(JQ!Behind') /\ Cardinality(JQ!Behind') <= Cardinality(JQ!Behind) - 1
       /\ Cardinality(JQ!Behind) \in Nat /\ Cardinality(JQ!Behind') \in Nat
  BY <1>2, <1>6, <1>7, <1>8, <1>9, BehindStep
<1>11. /\ IsFiniteSet(JQ!Owed') /\ Cardinality(JQ!Owed') <= Cardinality(JQ!Owed)
       /\ Cardinality(JQ!Owed) \in Nat /\ Cardinality(JQ!Owed') \in Nat
  BY <1>2, <1>4, <1>9, OwedStep
<1>12. /\ Cardinality(Permitted') <= Cardinality(Permitted)
       /\ Cardinality(Permitted) \in Nat /\ Cardinality(Permitted') \in Nat
  BY <1>2, <1>4, <1>9, PermittedStep
<1>13. /\ pipe' \in Seq(Procs \X Nat) /\ Len(pipe') = Len(pipe) + 1 /\ Len(pipe') \in Nat
  <2>1. <<p, h>> \in Procs \X Nat
    BY <1>6
  <2> QED BY <1>1, <2>1, Numbers, AppendProperties
<1>14. QueueTypeOK'
  <2>1. Len(pipe') <= PipeSize
    BY <1>1, <1>13, Numbers, QueueConstants
  <2> QED BY <1>1, <1>9, <1>13, <2>1 DEF OthersAlike, QueueIInv, QueueTypeOK
<1>15. CondHeld'
  BY <1>1, <1>2, <1>4 DEF QueueIInv, QueueTypeOK, CondHeld
<1>16. PermitsKept'
  BY SMTT(30), <1>1, <1>10, <1>12, <1>13, Numbers DEF PermitsKept
<1>17. TasksCounted'
  BY SMTT(30), <1>1, <1>10, <1>11, <1>13, Numbers DEF TasksCounted
<1> QED BY <1>9, <1>10, <1>11, <1>14, <1>15, <1>16, <1>17 DEF QueueIInv

\* The other operations of a client, which only go on to another place, ...
LEMMA QueueClientKeeps ==
  ASSUME QueueIInv, NEW p \in Procs,
         \/ JQ!PutEnter(p) \/ JQ!Get(p) \/ JQ!GetEmpty(p) \/ JQ!Join(p) \/ JQ!JoinReturn(p)
         \/ JQ!JoinThread(p) \/ JQ!JoinThreadReturn(p)
  PROVE  QueueIInv'
<1>1. {"append", "receive", "out", "joining", "flushing"} \subseteq JQ!ClientPlaces \ {"count"}
  BY DEF JQ!ClientPlaces
<1>2. {rlock, wlock} \subseteq Procs \cup {None}
  BY DEF QueueIInv, QueueTypeOK
<1>3. CASE JQ!PutEnter(p)
  <2>1. /\ q[p].pc = "enter" /\ q' = [q EXCEPT ![p].pc = "append"]
        /\ UNCHANGED <<sem, rlock, wlock, cond, pipe, unfinished>>
    BY <1>3 DEF JQ!PutEnter, JQ!At, JQ!shared
  <2> QED BY <1>1, <1>2, <2>1, ClientGoesOn
<1>4. CASE JQ!Get(p)
  <2>1. /\ q[p].pc = "out" /\ q' = [q EXCEPT ![p].pc = "receive"] /\ rlock' = p
        /\ UNCHANGED <<sem, wlock, cond, pipe, unfinished>>
    BY <1>4 DEF JQ!Get, JQ!At, JQ!shared
  <2> QED BY <1>1, <1>2, <2>1, ClientGoesOn
<1>5. CASE JQ!GetEmpty(p)
  <2>1. /\ q[p].pc = "receive" /\ q' = [q EXCEPT ![p].pc = "out"] /\ rlock' = None
        /\ UNCHANGED <<sem, wlock, cond, pipe, unfinished>>
    BY <1>5 DEF JQ!GetEmpty, JQ!At, JQ!shared
  <2> QED BY <1>1, <1>2, <2>1, ClientGoesOn
<1>6. CASE JQ!Join(p)
  <2>1. /\ q[p].pc = "out" /\ q' = [q EXCEPT ![p].pc = "joining"]
        /\ UNCHANGED <<sem, rlock, wlock, cond, pipe, unfinished>>
    BY <1>6 DEF JQ!Join, JQ!At, JQ!shared
  <2> QED BY <1>1, <1>2, <2>1, ClientGoesOn
<1>7. CASE JQ!JoinReturn(p)
  <2>1. /\ q[p].pc = "joined" /\ q' = [q EXCEPT ![p].pc = "out"]
        /\ UNCHANGED <<sem, rlock, wlock, cond, pipe, unfinished>>
    BY <1>7 DEF JQ!JoinReturn, JQ!At, JQ!shared
  <2> QED BY <1>1, <1>2, <2>1, ClientGoesOn
<1>8. CASE JQ!JoinThread(p)
  <2>1. /\ q[p].pc = "out" /\ q' = [q EXCEPT ![p].pc = "flushing"]
        /\ UNCHANGED <<sem, rlock, wlock, cond, pipe, unfinished>>
    BY <1>8 DEF JQ!JoinThread, JQ!At, JQ!shared
  <2> QED BY <1>1, <1>2, <2>1, ClientGoesOn
<1>9. CASE JQ!JoinThreadReturn(p)
  <2>1. /\ q[p].pc = "flushing" /\ q' = [q EXCEPT ![p].pc = "out"]
        /\ UNCHANGED <<sem, rlock, wlock, cond, pipe, unfinished>>
    BY <1>9 DEF JQ!JoinThreadReturn, JQ!At, JQ!shared
  <2> QED BY <1>1, <1>2, <2>1, ClientGoesOn
<1> QED BY <1>3, <1>4, <1>5, <1>6, <1>7, <1>8, <1>9

\* ... and those of a feeder.
LEMMA FeederKeeps ==
  ASSUME QueueIInv, NEW p \in Procs,
         JQ!FeedCheck(p) \/ JQ!FeedWake(p) \/ JQ!FeedLock(p) \/ JQ!FeedUnlock(p)
  PROVE  QueueIInv'
<1>1. /\ {"waiting", "pop", "send"} \subseteq JQ!FeederPlaces \ JQ!FeederStopped
      /\ {"check", "notified", "lock", "unlock"} \cap JQ!FeederStopped = {}
  BY DEF JQ!FeederPlaces, JQ!FeederStopped
<1>2. {rlock, wlock} \subseteq Procs \cup {None}
  BY DEF QueueIInv, QueueTypeOK
<1>3. CASE JQ!FeedCheck(p)
  <2> DEFINE x == IF q[p].buffer = <<>> THEN "waiting" ELSE "pop"
  <2>1. /\ q[p].feeder = "check" /\ q' = [q EXCEPT ![p].feeder = x]
        /\ UNCHANGED <<sem, rlock, wlock, cond, pipe, unfinished>>
    BY <1>3 DEF JQ!FeedCheck, JQ!FeederAt, JQ!shared
  <2>2. x \in {"waiting", "pop"}
    OBVIOUS
  <2> HIDE DEF x
  <2>3. /\ x \in JQ!FeederPlaces \ JQ!FeederStopped /\ x \notin {"lock", "send"}
        /\ q[p].feeder \notin JQ!FeederStopped /\ q[p].feeder \notin {"lock", "send"}
    BY <1>1, <2>1, <2>2
  <2> QED BY <1>2, <2>1, <2>3, FeederGoesOn
<1>4. CASE JQ!FeedWake(p)
  <2>1. /\ q[p].feeder = "notified" /\ q' = [q EXCEPT ![p].feeder = "pop"]
        /\ UNCHANGED <<sem, rlock, wlock, cond, pipe, unfinished>>
    BY <1>4 DEF JQ!FeedWake, JQ!FeederAt, JQ!shared
  <2> QED BY <1>1, <1>2, <2>1, FeederGoesOn
<1>5. CASE JQ!FeedLock(p)
  <2>1. /\ q[p].feeder = "lock" /\ q' = [q EXCEPT ![p].feeder = "send"] /\ wlock' = p
        /\ UNCHANGED <<sem, rlock, cond, pipe, unfinished>>
    BY <1>5 DEF JQ!FeedLock, JQ!FeederAt, JQ!shared
  <2> QED BY <1>1, <1>2, <2>1, FeederGoesOn
<1>6. CASE JQ!FeedUnlock(p)
  <2>1. /\ q[p].feeder = "unlock" /\ q' = [q EXCEPT ![p].feeder = "pop"] /\ wlock' = None
        /\ UNCHANGED <<sem, rlock, cond, pipe, unfinished>>
    BY <1>6 DEF JQ!FeedUnlock, JQ!FeederAt, JQ!shared
  <2> QED BY <1>1, <1>2, <2>1, FeederGoesOn
<1> QED BY <1>3, <1>4, <1>5, <1>6

\* At the start there is one process, and nothing was put.
LEMMA QueueInitIInv == JQ!Init => QueueIInv
<1> SUFFICES ASSUME JQ!Init PROVE QueueIInv
  OBVIOUS
<1> USE DEF JQ!Init
<1>1. <<>> \in Seq(Nat) /\ <<>> \in Seq(Procs \X Nat) /\ Len(<<>>) = 0
  BY EmptySeq
<1>2. \A p \in Procs :
        /\ q[p] \in QueueStates /\ q[p].pc \in {"out", "unborn"} /\ q[p].feeder = "none"
        /\ q[p].buffer = <<>> /\ q[p].hand = <<>> /\ ~q[p].told /\ ~q[p].closed /\ q[p].owed = 0
  BY <1>1 DEF JQ!Fresh, QueueStates, JQ!ClientPlaces, JQ!FeederPlaces, JQ!FeederStopped
<1>3. \A p \in Procs : Fit(q[p])
  BY <1>1, <1>2 DEF Fit, InHand, SentinelLast, NothingBehind
<1>4. QueueTypeOK /\ CondHeld
  BY <1>1, <1>2, QueueConstants DEF QueueTypeOK, CondHeld
<1>5. JQ!Behind = {} /\ JQ!Owed = {} /\ Permitted = {}
  <2>1. \A p \in Procs : DOMAIN JQ!Unsent(p) = {}
    <3> SUFFICES ASSUME NEW p \in Procs PROVE DOMAIN JQ!Unsent(p) = {}
      OBVIOUS
    <3>1. JQ!Unsent(p) = <<>>
      BY <1>1, <1>2, ConcatEmptySeq DEF JQ!Unsent, JQ!Broken
    <3> QED BY <3>1, EmptySeq
  <2>2. \A p \in Procs : 1 .. q[p].owed = {}
    BY <1>2
  <2> QED BY <1>2, <2>1, <2>2 DEF JQ!Behind, JQ!Owed, Permitted
<1>6. IsFiniteSet({}) /\ Cardinality({}) = 0
  BY FS_EmptySet
<1>7. /\ IsFiniteSet(JQ!Behind) /\ IsFiniteSet(JQ!Owed)
      /\ Cardinality(JQ!Behind) = 0 /\ Cardinality(JQ!Owed) = 0 /\ Cardinality(Permitted) = 0
  BY <1>5, <1>6
<1>8. PermitsKept /\ TasksCounted
  BY <1>1, <1>7, QueueConstants DEF PermitsKept, TasksCounted
<1> QED BY <1>3, <1>4, <1>7, <1>8 DEF QueueIInv

\* Every step of a client or of a feeder keeps permits and tasks counted.
LEMMA QueueNextIInv == QueueIInv /\ [JQ!Next]_JQ!vars => QueueIInv'
<1>1. ASSUME QueueIInv, UNCHANGED JQ!vars PROVE QueueIInv'
  <2>1. UNCHANGED <<sem, rlock, wlock, cond, pipe, unfinished, q>>
    BY <1>1 DEF JQ!vars, JQ!shared
  <2>2. (QueueTypeOK /\ CondHeld)' /\ \A p \in Procs : Fit(q'[p])
    BY <1>1, <2>1 DEF QueueIInv, QueueTypeOK, CondHeld
  <2>3. JQ!Behind' = JQ!Behind /\ JQ!Owed' = JQ!Owed /\ Permitted' = Permitted
    BY <2>1 DEF JQ!Behind, JQ!Unsent, JQ!Broken, JQ!Owed, Permitted
  <2>4. IsFiniteSet(JQ!Behind') /\ IsFiniteSet(JQ!Owed') /\ PermitsKept' /\ TasksCounted'
    BY <1>1, <2>1, <2>3 DEF QueueIInv, PermitsKept, TasksCounted
  <2> QED BY <2>2, <2>4 DEF QueueIInv
<1>2. ASSUME QueueIInv, NEW p \in Procs, JQ!Call(p) PROVE QueueIInv'
  <2>1. CASE \E child \in Procs : JQ!Fork(p, child)
    BY <1>2, <2>1, ForkKeeps
  <2>2. CASE JQ!PutAcquire(p)
    BY <1>2, <2>2, PutAcquireKeeps
  <2>3. CASE JQ!Receive(p)
    BY <1>2, <2>3, ReceiveKeeps
  <2>4. CASE JQ!TaskDone(p)
    BY <1>2, <2>4, TaskDoneKeeps
  <2>5. CASE JQ!Close(p)
    BY <1>2, <2>5, CloseKeeps
  <2>6. CASE JQ!CancelJoinThread(p)
    BY <1>2, <2>6, CancelJoinThreadKeeps
  <2>7. CASE JQ!Exit(p)
    BY <1>2, <2>7, ExitKeeps
  <2>8. CASE JQ!Get(p) \/ JQ!GetEmpty(p) \/ JQ!Join(p) \/ JQ!JoinReturn(p) \/ JQ!JoinThread(p)
    BY <1>2, <2>8, QueueClientKeeps
  <2> QED BY <1>2, <2>1, <2>2, <2>3, <2>4, <2>5, <2>6, <2>7, <2>8 DEF JQ!Call
<1>3. ASSUME QueueIInv, NEW p \in Procs, JQ!Proceed(p) PROVE QueueIInv'
  <2>1. CASE JQ!PutAppend(p)
    BY <1>3, <2>1, PutAppendKeeps
  <2>2. CASE JQ!PutCount(p)
    BY <1>3, <2>2, PutCountKeeps
  <2>3. CASE JQ!GetReturn(p)
    BY <1>3, <2>3, GetReturnKeeps
  <2>4. CASE JQ!ExitEnd(p)
    BY <1>3, <2>4, ExitEndKeeps
  <2>5. CASE JQ!PutEnter(p) \/ JQ!JoinThreadReturn(p)
    BY <1>3, <2>5, QueueClientKeeps
  <2> QED BY <1>3, <2>1, <2>2, <2>3, <2>4, <2>5 DEF JQ!Proceed
<1>4. ASSUME QueueIInv, NEW p \in Procs, JQ!Feed(p) \/ JQ!FeedFail(p) PROVE QueueIInv'
  <2>1. CASE JQ!FeedPop(p)
    BY <1>4, <2>1, FeedPopKeeps
  <2>2. CASE JQ!FeedSend(p)
    BY <1>4, <2>2, FeedSendKeeps
  <2>3. CASE JQ!FeedFail(p)
    BY <1>4, <2>3, FeedFailKeeps
  <2>4. CASE JQ!FeedCheck(p) \/ JQ!FeedWake(p) \/ JQ!FeedLock(p) \/ JQ!FeedUnlock(p)
    BY <1>4, <2>4, FeederKeeps
  <2> QED BY <1>4, <2>1, <2>2, <2>3, <2>4 DEF JQ!Feed
<1> QED BY <1>1, <1>2, <1>3, <1>4 DEF JQ!Next

\* The inductive invariant of the JoinableQueue.
LEMMA QueueInvariantHolds == JQ!Spec => []QueueIInv
BY QueueInitIInv, QueueNextIInv, PTL DEF JQ!Spec

\* A permit for every client between the semaphore and the pipe and for every item on its
\* way: permits are never more than maxsize, so that put() bounds what is outstanding
\* whatever the feeders lose, and the semaphore never passes its bound.
THEOREM PermitsBoundItems == JQ!Spec => [](QueueTypeOK /\ PermitsKept)
<1>1. QueueIInv => QueueTypeOK /\ PermitsKept
  BY DEF QueueIInv
<1> QED BY <1>1, QueueInvariantHolds, PTL

\* What MPQueue counts with is the Cardinality of this module.
LEMMA SameCardinality == \A A : JQ!Cardinality(A) = Cardinality(A)
  BY DEF JQ!Cardinality, Cardinality

\* Every item on its way, or received and not done, is counted as unfinished, unless
\* somebody is inside put() with the lock of _cond: task_done() for an item received does
\* not fail, and join() returns past no task.
THEOREM TasksAreCounted == JQ!Spec => []CountCovers
<1>1. QueueIInv => CountCovers
  <2> SUFFICES ASSUME QueueIInv, cond = None
               PROVE  Len(pipe) + Cardinality(JQ!Behind) + Cardinality(JQ!Owed) <= unfinished
    BY SameCardinality DEF CountCovers, JQ!CountCovers
  <2>1. /\ Cardinality(JQ!Behind) \in Nat /\ Cardinality(JQ!Owed) \in Nat
        /\ Len(pipe) \in Nat /\ unfinished \in Nat
    BY FS_CardinalityType, Numbers DEF QueueIInv
  <2> QED BY <2>1 DEF QueueIInv, TasksCounted
<1> QED BY <1>1, QueueInvariantHolds, PTL

\* join_thread() returns when everything put by the process is in the pipe, unless the
\* feeder has failed.
THEOREM JoinThreadFlushes == JQ!Spec => FlushedAtReturn
<1> DEFINE Flushing ==
      \A p \in Procs : JQ!FlushReturns(p) =>
        JQ!FeederAt(p, "failed") \/ (q[p].buffer = <<>> /\ q[p].hand = <<>>)
<1>1. ASSUME QueueIInv, JQ!Next PROVE Flushing
  <2> SUFFICES ASSUME NEW p \in Procs, JQ!FlushReturns(p)
               PROVE  q[p].feeder = "failed" \/ (q[p].buffer = <<>> /\ q[p].hand = <<>>)
    BY DEF JQ!FeederAt
  <2>1. /\ q[p].pc = "flushing" /\ q'[p].pc = "out" /\ ~q[p].cancelled
        /\ q \in [Procs -> QueueStates]
    BY <1>1 DEF JQ!FlushReturns, JQ!At, QueueIInv, QueueTypeOK
  <2>2. PICK o \in Procs : JQ!Call(o) \/ JQ!Proceed(o) \/ JQ!Feed(o) \/ JQ!FeedFail(o)
    BY <1>1 DEF JQ!Next
  <2>3. ~JQ!Call(o)
    <3> USE DEF JQ!At
    <3>1. \A child \in Procs : ~JQ!Fork(o, child)
      BY <2>1 DEF JQ!Fork
    <3>2. ~JQ!PutAcquire(o) /\ ~JQ!Get(o) /\ ~JQ!GetEmpty(o) /\ ~JQ!Join(o) /\ ~JQ!JoinReturn(o)
      BY <2>1 DEF JQ!PutAcquire, JQ!Get, JQ!GetEmpty, JQ!Join, JQ!JoinReturn
    <3>3. ~JQ!Receive(o) /\ ~JQ!JoinThread(o) /\ ~JQ!CancelJoinThread(o)
      BY <2>1 DEF JQ!Receive, JQ!JoinThread, JQ!CancelJoinThread, QueueStates
    <3>4. ~JQ!Close(o) /\ ~JQ!Exit(o)
      BY <2>1 DEF JQ!Close, JQ!Exit
    <3>5. ~JQ!TaskDone(o)
      <4> SUFFICES ASSUME JQ!TaskDone(o) PROVE FALSE
        OBVIOUS
      <4> DEFINE w == IF unfinished' = 0 THEN JQ!JoinersNotified ELSE q
      <4>1. w[p] = q[p] /\ p \in DOMAIN w
        BY <2>1 DEF JQ!JoinersNotified
      <4>2. o # p /\ q' = [w EXCEPT ![o].owed = @ - 1]
        BY <2>1 DEF JQ!TaskDone
      <4> QED BY <2>1, <4>1, <4>2
    <3> QED BY <3>1, <3>2, <3>3, <3>4, <3>5 DEF JQ!Call
  <2>4. ~JQ!Feed(o) /\ ~JQ!FeedFail(o)
    <3> DEFINE s == q[o]
    <3>1. s \in QueueStates /\ s = q[o]
      BY <2>1
    <3> HIDE DEF s
    <3>2. \A f : [s EXCEPT !.feeder = f].pc = s.pc
      BY <3>1 DEF QueueStates
    <3>3. ASSUME NEW r, q' = [q EXCEPT ![o] = r], r.pc = s.pc PROVE FALSE
      BY <2>1, <3>1, <3>3
    <3>4. ~JQ!FeedCheck(o)
      BY <3>1, <3>2, <3>3 DEF JQ!FeedCheck
    <3>5. ~JQ!FeedWake(o)
      BY <3>1, <3>2, <3>3 DEF JQ!FeedWake
    <3>6. ~JQ!FeedLock(o)
      BY <3>1, <3>2, <3>3 DEF JQ!FeedLock
    <3>7. ~JQ!FeedUnlock(o)
      BY <3>1, <3>2, <3>3 DEF JQ!FeedUnlock
    <3>8. ~JQ!FeedSend(o)
      <4> DEFINE r == [s EXCEPT !.feeder = "unlock", !.hand = <<>>]
      <4>1. JQ!FeedSend(o) => q' = [q EXCEPT ![o] = r]
        BY <3>1 DEF JQ!FeedSend
      <4>2. r.pc = s.pc
        BY <3>1 DEF QueueStates
      <4> HIDE DEF r
      <4> QED BY <3>3, <4>1, <4>2
    <3>9. ~JQ!FeedFail(o)
      <4> DEFINE r == [s EXCEPT !.feeder = "failed", !.hand = <<>>]
      <4>1. JQ!FeedFail(o) => q' = [q EXCEPT ![o] = r]
        BY <3>1 DEF JQ!FeedFail
      <4>2. r.pc = s.pc
        BY <3>1 DEF QueueStates
      <4> HIDE DEF r
      <4> QED BY <3>3, <4>1, <4>2
    <3>10. ~JQ!FeedPop(o)
      <4> DEFINE t == Tail(s.buffer)
                 h == <<Head(s.buffer)>>
                 r == IF s.buffer = <<>> THEN [s EXCEPT !.feeder = "check"]
                      ELSE IF Head(s.buffer) = 0
                        THEN [s EXCEPT !.feeder = "done", !.buffer = t]
                        ELSE [s EXCEPT !.feeder = "lock", !.buffer = t, !.hand = h]
      <4>1. JQ!FeedPop(o) => q' = [q EXCEPT ![o] = r]
        BY <3>1 DEF JQ!FeedPop, JQ!Sentinel
      <4> HIDE DEF t, h
      <4>2. r.pc = s.pc
        BY <3>1 DEF QueueStates
      <4> HIDE DEF r
      <4> QED BY <3>3, <4>1, <4>2
    <3> QED BY <3>4, <3>5, <3>6, <3>7, <3>8, <3>9, <3>10 DEF JQ!Feed
  <2>5. JQ!JoinThreadReturn(p)
    <3>1. ~JQ!PutEnter(o) /\ ~JQ!PutAppend(o) /\ ~JQ!PutCount(o) /\ ~JQ!GetReturn(o) /\ ~JQ!ExitEnd(o)
      BY <2>1 DEF JQ!PutEnter, JQ!PutAppend, JQ!PutCount, JQ!GetReturn, JQ!ExitEnd, JQ!At
    <3>2. JQ!JoinThreadReturn(o)
      BY <2>2, <2>3, <2>4, <3>1 DEF JQ!Proceed
    <3>3. o = p
      BY <2>1, <3>2 DEF JQ!JoinThreadReturn
    <3> QED BY <3>2, <3>3
  <2>6. q[p].feeder \in {"none", "done", "failed", "killed"}
    BY <2>1, <2>5 DEF JQ!JoinThreadReturn, JQ!Flushed, JQ!FeederStopped
  <2>7. Fit(q[p])
    BY <1>1 DEF QueueIInv
  <2> QED BY <2>1, <2>6, <2>7 DEF Fit, NothingBehind, InHand
<1>2. QueueIInv /\ [JQ!Next]_JQ!vars => [Flushing]_JQ!vars
  BY <1>1
<1>3. FlushedAtReturn <=> [][Flushing]_JQ!vars
  BY DEF FlushedAtReturn, JQ!FlushedAtReturn
<1> QED BY <1>2, <1>3, QueueInvariantHolds, PTL DEF JQ!Spec

-------------------------------------------------------------------------------
(* The order of delivery.                                                   *)

\* A set of numbers that has 0, and with each number below N the next one, has those to N.
LEMMA CountUp ==
  ASSUME NEW S, NEW N \in Nat, 0 \in S, \A n \in 0 .. N - 1 : n \in S => n + 1 \in S
  PROVE  \A n \in 0 .. N : n \in S
<1> DEFINE T == (0 .. N) \ S
           Less == OpToRel(<, Nat)
<1>1. SUFFICES ASSUME T # {} PROVE FALSE
  OBVIOUS
<1>2. T \subseteq Nat
  OBVIOUS
<1>3. \E n \in T : \A m \in T : ~ (<<m, n>> \in Less)
  <2> HIDE DEF T
  <2> QED BY Zenon, <1>1, <1>2, NatLessThanWellFounded, WFMin
<1>4. PICK n \in T : \A m \in T : ~ (m < n)
  BY <1>2, <1>3 DEF OpToRel
<1>5. n \in 0 .. N /\ n # 0
  BY <1>4
<1>6. n - 1 \in 0 .. N - 1 /\ n - 1 \in S /\ n = (n - 1) + 1
  BY <1>4, <1>5
<1> QED BY <1>4, <1>6

\* What the numbers of p are after each item of s.
Counted(p, s, own) ==
  /\ own \in [0 .. Len(s) -> Seq(Nat)]
  /\ own[0] = <<>>
  /\ \A i \in 1 .. Len(s) :
       own[i] = IF s[i][1] = p THEN Append(own[i - 1], s[i][2]) ELSE own[i - 1]

\* They are defined for every s, ...
LEMMA CountedExists ==
  ASSUME NEW p, NEW s \in Seq(Procs \X Nat)
  PROVE  \E own : Counted(p, s, own)
<1> DEFINE N == Len(s)
           Upto(n, own) ==
             /\ own \in [0 .. N -> Seq(Nat)]
             /\ own[0] = <<>>
             /\ \A i \in 1 .. n :
                  own[i] = IF s[i][1] = p THEN Append(own[i - 1], s[i][2]) ELSE own[i - 1]
           Reached == {n \in 0 .. N : \E own : Upto(n, own)}
<1>1. N \in Nat /\ \A i \in 1 .. N : s[i][2] \in Nat
  BY LenProperties
<1>2. 0 \in Reached
  <2> DEFINE own == [i \in 0 .. N |-> <<>>]
  <2>1. own \in [0 .. N -> Seq(Nat)] /\ own[0] = <<>>
    BY <1>1, EmptySeq
  <2> HIDE DEF own
  <2>2. \A i \in 1 .. 0 : FALSE
    OBVIOUS
  <2>3. Upto(0, own)
    BY <2>1, <2>2
  <2> QED BY <1>1, <2>3
<1>3. ASSUME NEW n \in 0 .. N - 1, n \in Reached PROVE n + 1 \in Reached
  <2>1. PICK own : Upto(n, own)
    BY <1>3
  <2> DEFINE x == IF s[n + 1][1] = p THEN Append(own[n], s[n + 1][2]) ELSE own[n]
             next == [own EXCEPT ![n + 1] = x]
  <2>2. n \in 0 .. N /\ n + 1 \in 1 .. N /\ n + 1 \in 0 .. N
    BY <1>1
  <2>3. own[n] \in Seq(Nat)
    BY <2>1, <2>2
  <2>4. x \in Seq(Nat)
    BY <1>1, <2>2, <2>3, AppendProperties
  <2>5. next \in [0 .. N -> Seq(Nat)] /\ next[n + 1] = x /\ \A i \in 0 .. n : next[i] = own[i]
    <3> HIDE DEF x
    <3> QED BY <1>1, <2>1, <2>2, <2>4
  <2> HIDE DEF next
  <2>6. \A i \in 1 .. n : i \in 0 .. n /\ i - 1 \in 0 .. n
    BY <1>1
  <2>7. \A i \in 1 .. n + 1 : i = n + 1 \/ i \in 1 .. n
    BY <1>1
  <2>8. 0 \in 0 .. n /\ n \in 0 .. n /\ (n + 1) - 1 = n
    BY <1>1
  <2>9. Upto(n + 1, next)
    BY <2>1, <2>5, <2>6, <2>7, <2>8
  <2> QED BY <2>2, <2>9
<1>4. N \in Reached
  <2>1. N \in 0 .. N
    BY <1>1
  <2> HIDE DEF Reached, N
  <2>2. \A n \in 0 .. N : n \in Reached
    BY <1>1, <1>2, <1>3, CountUp
  <2> QED BY <2>1, <2>2
<1> QED BY <1>4 DEF Counted

\* ... and OwnIn is what they are in the end.
LEMMA CountedIsOwnIn ==
  ASSUME NEW p, NEW s \in Seq(Procs \X Nat), NEW own, Counted(p, s, own)
  PROVE  JQ!OwnIn(p, s) = own[Len(s)] /\ JQ!OwnIn(p, s) \in Seq(Nat)
<1> DEFINE N == Len(s)
           Is(f) == f = [i \in 0 .. N |->
                          IF i = 0 THEN <<>>
                          ELSE IF s[i][1] = p THEN Append(f[i - 1], s[i][2]) ELSE f[i - 1]]
           f == CHOOSE g : Is(g)
<1>1. N \in Nat
  BY LenProperties
<1>2. Is(own)
  <2> DEFINE h == [i \in 0 .. N |->
                     IF i = 0 THEN <<>>
                     ELSE IF s[i][1] = p THEN Append(own[i - 1], s[i][2]) ELSE own[i - 1]]
  <2>1. DOMAIN own = 0 .. N /\ own = [i \in 0 .. N |-> own[i]]
    BY DEF Counted
  <2>2. ASSUME NEW i \in 0 .. N PROVE h[i] = own[i]
    <3>1. CASE i = 0
      BY <3>1 DEF Counted
    <3>2. CASE i # 0
      <4>1. i \in 1 .. N
        BY <1>1, <3>2
      <4> QED BY <3>2, <4>1 DEF Counted
    <3> QED BY <3>1, <3>2
  <2>3. h = own
    BY <2>1, <2>2
  <2> QED BY <2>3
<1>3. Is(f)
  <2> HIDE DEF Is
  <2> QED BY <1>2
<1>4. JQ!OwnIn(p, s) = f[N]
  BY DEF JQ!OwnIn
<1> HIDE DEF f
<1> DEFINE Same == {i \in 0 .. N : f[i] = own[i]}
<1>5. 0 \in Same
  BY <1>1, <1>3 DEF Counted
<1>6. ASSUME NEW n \in 0 .. N - 1, n \in Same PROVE n + 1 \in Same
  <2>1. n + 1 \in 0 .. N /\ n + 1 \in 1 .. N /\ n + 1 # 0 /\ (n + 1) - 1 = n
    BY <1>1
  <2>2. f[n + 1] = IF s[n + 1][1] = p THEN Append(f[n], s[n + 1][2]) ELSE f[n]
    BY <1>3, <2>1
  <2>3. own[n + 1] = IF s[n + 1][1] = p THEN Append(own[n], s[n + 1][2]) ELSE own[n]
    BY <2>1 DEF Counted
  <2> QED BY <1>6, <2>1, <2>2, <2>3
<1>7. N \in Same
  <2>1. N \in 0 .. N
    BY <1>1
  <2> HIDE DEF Same, N
  <2>2. \A n \in 0 .. N : n \in Same
    BY <1>1, <1>5, <1>6, CountUp
  <2> QED BY <2>1, <2>2
<1>8. N \in 0 .. N
  BY <1>1
<1> QED BY <1>4, <1>7, <1>8 DEF Counted

\* No item in an empty pipe.
LEMMA OwnInEmpty == ASSUME NEW p PROVE JQ!OwnIn(p, <<>>) = <<>>
<1>1. PICK own : Counted(p, <<>>, own)
  BY EmptySeq, CountedExists
<1> QED BY <1>1, EmptySeq, CountedIsOwnIn DEF Counted

\* An item at the end is the last of its process, and nothing to the others.
LEMMA OwnInAppended ==
  ASSUME NEW p, NEW s \in Seq(Procs \X Nat), NEW x \in Procs \X Nat
  PROVE  JQ!OwnIn(p, Append(s, x)) =
           IF x[1] = p THEN Append(JQ!OwnIn(p, s), x[2]) ELSE JQ!OwnIn(p, s)
<1>1. PICK own : Counted(p, s, own)
  BY CountedExists
<1> DEFINE N == Len(s)
           t == Append(s, x)
           y == IF x[1] = p THEN Append(own[N], x[2]) ELSE own[N]
           next == [i \in 0 .. N + 1 |-> IF i = N + 1 THEN y ELSE own[i]]
<1>2. /\ N \in Nat /\ t \in Seq(Procs \X Nat) /\ Len(t) = N + 1
      /\ t[N + 1] = x /\ \A i \in 1 .. N : t[i] = s[i]
  BY LenProperties, AppendProperties
<1>3. own[N] \in Seq(Nat) /\ own[N] = JQ!OwnIn(p, s)
  BY <1>1, CountedIsOwnIn
<1>4. y \in Seq(Nat)
  <2>1. x[2] \in Nat
    OBVIOUS
  <2> HIDE DEF N
  <2> QED BY <1>3, <2>1, AppendProperties
<1>5. own \in [0 .. N -> Seq(Nat)] /\ own[0] = <<>>
  BY <1>1 DEF Counted
<1>6. \A i \in 1 .. N : own[i] = IF s[i][1] = p THEN Append(own[i - 1], s[i][2]) ELSE own[i - 1]
  BY <1>1 DEF Counted
<1> HIDE DEF N, t
<1>7. y = IF t[N + 1][1] = p THEN Append(own[N], t[N + 1][2]) ELSE own[N]
  BY <1>2
<1> HIDE DEF y
<1>8. /\ next \in [0 .. N + 1 -> Seq(Nat)] /\ next[0] = <<>> /\ next[N + 1] = y
      /\ \A i \in 0 .. N : next[i] = own[i]
  BY <1>2, <1>4, <1>5
<1> HIDE DEF next
<1>9. ASSUME NEW i \in 1 .. N + 1
      PROVE  next[i] = IF t[i][1] = p THEN Append(next[i - 1], t[i][2]) ELSE next[i - 1]
  <2>1. CASE i = N + 1
    <3>1. i - 1 = N /\ N \in 0 .. N
      BY <1>2, <2>1
    <3> QED BY <1>7, <1>8, <2>1, <3>1
  <2>2. CASE i # N + 1
    <3>1. i \in 1 .. N /\ i \in 0 .. N /\ i - 1 \in 0 .. N
      BY <1>2, <2>2
    <3> QED BY <1>2, <1>6, <1>8, <3>1
  <2> QED BY <2>1, <2>2
<1>10. Counted(p, t, next)
  BY <1>2, <1>8, <1>9 DEF Counted
<1>11. JQ!OwnIn(p, t) = y
  <2>1. JQ!OwnIn(p, t) = next[Len(t)]
    BY <1>2, <1>10, CountedIsOwnIn
  <2> QED BY <1>2, <1>8, <2>1
<1> QED BY <1>3, <1>11 DEF t, y

\* The item at the head was the first of its process, and nothing to the others.
LEMMA OwnInTaken ==
  ASSUME NEW p, NEW s \in Seq(Procs \X Nat), s # <<>>
  PROVE  JQ!OwnIn(p, s) =
           IF Head(s)[1] = p THEN <<Head(s)[2]>> \o JQ!OwnIn(p, Tail(s)) ELSE JQ!OwnIn(p, Tail(s))
<1> DEFINE t == Tail(s)
           N == Len(t)
           x == IF Head(s)[1] = p THEN <<Head(s)[2]>> ELSE <<>>
<1>1. /\ t \in Seq(Procs \X Nat) /\ N \in Nat /\ Len(s) = N + 1
      /\ Head(s) = s[1] /\ s[1] \in Procs \X Nat
      /\ \A i \in 1 .. N : t[i] = s[i + 1] /\ t[i] \in Procs \X Nat
  <2>1. t \in Seq(Procs \X Nat) /\ Len(t) = Len(s) - 1 /\ Len(s) \in Nat /\ Len(s) # 0
        /\ Head(s) = s[1] /\ \A i \in 1 .. Len(t) : t[i] = s[i + 1]
    BY HeadTailProperties, LenProperties, EmptySeq
  <2> QED BY <2>1, ElementOfSeq
<1>2. PICK own : Counted(p, s, own)
  BY CountedExists
<1>3. PICK rest : Counted(p, t, rest)
  BY <1>1, CountedExists
<1>4. x \in Seq(Nat)
  BY <1>1
<1> HIDE DEF t, N
<1>5. /\ JQ!OwnIn(p, s) = own[N + 1] /\ JQ!OwnIn(p, t) = rest[N] /\ rest[N] \in Seq(Nat)
  <2>1. JQ!OwnIn(p, s) = own[Len(s)]
    BY <1>2, CountedIsOwnIn
  <2>2. JQ!OwnIn(p, t) = rest[Len(t)] /\ JQ!OwnIn(p, t) \in Seq(Nat)
    BY <1>1, <1>3, CountedIsOwnIn
  <2> QED BY <1>1, <2>1, <2>2 DEF N
<1>6. /\ rest \in [0 .. N -> Seq(Nat)] /\ rest[0] = <<>>
      /\ \A i \in 1 .. N :
           rest[i] = IF t[i][1] = p THEN Append(rest[i - 1], t[i][2]) ELSE rest[i - 1]
  BY <1>3 DEF Counted, N
<1>7. /\ own[0] = <<>>
      /\ \A i \in 1 .. N + 1 :
           own[i] = IF s[i][1] = p THEN Append(own[i - 1], s[i][2]) ELSE own[i - 1]
  BY <1>1, <1>2 DEF Counted
<1> DEFINE Same == {i \in 0 .. N : own[i + 1] = x \o rest[i]}
<1>8. 0 \in Same
  <2>1. own[1] = IF s[1][1] = p THEN Append(<<>>, s[1][2]) ELSE <<>>
    <3>1. 1 \in 1 .. N + 1 /\ 1 - 1 = 0
      BY <1>1
    <3> QED BY <1>7, <3>1
  <2>2. own[1] = x
    BY <1>1, <2>1
  <2>3. x \o <<>> = x
    BY <1>4, ConcatEmptySeq
  <2>4. 0 \in 0 .. N /\ 0 + 1 = 1
    BY <1>1
  <2> HIDE DEF x
  <2> QED BY <1>6, <2>2, <2>3, <2>4
<1>9. ASSUME NEW n \in 0 .. N - 1, n \in Same PROVE n + 1 \in Same
  <2>1. n + 1 \in 0 .. N /\ n + 1 \in 1 .. N /\ n \in 0 .. N
        /\ (n + 1) + 1 \in 1 .. N + 1 /\ (n + 1) - 1 = n /\ ((n + 1) + 1) - 1 = n + 1
    BY <1>1
  <2> HIDE DEF x
  <2>2. own[n + 1] = x \o rest[n]
    BY <1>9
  <2>3. t[n + 1] = s[(n + 1) + 1] /\ t[n + 1][2] \in Nat
    BY <1>1, <2>1
  <2>4. rest[n] \in Seq(Nat)
    BY <1>6, <2>1
  <2>5. rest[n + 1] = IF t[n + 1][1] = p THEN Append(rest[n], t[n + 1][2]) ELSE rest[n]
    BY <1>6, <2>1
  <2>6. own[(n + 1) + 1] = IF t[n + 1][1] = p THEN Append(own[n + 1], t[n + 1][2]) ELSE own[n + 1]
    BY <1>7, <2>1, <2>3
  <2>7. x \o Append(rest[n], t[n + 1][2]) = Append(x \o rest[n], t[n + 1][2])
    BY <1>4, <2>3, <2>4, SentAppend
  <2>8. own[(n + 1) + 1] = x \o rest[n + 1]
    BY <2>2, <2>5, <2>6, <2>7
  <2> QED BY <2>1, <2>8
<1>10. own[N + 1] = x \o rest[N]
  <2>1. N \in 0 .. N
    BY <1>1
  <2> HIDE DEF Same
  <2>2. \A n \in 0 .. N : n \in Same
    BY <1>1, <1>8, <1>9, CountUp
  <2> QED BY <2>1, <2>2 DEF Same
<1>11. <<>> \o rest[N] = rest[N]
  BY <1>5, ConcatEmptySeq
<1> QED BY <1>5, <1>10, <1>11 DEF t

\* The numbers in a pipe are a sequence of numbers.
LEMMA OwnInType ==
  ASSUME NEW p, NEW s \in Seq(Procs \X Nat)
  PROVE  JQ!OwnIn(p, s) \in Seq(Nat)
BY CountedExists, CountedIsOwnIn

\* How many numbers there are in s.
NumbersOf(s) == IF s # <<>> /\ s[Len(s)] = 0 THEN Len(s) - 1 ELSE Len(s)

\* NumbersIn leaves the sentinel out if it is the last.
LEMMA NumbersInIs ==
  ASSUME NEW s \in Seq(Nat)
  PROVE  /\ NumbersOf(s) \in Nat /\ NumbersOf(s) <= Len(s) /\ Len(s) \in Nat
         /\ JQ!NumbersIn(s) \in Seq(Nat) /\ Len(JQ!NumbersIn(s)) = NumbersOf(s)
         /\ \A i \in 1 .. NumbersOf(s) : JQ!NumbersIn(s)[i] = s[i]
<1>1. Len(s) \in Nat /\ (s # <<>> => Len(s) # 0) /\ \A i \in 1 .. Len(s) : s[i] \in Nat
  BY LenProperties, EmptySeq, ElementOfSeq
<1>2. CASE s # <<>> /\ s[Len(s)] = 0
  <2> DEFINE n == Len(s) - 1
  <2>1. JQ!NumbersIn(s) = SubSeq(s, 1, n)
    BY <1>2 DEF JQ!NumbersIn, JQ!Sentinel, JQ!Front
  <2>2. n \in Nat /\ NumbersOf(s) = n /\ n <= Len(s) /\ \A i \in 1 .. n : s[i] \in Nat
    BY <1>1, <1>2 DEF NumbersOf
  <2> HIDE DEF n
  <2>3. /\ SubSeq(s, 1, n) \in Seq(Nat)
        /\ Len(SubSeq(s, 1, n)) = IF 1 <= n THEN n - 1 + 1 ELSE 0
        /\ \A i \in 1 .. n - 1 + 1 : SubSeq(s, 1, n)[i] = s[1 + i - 1]
    BY <2>2, SubSeqProperties
  <2>4. Len(SubSeq(s, 1, n)) = n /\ \A i \in 1 .. n : SubSeq(s, 1, n)[i] = s[i]
    BY <2>2, <2>3
  <2> QED BY <1>1, <2>1, <2>2, <2>3, <2>4
<1>3. CASE ~(s # <<>> /\ s[Len(s)] = 0)
  BY <1>1, <1>3 DEF JQ!NumbersIn, JQ!Sentinel, NumbersOf
<1> QED BY <1>2, <1>3

\* With no sentinel there is nothing to leave out.
LEMMA NumbersInAll ==
  ASSUME NEW s \in Seq(Nat), \A i \in 1 .. Len(s) : s[i] # 0
  PROVE  JQ!NumbersIn(s) = s
<1>1. NumbersOf(s) = Len(s)
  <2>1. s # <<>> => Len(s) \in 1 .. Len(s)
    BY EmptySeq
  <2> QED BY <2>1 DEF NumbersOf
<1> QED BY <1>1, NumbersInIs, SeqEqual

\* The sentinel put at the end is left out.
LEMMA NumbersInTold ==
  ASSUME NEW s \in Seq(Nat)
  PROVE  JQ!NumbersIn(Append(s, 0)) = s
<1> DEFINE t == Append(s, 0)
<1>1. /\ t \in Seq(Nat) /\ t # <<>> /\ Len(t) = Len(s) + 1 /\ t[Len(s) + 1] = 0
      /\ Len(s) \in Nat /\ \A i \in 1 .. Len(s) : t[i] = s[i]
  BY AppendProperties, LenProperties
<1> HIDE DEF t
<1>2. NumbersOf(t) = Len(s)
  BY <1>1 DEF NumbersOf
<1>3. JQ!NumbersIn(t) \in Seq(Nat) /\ Len(JQ!NumbersIn(t)) = Len(s)
      /\ \A i \in 1 .. Len(s) : JQ!NumbersIn(t)[i] = s[i]
  BY <1>1, <1>2, NumbersInIs
<1>4. JQ!NumbersIn(t) = s
  BY <1>3, SeqEqual
<1> QED BY <1>4 DEF t

\* An item before the others is the first number.
LEMMA NumbersInFirst ==
  ASSUME NEW s \in Seq(Nat), NEW x \in Nat \ {0}
  PROVE  JQ!NumbersIn(<<x>> \o s) = <<x>> \o JQ!NumbersIn(s)
<1> DEFINE t == <<x>> \o s
           u == <<x>> \o JQ!NumbersIn(s)
<1>1. <<x>> \in Seq(Nat) /\ Len(<<x>>) = 1 /\ <<x>>[1] = x
  OBVIOUS
<1>2. /\ t \in Seq(Nat) /\ Len(t) = 1 + Len(s) /\ t[1] = x /\ Len(s) \in Nat /\ t # <<>>
      /\ \A i \in 2 .. 1 + Len(s) : t[i] = s[i - 1]
  <2>1. t \in Seq(Nat) /\ Len(t) = 1 + Len(s) /\ Len(s) \in Nat
        /\ \A i \in 1 .. 1 + Len(s) : t[i] = IF i <= 1 THEN <<x>>[i] ELSE s[i - 1]
    BY <1>1, ConcatProperties, LenProperties
  <2> HIDE DEF t
  <2>2. t # <<>>
    BY <2>1, EmptySeq
  <2> QED BY <1>1, <2>1, <2>2
<1>3. /\ NumbersOf(s) \in Nat /\ NumbersOf(s) <= Len(s)
      /\ JQ!NumbersIn(s) \in Seq(Nat) /\ Len(JQ!NumbersIn(s)) = NumbersOf(s)
      /\ \A i \in 1 .. NumbersOf(s) : JQ!NumbersIn(s)[i] = s[i]
  BY NumbersInIs
<1>4. /\ u \in Seq(Nat) /\ Len(u) = 1 + NumbersOf(s)
      /\ u[1] = x /\ \A i \in 2 .. 1 + NumbersOf(s) : u[i] = s[i - 1]
  <2>1. u \in Seq(Nat) /\ Len(u) = 1 + NumbersOf(s)
        /\ \A i \in 1 .. 1 + NumbersOf(s) : u[i] = IF i <= 1 THEN <<x>>[i] ELSE JQ!NumbersIn(s)[i - 1]
    BY <1>1, <1>3, ConcatProperties
  <2> HIDE DEF u
  <2>2. 1 \in 1 .. 1 + NumbersOf(s)
    BY <1>3
  <2>3. u[1] = x
    BY <1>1, <2>1, <2>2
  <2>4. ASSUME NEW i \in 2 .. 1 + NumbersOf(s) PROVE u[i] = s[i - 1]
    <3>1. i \in 1 .. 1 + NumbersOf(s) /\ ~(i <= 1) /\ i - 1 \in 1 .. NumbersOf(s)
      BY <1>3
    <3>2. u[i] = JQ!NumbersIn(s)[i - 1]
      BY <2>1, <3>1
    <3> QED BY <1>3, <3>1, <3>2
  <2> QED BY <2>1, <2>3, <2>4
<1> HIDE DEF t, u
<1>5. NumbersOf(t) = 1 + NumbersOf(s)
  <2>1. CASE s = <<>>
    <3>1. Len(s) = 0 /\ Len(t) = 1 /\ t[Len(t)] # 0
      BY <1>2, <2>1, EmptySeq
    <3> QED BY <2>1, <3>1 DEF NumbersOf
  <2>2. CASE s # <<>>
    <3>1. Len(s) # 0
      BY <2>2, EmptySeq
    <3>2. t[Len(t)] = s[Len(s)]
      BY <1>2, <3>1
    <3> QED BY <1>2, <2>2, <3>2 DEF NumbersOf
  <2> QED BY <2>1, <2>2
<1>6. /\ JQ!NumbersIn(t) \in Seq(Nat) /\ Len(JQ!NumbersIn(t)) = 1 + NumbersOf(s)
      /\ \A i \in 1 .. 1 + NumbersOf(s) : JQ!NumbersIn(t)[i] = t[i]
  BY <1>2, <1>5, NumbersInIs
<1>7. ASSUME NEW i \in 1 .. 1 + NumbersOf(s) PROVE JQ!NumbersIn(t)[i] = u[i]
  <2>1. CASE i = 1
    BY <1>2, <1>4, <1>6, <2>1
  <2>2. CASE i # 1
    <3>1. i \in 2 .. 1 + NumbersOf(s) /\ i \in 2 .. 1 + Len(s)
      BY <1>2, <1>3, <2>2
    <3> QED BY <1>2, <1>4, <1>6, <3>1
  <2> QED BY <2>1, <2>2
<1>8. JQ!NumbersIn(t) = u
  BY <1>4, <1>6, <1>7, SeqEqual
<1> QED BY <1>8 DEF t, u

\* The numbers of all processes, as places: as many as there are items in s.
OwnPlaces(s) == UNION {{p} \X (1 .. Len(JQ!OwnIn(p, s))) : p \in Procs}

\* Each item has one process, so that there are no more of them than items.
LEMMA OwnPlacesCount ==
  ASSUME NEW s \in Seq(Procs \X Nat)
  PROVE  IsFiniteSet(OwnPlaces(s)) /\ Cardinality(OwnPlaces(s)) <= Len(s)
<1> DEFINE N == Len(s)
           f == [p \in Procs |-> CHOOSE own : Counted(p, s, own)]
           Upto(n) == UNION {{p} \X (1 .. Len(f[p][n])) : p \in Procs}
           Few == {n \in 0 .. N : IsFiniteSet(Upto(n)) /\ Cardinality(Upto(n)) <= n}
<1>1. N \in Nat /\ \A i \in 1 .. N : s[i] \in Procs \X Nat
  BY LenProperties, ElementOfSeq
<1>2. ASSUME NEW p \in Procs PROVE Counted(p, s, f[p])
  <2>1. \E own : Counted(p, s, own)
    BY CountedExists
  <2> QED BY <2>1
<1> HIDE DEF f
<1>3. \A p \in Procs : JQ!OwnIn(p, s) = f[p][N]
  BY <1>2, CountedIsOwnIn
<1>4. ASSUME NEW p \in Procs
      PROVE  /\ f[p][0] = <<>> /\ \A i \in 0 .. N : f[p][i] \in Seq(Nat)
             /\ \A i \in 1 .. N :
                  f[p][i] = IF s[i][1] = p THEN Append(f[p][i - 1], s[i][2]) ELSE f[p][i - 1]
  <2> DEFINE own == f[p]
  <2>1. Counted(p, s, own)
    BY <1>2
  <2> HIDE DEF own
  <2>2. own \in [0 .. N -> Seq(Nat)] /\ own[0] = <<>>
    BY <2>1 DEF Counted
  <2>3. \A i \in 1 .. N : own[i] = IF s[i][1] = p THEN Append(own[i - 1], s[i][2]) ELSE own[i - 1]
    BY <2>1 DEF Counted
  <2>4. \A i \in 0 .. N : own[i] \in Seq(Nat)
    BY <2>2
  <2> QED BY <2>2, <2>3, <2>4 DEF own
<1>5. OwnPlaces(s) = Upto(N)
  BY <1>3 DEF OwnPlaces
<1> HIDE DEF N
<1>6. 0 \in Few
  <2>1. Upto(0) = {}
    <3> SUFFICES ASSUME NEW x \in Upto(0) PROVE FALSE
      OBVIOUS
    <3>1. PICK p \in Procs : x \in {p} \X (1 .. Len(f[p][0]))
      OBVIOUS
    <3>2. Len(f[p][0]) = 0
      BY <1>4, EmptySeq
    <3>3. 1 .. Len(f[p][0]) = {}
      BY <3>2
    <3> QED BY <3>1, <3>3
  <2>2. IsFiniteSet({}) /\ Cardinality({}) = 0 /\ 0 \in 0 .. N
    BY <1>1, FS_EmptySet
  <2> HIDE DEF Upto
  <2>3. IsFiniteSet(Upto(0)) /\ Cardinality(Upto(0)) = 0
    BY Zenon, <2>1, <2>2
  <2> QED BY <2>2, <2>3
<1>7. ASSUME NEW n \in 0 .. N - 1, n \in Few PROVE n + 1 \in Few
  <2>1. n + 1 \in 0 .. N /\ n + 1 \in 1 .. N /\ (n + 1) - 1 = n /\ n \in 0 .. N /\ n \in Nat
    BY <1>1
  <2> DEFINE o == s[n + 1][1]
             x == <<o, Len(f[o][n + 1])>>
  <2>2. o \in Procs /\ s[n + 1][2] \in Nat
    BY <1>1, <2>1
  <2>3. \A p \in Procs : p # o => f[p][n + 1] = f[p][n]
    BY <1>4, <2>1
  <2>4. f[o][n + 1] = Append(f[o][n], s[n + 1][2]) /\ f[o][n] \in Seq(Nat)
    BY <1>4, <2>1, <2>2
  <2>5. Len(f[o][n + 1]) = Len(f[o][n]) + 1 /\ Len(f[o][n]) \in Nat
    <3> DEFINE a == f[o][n]
               y == s[n + 1][2]
    <3>1. f[o][n + 1] = Append(a, y) /\ a \in Seq(Nat) /\ y \in Nat
      BY <2>2, <2>4
    <3> HIDE DEF a, y
    <3>2. Len(Append(a, y)) = Len(a) + 1
      BY <3>1, AppendProperties
    <3>3. Len(a) \in Nat
      BY <3>1, LenProperties
    <3> QED BY <3>1, <3>2, <3>3 DEF a
  <2> HIDE DEF o
  <2>6. Upto(n + 1) \subseteq Upto(n) \cup {x}
    <3> SUFFICES ASSUME NEW y \in Upto(n + 1) PROVE y \in Upto(n) \/ y = x
      OBVIOUS
    <3>1. PICK p \in Procs : y \in {p} \X (1 .. Len(f[p][n + 1]))
      OBVIOUS
    <3>2. CASE p # o
      BY <2>3, <3>1, <3>2
    <3>3. CASE p = o
      <4>1. PICK i \in 1 .. Len(f[o][n + 1]) : y = <<o, i>>
        BY <3>1, <3>3
      <4>2. CASE i = Len(f[o][n + 1])
        BY <4>1, <4>2
      <4>3. CASE i # Len(f[o][n + 1])
        <5>1. i \in 1 .. Len(f[o][n])
          BY <2>5, <4>3
        <5> QED BY <2>2, <4>1, <5>1
      <4> QED BY <4>2, <4>3
    <3> QED BY <3>2, <3>3
  <2>7. IsFiniteSet(Upto(n)) /\ Cardinality(Upto(n)) <= n /\ Cardinality(Upto(n)) \in Nat
    BY <1>7, FS_CardinalityType
  <2> HIDE DEF Upto, x
  <2>8. /\ IsFiniteSet(Upto(n) \cup {x}) /\ Cardinality(Upto(n) \cup {x}) <= n + 1
        /\ Cardinality(Upto(n) \cup {x}) \in Nat
    <3>1. /\ IsFiniteSet(Upto(n) \cup {x})
          /\ Cardinality(Upto(n) \cup {x}) =
               IF x \in Upto(n) THEN Cardinality(Upto(n)) ELSE Cardinality(Upto(n)) + 1
      BY <2>7, FS_AddElement
    <3> QED BY <2>1, <2>7, <3>1
  <2>9. IsFiniteSet(Upto(n + 1)) /\ Cardinality(Upto(n + 1)) <= Cardinality(Upto(n) \cup {x})
    BY <2>6, <2>8, FS_Subset
  <2>10. Cardinality(Upto(n + 1)) \in Nat
    BY <2>9, FS_CardinalityType
  <2> QED BY <2>1, <2>8, <2>9, <2>10
<1>8. N \in Few
  <2>1. N \in 0 .. N
    BY <1>1
  <2> HIDE DEF Few
  <2>2. \A n \in 0 .. N : n \in Few
    BY <1>1, <1>6, <1>7, CountUp
  <2> QED BY <2>1, <2>2
<1> QED BY <1>5, <1>8 DEF N

\* What a process has to send is numbers, but for the sentinel at the end.
LEMMA SentNumbers ==
  ASSUME NEW r, Fit(r)
  PROVE  /\ r.hand \in Seq(Nat) /\ r.buffer \in Seq(Nat) /\ Sent(r) \in Seq(Nat)
         /\ \A i \in 1 .. NumbersOf(Sent(r)) : Sent(r)[i] # 0
<1>1. r.hand \in Seq(Nat) /\ r.buffer \in Seq(Nat)
  BY DEF Fit, QueueStates
<1> DEFINE s == r.hand \o r.buffer
           h == Len(r.hand)
           b == Len(r.buffer)
<1>2. /\ s \in Seq(Nat) /\ Len(s) = h + b /\ h \in Nat /\ b \in Nat
      /\ \A i \in 1 .. h + b : s[i] = IF i <= h THEN r.hand[i] ELSE r.buffer[i - h]
  BY <1>1, ConcatProperties, LenProperties
<1>3. \A i \in 1 .. h : r.hand[i] # 0
  <2>1. CASE r.feeder \in {"lock", "send"}
    BY <2>1 DEF Fit, InHand
  <2>2. CASE r.feeder \notin {"lock", "send"}
    <3>1. h = 0
      BY <2>2, EmptySeq DEF Fit, InHand
    <3> QED BY <3>1
  <2> QED BY <2>1, <2>2
<1>4. \A i \in 1 .. b : r.buffer[i] = 0 => i = b
  BY DEF Fit, SentinelLast
<1> HIDE DEF s, h, b
<1>5. ASSUME NEW i \in 1 .. NumbersOf(s), s[i] = 0 PROVE FALSE
  <2>1. i \in 1 .. h + b /\ NumbersOf(s) \in Nat /\ NumbersOf(s) <= h + b
    BY <1>2, NumbersInIs
  <2>2. ~(i <= h)
    BY <1>2, <1>3, <1>5, <2>1
  <2>3. i - h \in 1 .. b /\ r.buffer[i - h] = 0
    BY <1>2, <1>5, <2>1, <2>2
  <2>4. i = Len(s)
    BY <1>2, <1>4, <2>1, <2>3
  <2>5. s # <<>>
    BY <1>2, <2>1, <2>4, EmptySeq
  <2>6. NumbersOf(s) = Len(s) - 1
    BY <1>5, <2>4, <2>5 DEF NumbersOf
  <2> QED BY <1>2, <2>1, <2>4, <2>6
<1>6. Sent(r) = <<>> \/ Sent(r) = s
  BY DEF Sent, s
<1>7. CASE Sent(r) = <<>>
  <2>1. <<>> \in Seq(Nat) /\ NumbersOf(<<>>) = 0
    BY EmptySeq DEF NumbersOf
  <2>2. \A i \in 1 .. NumbersOf(Sent(r)) : FALSE
    BY <1>7, <2>1
  <2> QED BY <1>1, <1>7, <2>1, <2>2
<1>8. CASE Sent(r) = s
  BY <1>1, <1>2, <1>5, <1>8
<1> QED BY <1>6, <1>7, <1>8

\* The outstanding items of the promise, as places.
Outstanding == UNION {{p} \X DOMAIN JQ!Pending(p) : p \in Procs}

\* They are in the pipe or have a place behind it.
LEMMA OutstandingCount ==
  ASSUME QueueIInv
  PROVE  /\ IsFiniteSet(Outstanding) /\ Cardinality(Outstanding) \in Nat
         /\ Cardinality(Outstanding) <= Len(pipe) + Cardinality(JQ!Behind)
<1> DEFINE lead == [p \in Procs |-> Len(JQ!OwnIn(p, pipe))]
           shift == [b \in JQ!Behind |-> <<b[1], b[2] + lead[b[1]]>>]
           Shifted == {shift[b] : b \in JQ!Behind}
<1>1. pipe \in Seq(Procs \X Nat) /\ IsFiniteSet(JQ!Behind) /\ \A p \in Procs : Fit(q[p])
  BY DEF QueueIInv, QueueTypeOK
<1>2. IsFiniteSet(OwnPlaces(pipe)) /\ Cardinality(OwnPlaces(pipe)) <= Len(pipe)
  BY <1>1, OwnPlacesCount
<1>3. IsFiniteSet(Shifted) /\ Cardinality(Shifted) <= Cardinality(JQ!Behind)
  <2>1. shift \in Surjection(JQ!Behind, Shifted)
    BY DEF Surjection
  <2> HIDE DEF shift, Shifted
  <2> QED BY <1>1, <2>1, FS_Surjection
<1>4. Outstanding \subseteq OwnPlaces(pipe) \cup Shifted
  <2> SUFFICES ASSUME NEW y \in Outstanding PROVE y \in OwnPlaces(pipe) \/ y \in Shifted
    OBVIOUS
  <2>1. PICK p \in Procs : y \in {p} \X DOMAIN JQ!Pending(p)
    BY DEF Outstanding
  <2> DEFINE a == JQ!OwnIn(p, pipe)
             u == JQ!Unsent(p)
             b == JQ!NumbersIn(u)
  <2>2. a \in Seq(Nat) /\ Len(a) \in Nat /\ lead[p] = Len(a)
    BY <1>1, OwnInType, LenProperties
  <2>3. u \in Seq(Nat) /\ \A i \in 1 .. NumbersOf(u) : u[i] # 0
    <3>1. u = Sent(q[p])
      BY DEF JQ!Unsent, JQ!Broken, Sent
    <3> QED BY <1>1, <3>1, SentNumbers
  <2> HIDE DEF u
  <2>4. /\ b \in Seq(Nat) /\ Len(b) = NumbersOf(u) /\ NumbersOf(u) \in Nat
        /\ NumbersOf(u) <= Len(u) /\ Len(u) \in Nat
    BY <2>3, NumbersInIs
  <2>5. JQ!Pending(p) = a \o b
    BY DEF JQ!Pending, u
  <2> HIDE DEF a, b
  <2>6. DOMAIN (a \o b) = 1 .. Len(a) + NumbersOf(u)
    <3>1. a \in Seq(Nat) /\ b \in Seq(Nat) /\ Len(b) = NumbersOf(u)
      BY <2>2, <2>4
    <3>2. a \o b \in Seq(Nat) /\ Len(a \o b) = Len(a) + Len(b)
      BY Zenon, <3>1, ConcatProperties
    <3>3. DOMAIN (a \o b) = 1 .. Len(a \o b)
      BY Zenon, <3>2, LenProperties
    <3> QED BY Zenon, <3>1, <3>2, <3>3
  <2>7. PICK i \in 1 .. Len(a) + NumbersOf(u) : y = <<p, i>>
    BY <2>1, <2>5, <2>6
  <2>8. CASE i <= Len(a)
    <3>1. i \in 1 .. Len(a)
      BY <2>2, <2>8
    <3> QED BY <2>7, <3>1 DEF OwnPlaces, a
  <2>9. CASE ~(i <= Len(a))
    <3> DEFINE j == i - Len(a)
    <3>1. j \in 1 .. NumbersOf(u) /\ j \in 1 .. Len(u) /\ i = j + Len(a)
      BY <2>2, <2>4, <2>9
    <3> HIDE DEF j
    <3>2. j \in DOMAIN u /\ u[j] # 0
      BY <2>3, <3>1, LenProperties
    <3>3. <<p, j>> \in JQ!Behind
      BY <3>2 DEF JQ!Behind, JQ!Sentinel, u
    <3>4. shift[<<p, j>>] = <<p, j + lead[p]>>
      BY <3>3
    <3> QED BY <2>2, <2>7, <3>1, <3>3, <3>4
  <2> QED BY <2>2, <2>8, <2>9
<1> HIDE DEF Shifted
<1>5. /\ Cardinality(OwnPlaces(pipe)) \in Nat /\ Cardinality(Shifted) \in Nat
      /\ Cardinality(JQ!Behind) \in Nat /\ Len(pipe) \in Nat
      /\ Cardinality(OwnPlaces(pipe) \cap Shifted) \in Nat
  BY <1>1, <1>2, <1>3, FS_CardinalityType, FS_Intersection, LenProperties
<1>6. /\ IsFiniteSet(OwnPlaces(pipe) \cup Shifted)
      /\ Cardinality(OwnPlaces(pipe) \cup Shifted) <= Len(pipe) + Cardinality(JQ!Behind)
      /\ Cardinality(OwnPlaces(pipe) \cup Shifted) \in Nat
  <2>1. /\ IsFiniteSet(OwnPlaces(pipe) \cup Shifted)
        /\ Cardinality(OwnPlaces(pipe) \cup Shifted) =
             Cardinality(OwnPlaces(pipe)) + Cardinality(Shifted) - Cardinality(OwnPlaces(pipe) \cap Shifted)
    BY <1>2, <1>3, FS_Union
  <2> QED BY <1>2, <1>3, <1>5, <2>1, FS_CardinalityType
<1>7. IsFiniteSet(Outstanding) /\ Cardinality(Outstanding) <= Cardinality(OwnPlaces(pipe) \cup Shifted)
  BY <1>4, <1>6, FS_Subset
<1>8. Cardinality(Outstanding) \in Nat
  BY <1>7, FS_CardinalityType
<1> QED BY <1>5, <1>6, <1>7, <1>8

\* What of the items of p is on its way when p is in state r and the pipe holds s.
OnWay(s, r, p) == JQ!OwnIn(p, s) \o JQ!NumbersIn(Sent(r))
Lost(r) == r.feeder \in {"failed", "killed"}

\* That is what the queue maps to.
LEMMA Mapped ==
  /\ \A p \in Procs : /\ JQ!Pending(p) = OnWay(pipe, q[p], p)
                      /\ JQ!Pending(p)' = OnWay(pipe', q'[p], p)
                      /\ p \in JQ!Broken <=> Lost(q[p])
                      /\ p \in JQ!Broken' <=> Lost(q'[p])
  /\ JQ!Broken \subseteq Procs /\ JQ!Broken' \subseteq Procs
<1>1. \A p \in Procs : JQ!Unsent(p) = Sent(q[p]) /\ JQ!Unsent(p)' = Sent(q'[p])
  BY DEF JQ!Unsent, JQ!Broken, Sent
<1> QED BY <1>1 DEF JQ!Pending, OnWay, JQ!Broken, Lost

\* Nothing that the promise is about happens to the items of these processes.
Quiet(P) ==
  \A p \in P :
    /\ OnWay(pipe', q'[p], p) = OnWay(pipe, q[p], p)
    /\ q'[p].puts = q[p].puts
    /\ Lost(q'[p]) <=> Lost(q[p])

\* A process that is not born has put nothing and has no feeder.
Unborn(r) == r.pc = "unborn" => r.feeder = "none" /\ r.puts = 0

\* The steps of the promise.
LEMMA StutterMaps == ASSUME Quiet(Procs) PROVE UNCHANGED JQ!Promise!vars
<1>1. \A p \in Procs : JQ!Pending(p)' = JQ!Pending(p) /\ q'[p].puts = q[p].puts
  BY Mapped DEF Quiet
<1>2. JQ!Broken' = JQ!Broken
  BY Mapped DEF Quiet
<1> QED BY <1>1, <1>2 DEF JQ!Promise!vars

\* A number more, if the process is not broken.
LEMMA PutMaps ==
  ASSUME NEW p \in Procs, Quiet(Procs \ {p}), q'[p].puts = q[p].puts + 1,
         Lost(q'[p]) <=> Lost(q[p]),
         IF Lost(q[p]) THEN OnWay(pipe', q'[p], p) = OnWay(pipe, q[p], p)
         ELSE /\ JQ!Promise!Room
              /\ OnWay(pipe', q'[p], p) = Append(OnWay(pipe, q[p], p), q[p].puts + 1)
  PROVE  JQ!Promise!Put(p)
<1>1. \A r \in Procs \ {p} : JQ!Pending(r)' = JQ!Pending(r) /\ q'[r].puts = q[r].puts
  BY Mapped DEF Quiet
<1>2. JQ!Broken' = JQ!Broken
  BY Mapped DEF Quiet
<1>3. [r \in Procs |-> q'[r].puts] = [[r \in Procs |-> q[r].puts] EXCEPT ![p] = @ + 1]
  BY <1>1
<1>4. CASE Lost(q[p])
  <2>1. \A r \in Procs : JQ!Pending(r)' = JQ!Pending(r)
    BY <1>1, <1>4, Mapped
  <2>2. [r \in Procs |-> JQ!Pending(r)'] = [r \in Procs |-> JQ!Pending(r)]
    BY <2>1
  <2>3. p \in JQ!Broken
    BY <1>4, Mapped
  <2> QED BY <1>2, <1>3, <2>2, <2>3 DEF JQ!Promise!Put
<1>5. CASE ~Lost(q[p])
  <2>1. JQ!Pending(p)' = Append(JQ!Pending(p), q[p].puts + 1)
    BY <1>5, Mapped
  <2>2. [r \in Procs |-> JQ!Pending(r)'] =
          [[r \in Procs |-> JQ!Pending(r)] EXCEPT ![p] = Append(@, q[p].puts + 1)]
    BY <1>1, <2>1
  <2>3. p \notin JQ!Broken
    BY <1>5, Mapped
  <2> QED BY <1>2, <1>3, <1>5, <2>2, <2>3 DEF JQ!Promise!Put
<1> QED BY <1>4, <1>5

\* A number less.
LEMMA ReceiveMaps ==
  ASSUME NEW p \in Procs, Quiet(Procs \ {p}), q'[p].puts = q[p].puts,
         Lost(q'[p]) <=> Lost(q[p]),
         OnWay(pipe, q[p], p) # <<>>, OnWay(pipe', q'[p], p) = Tail(OnWay(pipe, q[p], p))
  PROVE  JQ!Promise!Receive(p)
<1>1. \A r \in Procs \ {p} : JQ!Pending(r)' = JQ!Pending(r) /\ q'[r].puts = q[r].puts
  BY Mapped DEF Quiet
<1>2. JQ!Broken' = JQ!Broken
  BY Mapped DEF Quiet
<1>3. [r \in Procs |-> q'[r].puts] = [r \in Procs |-> q[r].puts]
  BY <1>1
<1>4. JQ!Pending(p) # <<>> /\ JQ!Pending(p)' = Tail(JQ!Pending(p))
  BY Mapped
<1>5. [r \in Procs |-> JQ!Pending(r)'] = [[r \in Procs |-> JQ!Pending(r)] EXCEPT ![p] = Tail(@)]
  BY <1>1, <1>4
<1> QED BY <1>2, <1>3, <1>4, <1>5 DEF JQ!Promise!Receive

\* The numbers are cut off somewhere, and the process is broken.
LEMMA BreakDownMaps ==
  ASSUME NEW p \in Procs, Quiet(Procs \ {p}), q'[p].puts = q[p].puts,
         ~Lost(q[p]), Lost(q'[p]),
         NEW l \in 0 .. Len(OnWay(pipe, q[p], p)),
         OnWay(pipe', q'[p], p) = SubSeq(OnWay(pipe, q[p], p), 1, l)
  PROVE  JQ!Promise!BreakDown(p)
<1>1. \A r \in Procs \ {p} : JQ!Pending(r)' = JQ!Pending(r) /\ q'[r].puts = q[r].puts
  BY Mapped DEF Quiet
<1>2. p \notin JQ!Broken /\ JQ!Broken' = JQ!Broken \cup {p}
  BY Mapped DEF Quiet
<1>3. [r \in Procs |-> q'[r].puts] = [r \in Procs |-> q[r].puts]
  BY <1>1
<1>4. JQ!Pending(p)' = SubSeq(JQ!Pending(p), 1, l) /\ l \in 0 .. Len(JQ!Pending(p))
  BY Mapped
<1>5. [r \in Procs |-> JQ!Pending(r)'] =
        [[r \in Procs |-> JQ!Pending(r)] EXCEPT ![p] = JQ!Pending(p)']
  BY <1>1
<1>6. JQ!Pending(p)' \in JQ!Promise!Prefixes(JQ!Pending(p))
  BY <1>4 DEF JQ!Promise!Prefixes
<1> QED BY <1>2, <1>3, <1>5, <1>6 DEF JQ!Promise!BreakDown

\* What is needed of the queue before a step, and what its step does.
DeliveryIInv == QueueIInv /\ \A p \in Procs : Unborn(q[p])
Maps == (JQ!Promise!Next \/ UNCHANGED JQ!Promise!vars) /\ \A p \in Procs : Unborn(q'[p])

\* p is now in state r, and the other processes are as they were.
Becomes(p, r) ==
  /\ q'[p] = r /\ \A o \in Procs \ {p} : q'[o] = q[o]
  /\ r.pc # "unborn"

\* The usual form of a step of MPQueue.
LEMMA BecomesStep ==
  ASSUME DeliveryIInv, NEW p \in Procs, NEW r, q' = [q EXCEPT ![p] = r], r.pc # "unborn"
  PROVE  /\ Becomes(p, r) /\ Fit(q[p]) /\ q[p] \in QueueStates
         /\ \A o \in Procs : Unborn(q'[o])
<1>1. q \in [Procs -> QueueStates] /\ \A o \in Procs : Fit(q[o]) /\ Unborn(q[o])
  BY DEF DeliveryIInv, QueueIInv, QueueTypeOK
<1>2. q'[p] = r /\ \A o \in Procs \ {p} : q'[o] = q[o]
  BY <1>1
<1>3. Unborn(r)
  BY DEF Unborn
<1> QED BY <1>1, <1>2, <1>3 DEF Becomes

\* The other processes have nothing to do with it, if the pipe is as it was.
LEMMA OthersQuiet ==
  ASSUME NEW p \in Procs, NEW r, Becomes(p, r), pipe' = pipe
  PROVE  Quiet(Procs \ {p})
  BY DEF Becomes, Quiet

\* Steps that leave the items where they are.
LEMMA QuietMaps ==
  ASSUME DeliveryIInv, NEW p \in Procs, NEW r, q' = [q EXCEPT ![p] = r], r.pc # "unborn",
         pipe' = pipe, JQ!NumbersIn(Sent(r)) = JQ!NumbersIn(Sent(q[p])),
         r.puts = q[p].puts, Lost(r) <=> Lost(q[p])
  PROVE  Maps
<1>1. Becomes(p, r) /\ \A o \in Procs : Unborn(q'[o])
  BY BecomesStep
<1>2. OnWay(pipe', q'[p], p) = OnWay(pipe, q[p], p)
  BY <1>1 DEF Becomes, OnWay
<1>3. Quiet(Procs)
  BY <1>1, <1>2 DEF Becomes, Quiet
<1> QED BY <1>1, <1>3, StutterMaps DEF Maps

\* Steps that touch neither buffer nor hand.
LEMMA AlikeMaps ==
  ASSUME DeliveryIInv, NEW p \in Procs, NEW r, q' = [q EXCEPT ![p] = r], r.pc # "unborn",
         pipe' = pipe, r.hand = q[p].hand, r.buffer = q[p].buffer,
         r.puts = q[p].puts, Lost(r) <=> Lost(q[p])
  PROVE  Maps
<1>1. Sent(r) = Sent(q[p])
  BY DEF Sent, Lost
<1> QED BY <1>1, QuietMaps

\* The client goes on, ...
LEMMA PcMaps ==
  ASSUME DeliveryIInv, NEW p \in Procs, NEW x, q' = [q EXCEPT ![p].pc = x], x # "unborn",
         pipe' = pipe
  PROVE  Maps
<1> DEFINE s == q[p]
           r == [s EXCEPT !.pc = x]
<1>1. q' = [q EXCEPT ![p] = r] /\ s \in QueueStates
  BY DEF DeliveryIInv, QueueIInv, QueueTypeOK
<1> HIDE DEF s
<1>2. /\ r.pc = x /\ r.hand = s.hand /\ r.buffer = s.buffer /\ r.puts = s.puts
      /\ r.feeder = s.feeder
  BY <1>1 DEF QueueStates
<1> HIDE DEF r
<1> QED BY <1>1, <1>2, AlikeMaps DEF Lost, s

\* ... or the feeder.
LEMMA FeederMaps ==
  ASSUME DeliveryIInv, NEW p \in Procs, NEW x, q' = [q EXCEPT ![p].feeder = x],
         x \notin {"failed", "killed"}, q[p].feeder \notin {"none", "failed", "killed"},
         pipe' = pipe
  PROVE  Maps
<1> DEFINE s == q[p]
           r == [s EXCEPT !.feeder = x]
<1>1. q' = [q EXCEPT ![p] = r] /\ s \in QueueStates /\ s.pc # "unborn"
  BY DEF DeliveryIInv, QueueIInv, QueueTypeOK, Unborn
<1> HIDE DEF s
<1>2. /\ r.pc = s.pc /\ r.hand = s.hand /\ r.buffer = s.buffer /\ r.puts = s.puts
      /\ r.feeder = x
  BY <1>1 DEF QueueStates
<1> HIDE DEF r
<1> QED BY <1>1, <1>2, AlikeMaps DEF Lost, s

\* Steps that only take a client to another place, ...
LEMMA ClientMaps ==
  ASSUME DeliveryIInv, NEW p \in Procs,
         \/ JQ!PutAcquire(p) \/ JQ!PutEnter(p) \/ JQ!Get(p) \/ JQ!GetEmpty(p)
         \/ JQ!GetReturn(p) \/ JQ!Join(p) \/ JQ!JoinReturn(p) \/ JQ!JoinThread(p)
         \/ JQ!JoinThreadReturn(p)
  PROVE  Maps
<1>1. CASE JQ!PutAcquire(p)
  BY <1>1, PcMaps DEF JQ!PutAcquire
<1>2. CASE JQ!PutEnter(p)
  BY <1>2, PcMaps DEF JQ!PutEnter, JQ!shared
<1>3. CASE JQ!Get(p)
  BY <1>3, PcMaps DEF JQ!Get
<1>4. CASE JQ!GetEmpty(p)
  BY <1>4, PcMaps DEF JQ!GetEmpty
<1>5. CASE JQ!GetReturn(p)
  BY <1>5, PcMaps DEF JQ!GetReturn
<1>6. CASE JQ!Join(p)
  BY <1>6, PcMaps DEF JQ!Join, JQ!shared
<1>7. CASE JQ!JoinReturn(p)
  BY <1>7, PcMaps DEF JQ!JoinReturn, JQ!shared
<1>8. CASE JQ!JoinThread(p)
  BY <1>8, PcMaps DEF JQ!JoinThread, JQ!shared
<1>9. CASE JQ!JoinThreadReturn(p)
  BY <1>9, PcMaps DEF JQ!JoinThreadReturn, JQ!shared
<1> QED BY <1>1, <1>2, <1>3, <1>4, <1>5, <1>6, <1>7, <1>8, <1>9

\* ... a feeder, ...
LEMMA FeederGoesOnMaps ==
  ASSUME DeliveryIInv, NEW p \in Procs,
         JQ!FeedCheck(p) \/ JQ!FeedWake(p) \/ JQ!FeedLock(p) \/ JQ!FeedUnlock(p)
  PROVE  Maps
<1>1. CASE JQ!FeedCheck(p)
  <2> DEFINE x == IF q[p].buffer = <<>> THEN "waiting" ELSE "pop"
  <2>1. q' = [q EXCEPT ![p].feeder = x] /\ q[p].feeder = "check" /\ pipe' = pipe
    BY <1>1 DEF JQ!FeedCheck, JQ!FeederAt, JQ!shared
  <2>2. x \in {"waiting", "pop"}
    OBVIOUS
  <2> HIDE DEF x
  <2> QED BY <2>1, <2>2, FeederMaps
<1>2. CASE JQ!FeedWake(p)
  <2>1. q' = [q EXCEPT ![p].feeder = "pop"] /\ q[p].feeder = "notified" /\ pipe' = pipe
    BY <1>2 DEF JQ!FeedWake, JQ!FeederAt, JQ!shared
  <2>2. "pop" \notin {"failed", "killed"} /\ q[p].feeder \notin {"none", "failed", "killed"}
    BY <2>1
  <2> QED BY <2>1, <2>2, FeederMaps
<1>3. CASE JQ!FeedLock(p)
  <2>1. q' = [q EXCEPT ![p].feeder = "send"] /\ q[p].feeder = "lock" /\ pipe' = pipe
    BY <1>3 DEF JQ!FeedLock, JQ!FeederAt
  <2>2. "send" \notin {"failed", "killed"} /\ q[p].feeder \notin {"none", "failed", "killed"}
    BY <2>1
  <2> QED BY <2>1, <2>2, FeederMaps
<1>4. CASE JQ!FeedUnlock(p)
  <2>1. q' = [q EXCEPT ![p].feeder = "pop"] /\ q[p].feeder = "unlock" /\ pipe' = pipe
    BY <1>4 DEF JQ!FeedUnlock, JQ!FeederAt
  <2>2. "pop" \notin {"failed", "killed"} /\ q[p].feeder \notin {"none", "failed", "killed"}
    BY <2>1
  <2> QED BY <2>1, <2>2, FeederMaps
<1> QED BY <1>1, <1>2, <1>3, <1>4

\* ... or both.
LEMMA PutCountMaps ==
  ASSUME DeliveryIInv, NEW p \in Procs, JQ!PutCount(p) PROVE Maps
<1> DEFINE s == q[p]
           f == JQ!Notified(s.feeder)
           r == [s EXCEPT !.pc = "out", !.feeder = f]
<1>1. s \in QueueStates /\ q \in [Procs -> QueueStates] /\ pipe' = pipe /\ s = q[p]
  BY DEF DeliveryIInv, QueueIInv, QueueTypeOK, JQ!PutCount
<1>2. q' = [q EXCEPT ![p] = r]
  BY <1>1 DEF JQ!PutCount
<1>3. f = s.feeder \/ (f = "notified" /\ s.feeder = "waiting")
  BY DEF JQ!Notified
<1> HIDE DEF s, f
<1>4. /\ r.pc = "out" /\ r.hand = s.hand /\ r.buffer = s.buffer /\ r.puts = s.puts
      /\ r.feeder = f
  BY <1>1 DEF QueueStates
<1> HIDE DEF r
<1>5. Lost(r) <=> Lost(s)
  BY <1>3, <1>4 DEF Lost
<1> QED BY <1>1, <1>2, <1>4, <1>5, AlikeMaps

\* cancel_join_thread() is a promise to lose items, and loses none yet.
LEMMA CancelJoinThreadMaps ==
  ASSUME DeliveryIInv, NEW p \in Procs, JQ!CancelJoinThread(p) PROVE Maps
<1> DEFINE s == q[p]
           r == [s EXCEPT !.cancelled = TRUE]
<1>1. /\ s \in QueueStates /\ q' = [q EXCEPT ![p] = r] /\ pipe' = pipe /\ s = q[p]
      /\ s.pc = "out"
  BY DEF DeliveryIInv, QueueIInv, QueueTypeOK, JQ!CancelJoinThread, JQ!shared, JQ!At
<1> HIDE DEF s
<1>2. /\ r.pc = s.pc /\ r.hand = s.hand /\ r.buffer = s.buffer /\ r.puts = s.puts
      /\ r.feeder = s.feeder
  BY <1>1 DEF QueueStates
<1> HIDE DEF r
<1>3. Lost(r) <=> Lost(s)
  BY <1>2 DEF Lost
<1> QED BY <1>1, <1>2, <1>3, AlikeMaps

\* A forked process begins with nothing, and had nothing before.
LEMMA ForkMaps ==
  ASSUME DeliveryIInv, NEW p \in Procs, NEW child \in Procs, JQ!Fork(p, child) PROVE Maps
<1> DEFINE s == q[child]
           r == JQ!Fresh(p)
<1>1. /\ q' = [q EXCEPT ![child] = r] /\ Fit(s) /\ Unborn(s) /\ s.pc = "unborn"
      /\ pipe' = pipe /\ s = q[child]
  BY DEF DeliveryIInv, QueueIInv, QueueTypeOK, JQ!Fork, JQ!At, JQ!shared
<1> HIDE DEF s
<1>2. s.feeder = "none" /\ s.puts = 0 /\ s.buffer = <<>> /\ s.hand = <<>>
  BY <1>1 DEF Unborn, Fit, NothingBehind, InHand
<1>3. r.pc = "out" /\ r.feeder = "none" /\ r.buffer = <<>> /\ r.hand = <<>> /\ r.puts = 0
  BY DEF JQ!Fresh
<1> HIDE DEF r
<1>4. Lost(r) <=> Lost(s)
  BY <1>2, <1>3 DEF Lost
<1> QED BY <1>1, <1>2, <1>3, <1>4, AlikeMaps

\* task_done() wakes those in join(), and touches no item.
LEMMA TaskDoneMaps ==
  ASSUME DeliveryIInv, NEW p \in Procs, JQ!TaskDone(p) PROVE Maps
<1> DEFINE J == JQ!JoinersNotified
           w == IF unfinished' = 0 THEN J ELSE q
           Alike(a, b) == /\ a.hand = b.hand /\ a.buffer = b.buffer /\ a.feeder = b.feeder
                          /\ a.puts = b.puts /\ (a.pc = "unborn" => b.pc = "unborn")
<1>1. /\ q \in [Procs -> QueueStates] /\ \A u \in Procs : Unborn(q[u])
      /\ q[p].pc = "out" /\ pipe' = pipe
      /\ q' = [w EXCEPT ![p].owed = @ - 1]
  BY DEF DeliveryIInv, QueueIInv, QueueTypeOK, JQ!TaskDone, JQ!At
<1>2. J = [u \in Procs |-> IF q[u].pc = "joining" THEN [q[u] EXCEPT !.pc = "joined"] ELSE q[u]]
  BY DEF JQ!JoinersNotified, JQ!At
<1> HIDE DEF J
<1>3. ASSUME NEW u \in Procs PROVE Alike(w[u], q[u])
  <2> DEFINE a == q[u]
             b == [a EXCEPT !.pc = "joined"]
  <2>1. a \in QueueStates
    BY <1>1
  <2> HIDE DEF a
  <2>2. Alike(b, a) /\ Alike(a, a)
    BY <2>1 DEF QueueStates
  <2> HIDE DEF b
  <2>3. w[u] = a \/ w[u] = b
    BY <1>2 DEF a, b
  <2> HIDE DEF w
  <2> QED BY <2>2, <2>3 DEF a
<1>4. w[p] = q[p] /\ w \in [Procs -> {w[u] : u \in Procs}]
  BY <1>1, <1>2
<1> HIDE DEF w
<1>5. Alike([w[p] EXCEPT !.owed = w[p].owed - 1], w[p])
  <2> DEFINE a == w[p]
             n == a.owed - 1
  <2>1. a \in QueueStates
    BY <1>1, <1>4
  <2> HIDE DEF a, n
  <2>2. Alike([a EXCEPT !.owed = n], a)
    BY <2>1 DEF QueueStates
  <2> QED BY <2>2 DEF a, n
<1>6. q'[p] = [w[p] EXCEPT !.owed = w[p].owed - 1] /\ \A u \in Procs \ {p} : q'[u] = w[u]
  BY <1>1, <1>4
<1>7. ASSUME NEW u \in Procs PROVE Alike(q'[u], q[u])
  <2>1. CASE u = p
    BY <1>4, <1>5, <1>6, <2>1
  <2>2. CASE u # p
    BY <1>3, <1>6, <2>2
  <2> QED BY <2>1, <2>2
<1>8. ASSUME NEW u \in Procs
      PROVE  /\ OnWay(pipe', q'[u], u) = OnWay(pipe, q[u], u) /\ q'[u].puts = q[u].puts
             /\ Lost(q'[u]) <=> Lost(q[u])
             /\ Unborn(q'[u])
  <2>1. Sent(q'[u]) = Sent(q[u])
    BY <1>7 DEF Sent
  <2>2. Unborn(q'[u])
    BY <1>1, <1>7 DEF Unborn
  <2> QED BY <1>1, <1>7, <2>1, <2>2 DEF OnWay, Lost
<1> QED BY <1>8, StutterMaps DEF Quiet, Maps

\* Before the feeder is told, there is no sentinel.
LEMMA UntoldNumbers ==
  ASSUME NEW r, Fit(r), ~r.told
  PROVE  /\ Sent(r) \in Seq(Nat) /\ \A i \in 1 .. Len(Sent(r)) : Sent(r)[i] # 0
         /\ JQ!NumbersIn(Sent(r)) = Sent(r)
<1>1. r.hand \in Seq(Nat) /\ r.buffer \in Seq(Nat) /\ Sent(r) \in Seq(Nat)
  BY SentNumbers
<1> DEFINE s == r.hand \o r.buffer
           h == Len(r.hand)
           b == Len(r.buffer)
<1>2. /\ s \in Seq(Nat) /\ Len(s) = h + b /\ h \in Nat /\ b \in Nat
      /\ \A i \in 1 .. h + b : s[i] = IF i <= h THEN r.hand[i] ELSE r.buffer[i - h]
  BY <1>1, ConcatProperties, LenProperties
<1>3. \A i \in 1 .. h : r.hand[i] # 0
  <2>1. CASE r.feeder \in {"lock", "send"}
    BY <2>1 DEF Fit, InHand
  <2>2. CASE r.feeder \notin {"lock", "send"}
    <3>1. h = 0
      BY <2>2, EmptySeq DEF Fit, InHand
    <3> QED BY <3>1
  <2> QED BY <2>1, <2>2
<1>4. \A i \in 1 .. b : r.buffer[i] # 0
  BY DEF Fit, SentinelLast
<1> HIDE DEF s, h, b
<1>5. ASSUME NEW i \in 1 .. Len(s) PROVE s[i] # 0
  <2>1. CASE i <= h
    BY <1>2, <1>3, <2>1
  <2>2. CASE ~(i <= h)
    <3>1. i - h \in 1 .. b
      BY <1>2, <2>2
    <3> QED BY <1>2, <1>4, <2>2, <3>1
  <2> QED BY <2>1, <2>2
<1>6. \A i \in 1 .. Len(Sent(r)) : Sent(r)[i] # 0
  <2>1. CASE Sent(r) = <<>>
    <3>1. Len(Sent(r)) = 0
      BY <2>1, EmptySeq
    <3> QED BY <3>1
  <2>2. CASE Sent(r) = s
    BY <1>5, <2>2
  <2> QED BY <2>1, <2>2 DEF Sent, s
<1> QED BY <1>1, <1>6, NumbersInAll

\* The sentinel is no item.
LEMMA TellMaps ==
  ASSUME NEW s, Fit(s)
  PROVE  LET t == JQ!Tell(s) IN
         /\ t \in QueueStates /\ JQ!NumbersIn(Sent(t)) = JQ!NumbersIn(Sent(s))
         /\ t.puts = s.puts /\ t.pc = s.pc /\ (Lost(t) <=> Lost(s))
<1> DEFINE t == JQ!Tell(s)
<1>1. s \in QueueStates
  BY DEF Fit
<1>2. CASE s.told \/ s.feeder = "none"
  <2>1. t = s
    BY <1>2 DEF JQ!Tell
  <2> HIDE DEF t
  <2> QED BY <1>1, <2>1 DEF t
<1>3. CASE ~s.told /\ s.feeder # "none"
  <2> DEFINE b == Append(s.buffer, 0)
  <2>1. t = [s EXCEPT !.told = TRUE, !.buffer = b,
                      !.feeder = IF s.feeder = "waiting" THEN "notified" ELSE s.feeder]
    BY <1>3 DEF JQ!Tell, JQ!Notified, JQ!Sentinel
  <2>2. s.buffer \in Seq(Nat) /\ s.hand \in Seq(Nat) /\ b \in Seq(Nat)
    BY <1>1, AppendProperties DEF QueueStates
  <2> HIDE DEF b
  <2>3. /\ t \in QueueStates /\ t.buffer = b /\ t.hand = s.hand
        /\ t.feeder = IF s.feeder = "waiting" THEN "notified" ELSE s.feeder
        /\ t.pc = s.pc /\ t.puts = s.puts
    BY <1>1, <2>1, <2>2 DEF QueueStates, JQ!FeederPlaces, JQ!FeederStopped
  <2> HIDE DEF t
  <2>4. t.feeder \in {"failed", "killed"} <=> s.feeder \in {"failed", "killed"}
    BY <2>3
  <2>5. CASE s.feeder \in {"failed", "killed"}
    <3>1. Sent(t) = Sent(s)
      BY <2>4, <2>5 DEF Sent
    <3> QED BY <2>3, <2>4, <3>1 DEF Lost, t
  <2>6. CASE s.feeder \notin {"failed", "killed"}
    <3>1. s.hand \o b = Append(s.hand \o s.buffer, 0)
      BY <2>2, SentAppend DEF b
    <3>2. Sent(t) = Append(Sent(s), 0)
      BY <2>3, <2>4, <2>6, <3>1 DEF Sent
    <3>3. Sent(s) \in Seq(Nat) /\ JQ!NumbersIn(Sent(s)) = Sent(s)
      BY <1>3, UntoldNumbers
    <3>4. JQ!NumbersIn(Append(Sent(s), 0)) = Sent(s)
      BY <3>3, NumbersInTold
    <3> QED BY <2>3, <2>4, <3>2, <3>3, <3>4 DEF Lost, t
  <2> QED BY <2>5, <2>6
<1> QED BY <1>2, <1>3

\* close() puts the sentinel ...
LEMMA CloseMaps == ASSUME DeliveryIInv, NEW p \in Procs, JQ!Close(p) PROVE Maps
<1> DEFINE s == q[p]
           t == JQ!Tell(s)
           r == [t EXCEPT !.closed = TRUE]
<1>1. /\ q' = [q EXCEPT ![p] = r] /\ Fit(s) /\ s.pc = "out" /\ pipe' = pipe /\ s = q[p]
  BY DEF DeliveryIInv, QueueIInv, QueueTypeOK, JQ!Close, JQ!At, JQ!shared
<1> HIDE DEF s
<1>2. /\ t \in QueueStates /\ JQ!NumbersIn(Sent(t)) = JQ!NumbersIn(Sent(s))
      /\ t.puts = s.puts /\ t.pc = s.pc /\ (Lost(t) <=> Lost(s))
  BY <1>1, TellMaps
<1> HIDE DEF t
<1>3. /\ r.feeder = t.feeder /\ r.buffer = t.buffer /\ r.hand = t.hand /\ r.puts = t.puts
      /\ r.pc = t.pc
  BY <1>2 DEF QueueStates
<1> HIDE DEF r
<1>4. Sent(r) = Sent(t) /\ (Lost(r) <=> Lost(t))
  BY <1>3 DEF Sent, Lost
<1> QED BY <1>1, <1>2, <1>3, <1>4, QuietMaps

\* ... and so does the exit of a process.
LEMMA ExitMaps == ASSUME DeliveryIInv, NEW p \in Procs, JQ!Exit(p) PROVE Maps
<1> DEFINE s == q[p]
           t == JQ!Tell(s)
           r == [t EXCEPT !.pc = "exiting"]
<1>1. /\ q' = [q EXCEPT ![p] = r] /\ Fit(s) /\ s.pc = "out" /\ pipe' = pipe /\ s = q[p]
  BY DEF DeliveryIInv, QueueIInv, QueueTypeOK, JQ!Exit, JQ!At, JQ!shared
<1> HIDE DEF s
<1>2. /\ t \in QueueStates /\ JQ!NumbersIn(Sent(t)) = JQ!NumbersIn(Sent(s))
      /\ t.puts = s.puts /\ t.pc = s.pc /\ (Lost(t) <=> Lost(s))
  BY <1>1, TellMaps
<1> HIDE DEF t
<1>3. /\ r.feeder = t.feeder /\ r.buffer = t.buffer /\ r.hand = t.hand /\ r.puts = t.puts
      /\ r.pc = "exiting"
  BY <1>2 DEF QueueStates
<1> HIDE DEF r
<1>4. Sent(r) = Sent(t) /\ (Lost(r) <=> Lost(t))
  BY <1>3 DEF Sent, Lost
<1> QED BY <1>1, <1>2, <1>3, <1>4, QuietMaps

\* Nothing is sent by a feeder that has nothing.
LEMMA NumbersInEmpty == JQ!NumbersIn(<<>>) = <<>>
  BY DEF JQ!NumbersIn

\* popleft() takes the item into the hand, or the sentinel out.
LEMMA FeedPopMaps == ASSUME DeliveryIInv, NEW p \in Procs, JQ!FeedPop(p) PROVE Maps
<1> DEFINE s == q[p]
           t == Tail(s.buffer)
<1>1. /\ Fit(s) /\ Unborn(s) /\ s.feeder = "pop" /\ pipe' = pipe /\ s = q[p]
      /\ q \in [Procs -> QueueStates]
      /\ q' = [q EXCEPT ![p] =
                 IF s.buffer = <<>> THEN [s EXCEPT !.feeder = "check"]
                 ELSE IF Head(s.buffer) = 0 THEN [s EXCEPT !.feeder = "done", !.buffer = t]
                 ELSE [s EXCEPT !.feeder = "lock", !.buffer = t, !.hand = <<Head(s.buffer)>>]]
  BY DEF DeliveryIInv, QueueIInv, QueueTypeOK, JQ!FeedPop, JQ!FeederAt, JQ!Sentinel, JQ!shared
<1> HIDE DEF s
<1>2. s \in QueueStates /\ s.buffer \in Seq(Nat) /\ s.hand = <<>> /\ s.pc # "unborn"
  BY <1>1 DEF Fit, QueueStates, InHand, Unborn
<1>3. Sent(s) = s.buffer /\ ~Lost(s)
  BY <1>1, <1>2, ConcatEmptySeq DEF Sent, Lost
<1>4. CASE s.buffer = <<>>
  <2>1. q' = [q EXCEPT ![p].feeder = "check"]
    BY <1>1, <1>4
  <2>2. "check" \notin {"failed", "killed"} /\ q[p].feeder \notin {"none", "failed", "killed"}
    BY <1>1
  <2> QED BY <1>1, <2>1, <2>2, FeederMaps
<1>5. ASSUME s.buffer # <<>>
      PROVE  /\ t \in Seq(Nat) /\ Len(t) = Len(s.buffer) - 1 /\ Len(s.buffer) \in Nat \ {0}
             /\ \A i \in 1 .. Len(t) : t[i] = s.buffer[i + 1]
             /\ Head(s.buffer) \in Nat /\ Head(s.buffer) = s.buffer[1]
  BY <1>2, <1>5, HeadTailProperties, EmptySeq
<1>6. CASE s.buffer # <<>> /\ Head(s.buffer) = 0
  <2> DEFINE r == [s EXCEPT !.feeder = "done", !.buffer = t]
  <2>1. q' = [q EXCEPT ![p] = r]
    BY <1>1, <1>6
  <2>2. Len(s.buffer) = 1 /\ Len(t) = 0
    <3>1. 1 \in 1 .. Len(s.buffer)
      BY <1>5, <1>6
    <3>2. 1 = Len(s.buffer)
      BY <1>1, <1>5, <1>6, <3>1 DEF Fit, SentinelLast
    <3> QED BY <1>5, <1>6, <3>2
  <2>3. t = <<>>
    BY <1>5, <1>6, <2>2, EmptySeq
  <2>4. JQ!NumbersIn(s.buffer) = <<>>
    <3>1. NumbersOf(s.buffer) = 0
      BY <1>5, <1>6, <2>2 DEF NumbersOf
    <3>2. JQ!NumbersIn(s.buffer) \in Seq(Nat) /\ Len(JQ!NumbersIn(s.buffer)) = 0
      BY <1>2, <3>1, NumbersInIs
    <3> QED BY <3>2, EmptySeq
  <2>5. r.pc = s.pc /\ r.feeder = "done" /\ r.buffer = <<>> /\ r.hand = <<>> /\ r.puts = s.puts
    BY <1>2, <2>3 DEF QueueStates
  <2> HIDE DEF r
  <2>6. Sent(r) = <<>> /\ ~Lost(r)
    BY <2>5, EmptySeq, ConcatEmptySeq DEF Sent, Lost
  <2>7. JQ!NumbersIn(Sent(r)) = JQ!NumbersIn(Sent(s))
    BY <1>3, <2>4, <2>6, NumbersInEmpty
  <2> QED BY <1>1, <1>2, <1>3, <2>1, <2>5, <2>6, <2>7, QuietMaps
<1>7. CASE s.buffer # <<>> /\ Head(s.buffer) # 0
  <2> DEFINE h == Head(s.buffer)
             r == [s EXCEPT !.feeder = "lock", !.buffer = t, !.hand = <<h>>]
  <2>1. q' = [q EXCEPT ![p] = r]
    BY <1>1, <1>7
  <2>2. t \in Seq(Nat) /\ <<h>> \in Seq(Nat) /\ Len(<<h>>) = 1
    BY <1>5, <1>7
  <2>3. <<h>> \o t = s.buffer
    <3>1. /\ <<h>> \o t \in Seq(Nat) /\ Len(<<h>> \o t) = Len(s.buffer)
          /\ \A i \in 1 .. Len(s.buffer) : (<<h>> \o t)[i] = s.buffer[i]
      BY <1>5, <1>7, <2>2, ConcatProperties
    <3> QED BY <1>2, <3>1, SeqEqual
  <2> HIDE DEF h, t
  <2>4. r.pc = s.pc /\ r.feeder = "lock" /\ r.buffer = t /\ r.hand = <<h>> /\ r.puts = s.puts
    BY <1>2 DEF QueueStates
  <2> HIDE DEF r
  <2>5. Sent(r) = Sent(s) /\ ~Lost(r)
    BY <1>3, <2>3, <2>4 DEF Sent, Lost
  <2> QED BY <1>1, <1>2, <1>3, <2>1, <2>4, <2>5, QuietMaps
<1> QED BY <1>4, <1>6, <1>7

\* What the numbers of a process are made of.
LEMMA OnWayType ==
  ASSUME NEW s \in Seq(Procs \X Nat), NEW r, Fit(r), NEW p
  PROVE  /\ JQ!OwnIn(p, s) \in Seq(Nat) /\ JQ!NumbersIn(Sent(r)) \in Seq(Nat)
         /\ OnWay(s, r, p) \in Seq(Nat)
<1>1. JQ!OwnIn(p, s) \in Seq(Nat)
  BY OwnInType
<1>2. JQ!NumbersIn(Sent(r)) \in Seq(Nat)
  BY SentNumbers, NumbersInIs
<1> QED BY <1>1, <1>2, ConcatProperties DEF OnWay

\* A feeder that breaks down leaves what is in the pipe.
LEMMA LostMaps ==
  ASSUME DeliveryIInv, NEW p \in Procs, NEW r, q' = [q EXCEPT ![p] = r], r.pc # "unborn",
         pipe' = pipe, ~Lost(q[p]), Lost(r), r.puts = q[p].puts
  PROVE  Maps
<1> DEFINE a == JQ!OwnIn(p, pipe)
           b == JQ!NumbersIn(Sent(q[p]))
           l == Len(a)
<1>1. Becomes(p, r) /\ Fit(q[p]) /\ \A o \in Procs : Unborn(q'[o])
  BY BecomesStep
<1>2. pipe \in Seq(Procs \X Nat)
  BY DEF DeliveryIInv, QueueIInv, QueueTypeOK
<1>3. a \in Seq(Nat) /\ b \in Seq(Nat) /\ OnWay(pipe, q[p], p) = a \o b
  BY <1>1, <1>2, OnWayType DEF OnWay
<1>4. OnWay(pipe', q'[p], p) = a
  <2>1. Sent(r) = <<>>
    BY DEF Sent, Lost
  <2>2. a \o <<>> = a
    BY <1>3, ConcatEmptySeq
  <2> HIDE DEF a
  <2> QED BY <1>1, <2>1, <2>2, NumbersInEmpty DEF Becomes, OnWay, a
<1> HIDE DEF a, b
<1>5. /\ l \in Nat /\ a \o b \in Seq(Nat) /\ l <= Len(a \o b) /\ Len(a \o b) \in Nat
      /\ \A i \in 1 .. l : (a \o b)[i] = a[i]
  <2>1. l \in Nat /\ Len(b) \in Nat
    BY <1>3, LenProperties
  <2>2. /\ a \o b \in Seq(Nat) /\ Len(a \o b) = Len(a) + Len(b)
        /\ \A i \in 1 .. Len(a) + Len(b) : (a \o b)[i] = IF i <= Len(a) THEN a[i] ELSE b[i - Len(a)]
    BY <1>3, ConcatProperties
  <2> QED BY <2>1, <2>2
<1>6. SubSeq(a \o b, 1, l) = a
  <2> DEFINE c == a \o b
  <2>1. \A i \in 1 .. l : c[i] \in Nat
    BY <1>3, <1>5, ElementOfSeq
  <2>2. c \in Seq(Nat) /\ l \in Nat /\ l <= Len(c) /\ Len(c) \in Nat /\ \A i \in 1 .. l : c[i] = a[i]
    BY <1>5
  <2> HIDE DEF c
  <2>3. /\ SubSeq(c, 1, l) \in Seq(Nat)
        /\ Len(SubSeq(c, 1, l)) = IF 1 <= l THEN l - 1 + 1 ELSE 0
        /\ \A i \in 1 .. l - 1 + 1 : SubSeq(c, 1, l)[i] = c[1 + i - 1]
    BY <2>1, <2>2, SubSeqProperties
  <2>4. SubSeq(c, 1, l) \in Seq(Nat) /\ Len(SubSeq(c, 1, l)) = Len(a)
        /\ \A i \in 1 .. Len(a) : SubSeq(c, 1, l)[i] = a[i]
    BY <2>2, <2>3
  <2>5. SubSeq(c, 1, l) = a
    BY <1>3, <2>4, SeqEqual
  <2> QED BY <2>5 DEF c
<1>7. Quiet(Procs \ {p})
  BY <1>1, OthersQuiet
<1>8. /\ q'[p].puts = q[p].puts /\ Lost(q'[p])
      /\ l \in 0 .. Len(OnWay(pipe, q[p], p))
      /\ OnWay(pipe', q'[p], p) = SubSeq(OnWay(pipe, q[p], p), 1, l)
  BY <1>1, <1>3, <1>4, <1>5, <1>6 DEF Becomes
<1> HIDE DEF l
<1>9. JQ!Promise!BreakDown(p)
  BY <1>7, <1>8, BreakDownMaps
<1> QED BY <1>1, <1>9 DEF Maps, JQ!Promise!Next

\* send() raises.
LEMMA FeedFailMaps == ASSUME DeliveryIInv, NEW p \in Procs, JQ!FeedFail(p) PROVE Maps
<1> DEFINE s == q[p]
           r == [s EXCEPT !.feeder = "failed", !.hand = <<>>]
<1>1. /\ q' = [q EXCEPT ![p] = r] /\ s \in QueueStates /\ Unborn(s) /\ s.feeder = "send"
      /\ pipe' = pipe /\ s = q[p]
  BY DEF DeliveryIInv, QueueIInv, QueueTypeOK, JQ!FeedFail, JQ!FeederAt
<1> HIDE DEF s
<1>2. r.pc = s.pc /\ r.feeder = "failed" /\ r.puts = s.puts
  BY <1>1 DEF QueueStates
<1> HIDE DEF r
<1>3. Lost(r) /\ ~Lost(s) /\ r.pc # "unborn"
  BY <1>1, <1>2 DEF Lost, Unborn
<1> QED BY <1>1, <1>2, <1>3, LostMaps

\* The process ends, and its feeder with it.
LEMMA ExitEndMaps == ASSUME DeliveryIInv, NEW p \in Procs, JQ!ExitEnd(p) PROVE Maps
<1> DEFINE s == q[p]
           f == IF s.feeder \in JQ!FeederStopped THEN s.feeder ELSE "killed"
           r == [s EXCEPT !.pc = "dead", !.buffer = <<>>, !.hand = <<>>,
                          !.told = FALSE, !.closed = FALSE, !.cancelled = FALSE,
                          !.feeder = f]
<1>1. q' = [q EXCEPT ![p] = r]
  BY DEF JQ!ExitEnd
<1> HIDE DEF r
<1>2. Fit(s) /\ s \in QueueStates /\ pipe' = pipe /\ s = q[p]
  BY DEF DeliveryIInv, QueueIInv, QueueTypeOK, JQ!ExitEnd, JQ!shared
<1>3. IF s.feeder \in {"none", "done", "failed", "killed"} THEN f = s.feeder ELSE f = "killed"
  BY DEF JQ!FeederStopped
<1> HIDE DEF s, f
<1>4. r.pc = "dead" /\ r.feeder = f /\ r.buffer = <<>> /\ r.hand = <<>> /\ r.puts = s.puts
  BY <1>2 DEF QueueStates, r
<1>5. CASE s.feeder \in {"none", "done"}
  <2>1. s.buffer = <<>> /\ s.hand = <<>>
    BY <1>2, <1>5 DEF Fit, NothingBehind, InHand
  <2>2. Lost(r) <=> Lost(s)
    BY <1>3, <1>4, <1>5 DEF Lost
  <2> QED BY <1>1, <1>2, <1>4, <2>1, <2>2, AlikeMaps
<1>6. CASE s.feeder \in {"failed", "killed"}
  <2>1. Sent(r) = Sent(s) /\ (Lost(r) <=> Lost(s))
    BY <1>3, <1>4, <1>6 DEF Sent, Lost
  <2> QED BY <1>1, <1>2, <1>4, <2>1, QuietMaps
<1>7. CASE s.feeder \notin {"none", "done", "failed", "killed"}
  <2>1. Lost(r) /\ ~Lost(s)
    BY <1>3, <1>4, <1>7 DEF Lost
  <2> QED BY <1>1, <1>2, <1>4, <2>1, LostMaps
<1> QED BY <1>5, <1>6, <1>7

\* send() moves the item from the hand to the end of the pipe: it is where it was among
\* those of the process, and no other process has an item more.
LEMMA FeedSendMaps == ASSUME DeliveryIInv, NEW p \in Procs, JQ!FeedSend(p) PROVE Maps
<1> DEFINE s == q[p]
           h == s.hand[1]
           r == [s EXCEPT !.feeder = "unlock", !.hand = <<>>]
<1>1. /\ q' = [q EXCEPT ![p] = r] /\ Fit(s) /\ Unborn(s) /\ s.feeder = "send" /\ s = q[p]
      /\ pipe' = Append(pipe, <<p, h>>) /\ pipe \in Seq(Procs \X Nat)
  BY DEF DeliveryIInv, QueueIInv, QueueTypeOK, JQ!FeedSend, JQ!FeederAt
<1> HIDE DEF s
<1>2. r.pc = s.pc /\ r.feeder = "unlock" /\ r.buffer = s.buffer /\ r.hand = <<>> /\ r.puts = s.puts
  BY <1>1 DEF Fit, QueueStates
<1>3. s.hand \in Seq(Nat) /\ s.buffer \in Seq(Nat) /\ Len(s.hand) = 1 /\ h # 0
  BY <1>1 DEF Fit, QueueStates, InHand
<1>4. h \in Nat \ {0} /\ s.hand = <<h>>
  <2>1. h \in Nat
    BY <1>3, ElementOfSeq
  <2> QED BY <1>3, <2>1
<1> HIDE DEF h, r
<1>5. Becomes(p, r) /\ \A o \in Procs : Unborn(q'[o])
  <2>1. r.pc # "unborn"
    BY <1>1, <1>2 DEF Unborn
  <2> QED BY <1>1, <2>1, BecomesStep
<1>6. <<p, h>> \in Procs \X Nat
  BY <1>4
<1>7. OnWay(pipe', r, p) = OnWay(pipe, s, p)
  <2> DEFINE a == JQ!OwnIn(p, pipe)
             b == JQ!NumbersIn(s.buffer)
  <2>1. a \in Seq(Nat) /\ b \in Seq(Nat) /\ <<h>> \in Seq(Nat)
    BY <1>1, <1>3, <1>4, OwnInType, NumbersInIs
  <2>2. JQ!OwnIn(p, pipe') = Append(a, h)
    <3>1. <<p, h>>[1] = p /\ <<p, h>>[2] = h
      OBVIOUS
    <3> QED BY <1>1, <1>6, <3>1, OwnInAppended
  <2>3. Sent(r) = s.buffer /\ Sent(s) = <<h>> \o s.buffer
    BY <1>1, <1>2, <1>3, <1>4, ConcatEmptySeq DEF Sent
  <2>4. JQ!NumbersIn(Sent(s)) = <<h>> \o b
    BY <1>3, <1>4, <2>3, NumbersInFirst
  <2> HIDE DEF a
  <2>5. OnWay(pipe', r, p) = Append(a, h) \o b
    BY <2>2, <2>3 DEF OnWay
  <2>6. OnWay(pipe, s, p) = a \o (<<h>> \o b)
    BY <2>4 DEF OnWay, a
  <2> HIDE DEF b
  <2>7. Append(a, h) = a \o <<h>>
    BY <1>4, <2>1, AppendIsConcat
  <2>8. (a \o <<h>>) \o b = a \o (<<h>> \o b)
    BY <2>1, ConcatAssociative
  <2> QED BY <2>5, <2>6, <2>7, <2>8
<1>8. ASSUME NEW o \in Procs
      PROVE  /\ OnWay(pipe', q'[o], o) = OnWay(pipe, q[o], o) /\ q'[o].puts = q[o].puts
             /\ Lost(q'[o]) <=> Lost(q[o])
  <2>1. CASE o = p
    <3>1. Lost(r) <=> Lost(s)
      BY <1>1, <1>2 DEF Lost
    <3> QED BY <1>1, <1>2, <1>5, <1>7, <2>1, <3>1 DEF Becomes
  <2>2. CASE o # p
    <3>1. <<p, h>>[1] # o
      BY <2>2
    <3>2. JQ!OwnIn(o, pipe') = JQ!OwnIn(o, pipe)
      BY <1>1, <1>6, <3>1, OwnInAppended
    <3>3. q'[o] = q[o]
      BY <1>5, <2>2 DEF Becomes
    <3> QED BY <3>2, <3>3 DEF OnWay
  <2> QED BY <2>1, <2>2
<1>9. Quiet(Procs)
  BY <1>8 DEF Quiet
<1> QED BY <1>5, <1>9, StutterMaps DEF Maps

\* get() receives the first item of the one that put it.
LEMMA ReceivedMaps == ASSUME DeliveryIInv, NEW p \in Procs, JQ!Receive(p) PROVE Maps
<1> DEFINE s == q[p]
           n == s.owed + 1
           r == [s EXCEPT !.pc = "got", !.owed = n]
           x == Head(pipe)
           t == Tail(pipe)
           o == x[1]
<1>1. /\ q' = [q EXCEPT ![p] = r] /\ s \in QueueStates /\ s = q[p]
      /\ pipe' = t /\ pipe # <<>> /\ pipe \in Seq(Procs \X Nat)
      /\ \A u \in Procs : Fit(q[u])
  BY DEF DeliveryIInv, QueueIInv, QueueTypeOK, JQ!Receive
<1> HIDE DEF s, n
<1>2. /\ r.pc = "got" /\ r.feeder = s.feeder /\ r.buffer = s.buffer /\ r.hand = s.hand
      /\ r.puts = s.puts
  BY <1>1 DEF QueueStates
<1> HIDE DEF r
<1>3. x \in Procs \X Nat /\ t \in Seq(Procs \X Nat) /\ o \in Procs /\ x[2] \in Nat
  <2>1. x \in Procs \X Nat /\ t \in Seq(Procs \X Nat)
    BY <1>1, HeadTailProperties
  <2> QED BY <2>1
<1>4. Becomes(p, r) /\ \A u \in Procs : Unborn(q'[u])
  BY <1>1, <1>2, BecomesStep
<1>5. ASSUME NEW u \in Procs
      PROVE  Sent(q'[u]) = Sent(q[u]) /\ q'[u].puts = q[u].puts /\ (Lost(q'[u]) <=> Lost(q[u]))
  <2>1. CASE u = p
    BY <1>1, <1>2, <1>4, <2>1 DEF Becomes, Sent, Lost
  <2>2. CASE u # p
    BY <1>4, <2>2 DEF Becomes
  <2> QED BY <2>1, <2>2
<1>6. ASSUME NEW u \in Procs
      PROVE  JQ!OwnIn(u, pipe) = IF o = u THEN <<x[2]>> \o JQ!OwnIn(u, t) ELSE JQ!OwnIn(u, t)
  BY <1>1, OwnInTaken
<1> HIDE DEF x, t, o
<1>7. Quiet(Procs \ {o})
  <2> SUFFICES ASSUME NEW u \in Procs \ {o} PROVE OnWay(pipe', q'[u], u) = OnWay(pipe, q[u], u)
    BY <1>5 DEF Quiet
  <2>1. JQ!OwnIn(u, pipe') = JQ!OwnIn(u, pipe)
    BY <1>1, <1>6
  <2> QED BY <1>5, <2>1 DEF OnWay
<1>8. /\ OnWay(pipe, q[o], o) # <<>>
      /\ OnWay(pipe', q'[o], o) = Tail(OnWay(pipe, q[o], o))
  <2> DEFINE a == JQ!OwnIn(o, t)
             b == JQ!NumbersIn(Sent(q[o]))
             y == x[2]
             c == a \o b
  <2>1. a \in Seq(Nat) /\ b \in Seq(Nat) /\ y \in Nat /\ <<y>> \in Seq(Nat)
    <3>1. a \in Seq(Nat)
      BY <1>3, OwnInType
    <3>2. Fit(q[o])
      BY <1>1, <1>3
    <3>3. b \in Seq(Nat)
      BY <1>1, <3>2, OnWayType
    <3>4. y \in Nat /\ <<y>> \in Seq(Nat)
      BY <1>3
    <3> QED BY <3>1, <3>3, <3>4
  <2>2. OnWay(pipe', q'[o], o) = c
    BY <1>1, <1>3, <1>5 DEF OnWay
  <2>3. OnWay(pipe, q[o], o) = (<<y>> \o a) \o b
    BY <1>3, <1>6 DEF OnWay
  <2> HIDE DEF a, b, y
  <2>4. c \in Seq(Nat)
    BY <2>1, ConcatProperties
  <2>5. (<<y>> \o a) \o b = <<y>> \o c
    BY <2>1, ConcatAssociative
  <2> HIDE DEF c
  <2>6. <<y>> \o c # <<>> /\ Tail(<<y>> \o c) = c
    <3> DEFINE d == <<y>> \o c
    <3>1. /\ Len(c) \in Nat /\ d \in Seq(Nat) /\ Len(d) = 1 + Len(c)
          /\ \A i \in 1 .. 1 + Len(c) : d[i] = IF i <= 1 THEN <<y>>[i] ELSE c[i - 1]
      <4>1. Len(<<y>>) = 1
        OBVIOUS
      <4>2. Len(c) \in Nat
        BY <2>4, LenProperties
      <4> QED BY <2>1, <2>4, <4>1, <4>2, ConcatProperties
    <3> HIDE DEF d
    <3>2. d # <<>>
      BY <3>1, EmptySeq
    <3>3. /\ Tail(d) \in Seq(Nat) /\ Len(Tail(d)) = Len(c)
          /\ \A i \in 1 .. Len(c) : Tail(d)[i] = d[i + 1]
      BY <3>1, <3>2, HeadTailProperties
    <3>4. \A i \in 1 .. Len(c) : i + 1 \in 1 .. 1 + Len(c) /\ ~(i + 1 <= 1) /\ (i + 1) - 1 = i
      BY <3>1
    <3>5. \A i \in 1 .. Len(c) : Tail(d)[i] = c[i]
      BY <3>1, <3>3, <3>4
    <3>6. Tail(d) = c
      BY <2>4, <3>3, <3>5, SeqEqual
    <3> QED BY <3>2, <3>6 DEF d
  <2> QED BY <2>2, <2>3, <2>5, <2>6
<1>9. JQ!Promise!Receive(o)
  BY <1>3, <1>5, <1>7, <1>8, ReceiveMaps
<1> QED BY <1>3, <1>4, <1>9 DEF Maps, JQ!Promise!Next

\* The promise counts with the Cardinality of this module.
LEMMA RoomIs == JQ!Promise!Room <=> Cardinality(Outstanding) < MaxSize
<1>1. UNION {{p} \X DOMAIN [r \in Procs |-> JQ!Pending(r)][p] : p \in Procs} = Outstanding
  BY DEF Outstanding
<1>2. \A A : JQ!Promise!Cardinality(A) = Cardinality(A)
  BY DEF JQ!Promise!Cardinality, Cardinality
<1> QED BY <1>1, <1>2 DEF JQ!Promise!Room

\* put() appends a new number: it has a permit, so that there is room for it.
LEMMA PutAppendMaps == ASSUME DeliveryIInv, NEW p \in Procs, JQ!PutAppend(p) PROVE Maps
<1> DEFINE s == q[p]
           n == s.puts + 1
           f == IF s.feeder = "none" THEN "check" ELSE s.feeder
           b == Append(s.buffer, n)
           r == [s EXCEPT !.pc = "count", !.puts = n, !.feeder = f, !.buffer = b]
<1>1. /\ q \in [Procs -> QueueStates] /\ Fit(s) /\ s.pc = "append" /\ s = q[p]
      /\ pipe' = pipe /\ pipe \in Seq(Procs \X Nat) /\ QueueIInv
  BY DEF DeliveryIInv, QueueIInv, QueueTypeOK, JQ!PutAppend, JQ!At
<1>2. q' = [q EXCEPT ![p] = r]
  <2>1. s.feeder = "none" => s.buffer = <<>>
    BY <1>1 DEF Fit, NothingBehind
  <2>2. (IF JQ!FeederAt(p, "none") THEN <<>> ELSE s.buffer) = s.buffer
    BY <2>1 DEF JQ!FeederAt
  <2>3. q' = [q EXCEPT ![p].pc = "count", ![p].puts = @ + 1,
               ![p].feeder = IF @ = "none" THEN "check" ELSE @,
               ![p].buffer = Append(s.buffer, s.puts + 1)]
    BY <2>2 DEF JQ!PutAppend
  <2> QED BY <1>1, <2>3
<1> HIDE DEF s
<1>3. s \in QueueStates /\ s.buffer \in Seq(Nat) /\ s.hand \in Seq(Nat) /\ n \in Nat \ {0} /\ ~s.told
  BY <1>1 DEF Fit, QueueStates, SentinelLast
<1> HIDE DEF n, f, b
<1>4. r.pc = "count" /\ r.feeder = f /\ r.buffer = b /\ r.hand = s.hand /\ r.puts = n
  BY <1>3 DEF QueueStates
<1> HIDE DEF r
<1>5. Lost(r) <=> Lost(s)
  BY <1>4 DEF Lost, f
<1>6. Becomes(p, r) /\ \A o \in Procs : Unborn(q'[o])
  BY <1>2, <1>4, BecomesStep
<1>7. Quiet(Procs \ {p})
  BY <1>1, <1>6, OthersQuiet
<1>8. CASE Lost(s)
  <2>1. Sent(r) = Sent(s)
    BY <1>5, <1>8 DEF Sent, Lost
  <2>2. OnWay(pipe', r, p) = OnWay(pipe, s, p)
    BY <1>1, <2>1 DEF OnWay
  <2>3. JQ!Promise!Put(p)
    <3>1. q'[p] = r /\ q'[p].puts = q[p].puts + 1
      BY <1>1, <1>4, <1>6 DEF Becomes, n
    <3> QED BY <1>1, <1>5, <1>7, <1>8, <2>2, <3>1, PutMaps
  <2> QED BY <1>6, <2>3 DEF Maps, JQ!Promise!Next
<1>9. CASE ~Lost(s)
  <2> DEFINE a == JQ!OwnIn(p, pipe)
             u == Sent(s)
  <2>1. u = s.hand \o s.buffer /\ Sent(r) = Append(u, n)
    <3>1. s.hand \o b = Append(s.hand \o s.buffer, n)
      BY <1>3, SentAppend DEF b
    <3> QED BY <1>4, <1>5, <1>9, <3>1 DEF Sent, Lost
  <2>2. u \in Seq(Nat) /\ JQ!NumbersIn(u) = u /\ \A i \in 1 .. Len(u) : u[i] # 0
    BY <1>1, <1>3, UntoldNumbers
  <2>3. a \in Seq(Nat)
    BY <1>1, OwnInType
  <2> HIDE DEF a, u
  <2>4. JQ!NumbersIn(Append(u, n)) = Append(u, n)
    <3> DEFINE v == Append(u, n)
    <3>1. /\ v \in Seq(Nat) /\ Len(v) = Len(u) + 1 /\ Len(u) \in Nat /\ v[Len(u) + 1] = n
          /\ \A i \in 1 .. Len(u) : v[i] = u[i]
      BY <1>3, <2>2, AppendProperties, LenProperties
    <3> HIDE DEF v
    <3>2. \A i \in 1 .. Len(v) : i = Len(u) + 1 \/ i \in 1 .. Len(u)
      BY <3>1
    <3>3. \A i \in 1 .. Len(v) : v[i] # 0
      BY <1>3, <2>2, <3>1, <3>2
    <3>4. JQ!NumbersIn(v) = v
      BY <3>1, <3>3, NumbersInAll
    <3> QED BY <3>4 DEF v
  <2>5. OnWay(pipe', r, p) = a \o Append(u, n)
    BY <1>1, <2>1, <2>4 DEF OnWay, a
  <2>6. OnWay(pipe, s, p) = a \o u
    BY <2>2 DEF OnWay, a, u
  <2>7. a \o Append(u, n) = Append(a \o u, n)
    BY <1>3, <2>2, <2>3, SentAppend
  <2>8. JQ!Promise!Room
    <3>1. IsFiniteSet(Permitted) /\ Cardinality(Permitted) \in Nat /\ Cardinality(Permitted) # 0
      <4>1. Permitted \subseteq Procs /\ p \in Permitted
        BY <1>1 DEF Permitted
      <4>2. IsFiniteSet(Permitted)
        BY <4>1, QueueConstants, FS_Subset
      <4> QED BY <4>1, <4>2, FS_CardinalityType, FS_EmptySet
    <3>2. Cardinality(JQ!Behind) \in Nat
      BY <1>1, FS_CardinalityType DEF QueueIInv
    <3>3. Cardinality(Outstanding) \in Nat /\ Cardinality(Outstanding) <= Len(pipe) + Cardinality(JQ!Behind)
      BY <1>1, OutstandingCount
    <3>4. /\ sem \in Nat /\ Len(pipe) \in Nat /\ MaxSize \in Nat
          /\ sem + Cardinality(Permitted) + Cardinality(JQ!Behind) + Len(pipe) <= MaxSize
      BY <1>1, Numbers
    <3>5. Cardinality(Outstanding) < MaxSize
      BY <3>1, <3>2, <3>3, <3>4
    <3> QED BY <3>5, RoomIs
  <2>9. JQ!Promise!Put(p)
    <3>1. q'[p] = r /\ q'[p].puts = q[p].puts + 1
      BY <1>1, <1>4, <1>6 DEF Becomes, n
    <3>2. OnWay(pipe', q'[p], p) = Append(OnWay(pipe, q[p], p), q[p].puts + 1)
      BY <1>1, <2>5, <2>6, <2>7, <3>1 DEF n
    <3> QED BY <1>1, <1>5, <1>7, <1>9, <2>8, <3>1, <3>2, PutMaps
  <2> QED BY <1>6, <2>9 DEF Maps, JQ!Promise!Next
<1> QED BY <1>8, <1>9

\* The initial states are initial states of the promise.
LEMMA DeliveryInit == JQ!Init => DeliveryIInv /\ JQ!Promise!Init
<1> SUFFICES ASSUME JQ!Init PROVE DeliveryIInv /\ JQ!Promise!Init
  OBVIOUS
<1>1. pipe = <<>>
  BY DEF JQ!Init
<1>2. \A p \in Procs : /\ q[p].feeder = "none" /\ q[p].puts = 0
                       /\ q[p].hand = <<>> /\ q[p].buffer = <<>>
  BY DEF JQ!Init, JQ!Fresh
<1>3. ASSUME NEW p \in Procs PROVE JQ!Pending(p) = <<>> /\ p \notin JQ!Broken
  <2>1. Sent(q[p]) = <<>>
    BY <1>2, EmptySeq, ConcatEmptySeq DEF Sent
  <2>2. OnWay(pipe, q[p], p) = <<>>
    BY <1>1, <2>1, OwnInEmpty, NumbersInEmpty, EmptySeq, ConcatEmptySeq DEF OnWay
  <2>3. ~Lost(q[p])
    BY <1>2 DEF Lost
  <2> QED BY <2>2, <2>3, Mapped
<1>4. JQ!Broken = {}
  BY <1>3, Mapped
<1>5. JQ!Promise!Init
  BY <1>2, <1>3, <1>4 DEF JQ!Promise!Init
<1>6. DeliveryIInv
  BY <1>2, QueueInitIInv DEF DeliveryIInv, Unborn
<1> QED BY <1>5, <1>6

\* Every step is one of the promise, or none.
LEMMA DeliveryNext ==
  DeliveryIInv /\ [JQ!Next]_JQ!vars => DeliveryIInv' /\ [JQ!Promise!Next]_JQ!Promise!vars
<1>1. ASSUME DeliveryIInv, UNCHANGED JQ!vars PROVE Maps
  <2>1. q' = q /\ pipe' = pipe
    BY <1>1 DEF JQ!vars, JQ!shared
  <2>2. Quiet(Procs)
    BY <2>1 DEF Quiet
  <2> QED BY <1>1, <2>1, <2>2, StutterMaps DEF Maps, DeliveryIInv
<1>2. ASSUME DeliveryIInv, NEW p \in Procs, JQ!Call(p) PROVE Maps
  <2>1. CASE \E child \in Procs : JQ!Fork(p, child)
    BY <1>2, <2>1, ForkMaps
  <2>2. CASE JQ!Receive(p)
    BY <1>2, <2>2, ReceivedMaps
  <2>3. CASE JQ!TaskDone(p)
    BY <1>2, <2>3, TaskDoneMaps
  <2>4. CASE JQ!Close(p)
    BY <1>2, <2>4, CloseMaps
  <2>5. CASE JQ!CancelJoinThread(p)
    BY <1>2, <2>5, CancelJoinThreadMaps
  <2>6. CASE JQ!Exit(p)
    BY <1>2, <2>6, ExitMaps
  <2>7. CASE JQ!PutAcquire(p) \/ JQ!Get(p) \/ JQ!GetEmpty(p) \/ JQ!Join(p) \/ JQ!JoinReturn(p)
             \/ JQ!JoinThread(p)
    BY <1>2, <2>7, ClientMaps
  <2> QED BY <1>2, <2>1, <2>2, <2>3, <2>4, <2>5, <2>6, <2>7 DEF JQ!Call
<1>3. ASSUME DeliveryIInv, NEW p \in Procs, JQ!Proceed(p) PROVE Maps
  <2>1. CASE JQ!PutAppend(p)
    BY <1>3, <2>1, PutAppendMaps
  <2>2. CASE JQ!PutCount(p)
    BY <1>3, <2>2, PutCountMaps
  <2>3. CASE JQ!ExitEnd(p)
    BY <1>3, <2>3, ExitEndMaps
  <2>4. CASE JQ!PutEnter(p) \/ JQ!GetReturn(p) \/ JQ!JoinThreadReturn(p)
    BY <1>3, <2>4, ClientMaps
  <2> QED BY <1>3, <2>1, <2>2, <2>3, <2>4 DEF JQ!Proceed
<1>4. ASSUME DeliveryIInv, NEW p \in Procs, JQ!Feed(p) \/ JQ!FeedFail(p) PROVE Maps
  <2>1. CASE JQ!FeedPop(p)
    BY <1>4, <2>1, FeedPopMaps
  <2>2. CASE JQ!FeedSend(p)
    BY <1>4, <2>2, FeedSendMaps
  <2>3. CASE JQ!FeedFail(p)
    BY <1>4, <2>3, FeedFailMaps
  <2>4. CASE JQ!FeedCheck(p) \/ JQ!FeedWake(p) \/ JQ!FeedLock(p) \/ JQ!FeedUnlock(p)
    BY <1>4, <2>4, FeederGoesOnMaps
  <2> QED BY <1>4, <2>1, <2>2, <2>3, <2>4 DEF JQ!Feed
<1>5. DeliveryIInv /\ [JQ!Next]_JQ!vars => Maps
  BY <1>1, <1>2, <1>3, <1>4 DEF JQ!Next
<1>6. DeliveryIInv /\ [JQ!Next]_JQ!vars => QueueIInv'
  BY QueueNextIInv DEF DeliveryIInv
<1> QED BY <1>5, <1>6 DEF Maps, DeliveryIInv

\* Whatever the processes' forks, closes and exits, the items of each process come out of
\* the queue once, in the order in which it put them, and no more than maxsize are
\* outstanding: MPQueue implements ProcessQueue.
THEOREM DeliversItems == JQ!Spec => ItemsDelivered
<1>1. JQ!Init => DeliveryIInv /\ JQ!Promise!Init
  BY DeliveryInit
<1>2. DeliveryIInv /\ [JQ!Next]_JQ!vars => DeliveryIInv' /\ [JQ!Promise!Next]_JQ!Promise!vars
  BY DeliveryNext
<1>3. ItemsDelivered <=> JQ!Promise!Init /\ [][JQ!Promise!Next]_JQ!Promise!vars
  BY DEF ItemsDelivered, JQ!Implements, JQ!Promise!Spec
<1> QED BY <1>1, <1>2, <1>3, PTL DEF JQ!Spec
===============================================================================
