---------------------------- MODULE ThreadingProofs ----------------------------
(***************************************************************************)
(* Proofs about RLock and Queue, for any set of threads, any depth of the  *)
(* lock and any size and order of the queue.                               *)
(*                                                                         *)
(* RLock: Exclusive is not inductive: that a thread which reads its own    *)
(* name in owner has the lock needs to know where in a method a thread is  *)
(* the owner (OwnerPhase), and that the level comes back after a wait()    *)
(* needs to know what is kept during it (LevelKept).                       *)
(*                                                                         *)
(* Queue: Claimed counts the threads that are in a call and off the list   *)
(* of their condition.  That each notification adds one to them needs to   *)
(* know that nobody is listed twice or in a list that is not his (ListInv).*)
(***************************************************************************)
EXTENDS MCThreading, FiniteSets, FiniteSetTheorems, SequenceTheorems, TLAPS

\* Where in a method a thread is the owner.
OwnerPhase(t) == Holds(t) \/ pc[t] \in {"set_count", "clear_owner", "save", "save_owner"}

\* owner is the thread in such a place, if there is one.
OwnerMatches == \A t \in Threads : owner = t <=> OwnerPhase(t)

\* At most one thread has the block, and it is taken while one has.
OneHolder ==
  /\ \A s, t \in Threads : HasBlock(s) /\ HasBlock(t) => s = t
  /\ block <=> \E t \in Threads : HasBlock(t)

InWait == {"save", "save_owner", "save_release", "wait", "restore_count", "restore_owner"}

\* The level of a thread is in count, in saved, or zero.
LevelKept ==
  \A t \in Threads :
    /\ Holds(t) \/ pc[t] \in {"save", "restore_owner"} => count = depth[t]
    /\ pc[t] \in InWait => saved[t] = depth[t] /\ depth[t] > 0
    /\ pc[t] \notin InWait \cup {"out"} => depth[t] = 0

IInv == TypeOK /\ OwnerMatches /\ OneHolder /\ LevelKept

-------------------------------------------------------------------------------
\* The state at the start satisfies the invariant.
LEMMA InitHolds == Init => IInv
<1> SUFFICES ASSUME Init PROVE IInv
  OBVIOUS
<1> USE RLockAssumption DEF Init
<1>1. TypeOK
  BY DEF TypeOK, Labels
<1>2. \A t \in Threads : ~Holds(t) /\ ~HasBlock(t) /\ ~OwnerPhase(t)
  <2> TAKE t \in Threads
  <2>1. pc[t] = "out" /\ depth[t] = 0
    OBVIOUS
  <2> QED BY <2>1 DEF Holds, HasBlock, OwnerPhase
<1>3. OwnerMatches /\ OneHolder
  BY <1>2 DEF OwnerMatches, OneHolder
<1>4. LevelKept
  BY DEF LevelKept, Holds, InWait
<1> QED BY <1>1, <1>3, <1>4 DEF IInv

\* A step of acquire() keeps the invariant.
LEMMA AcquireKeeps ==
  ASSUME IInv, NEW t \in Threads,
         AcquireRecursive(t) \/ AcquireCall(t) \/ AcquireBlock(t) \/ AcquireFailed(t)
           \/ SetOwner(t) \/ SetCount(t)
  PROVE  IInv'
<1> USE RLockAssumption DEF IInv, TypeOK, Labels, Goto, SetDepth, HasBlock, Holds
<1>1. CASE AcquireRecursive(t)
  <2>1. Holds(t)
    BY <1>1 DEF AcquireRecursive, OwnerMatches, OwnerPhase
  <2>2. TypeOK'
    BY <1>1 DEF AcquireRecursive
  <2>3. OwnerMatches' /\ OneHolder'
    BY <1>1, <2>1 DEF AcquireRecursive, OwnerMatches, OneHolder, OwnerPhase
  <2>4. LevelKept'
    BY <1>1, <2>1 DEF AcquireRecursive, OneHolder, LevelKept, InWait
  <2> QED BY <2>2, <2>3, <2>4
<1>2. CASE AcquireCall(t)
  <2>1. depth[t] = 0
    BY <1>2 DEF AcquireCall, OwnerMatches, OwnerPhase
  <2>2. TypeOK'
    BY <1>2 DEF AcquireCall
  <2>3. OwnerMatches' /\ OneHolder'
    BY <1>2, <2>1 DEF AcquireCall, OwnerMatches, OneHolder, OwnerPhase
  <2>4. LevelKept'
    BY <1>2, <2>1 DEF AcquireCall, LevelKept, InWait
  <2> QED BY <2>2, <2>3, <2>4
<1>3. CASE AcquireBlock(t)
  <2>1. TypeOK'
    BY <1>3 DEF AcquireBlock
  <2>2. OwnerMatches'
    BY <1>3 DEF AcquireBlock, OwnerMatches, OwnerPhase
  <2>3. OneHolder'
    BY <1>3 DEF AcquireBlock, OneHolder
  <2>4. LevelKept'
    BY <1>3 DEF AcquireBlock, LevelKept, InWait
  <2> QED BY <2>1, <2>2, <2>3, <2>4
<1>4. CASE AcquireFailed(t)
  <2>1. TypeOK'
    BY <1>4 DEF AcquireFailed
  <2>2. depth[t] = 0
    BY <1>4 DEF AcquireFailed, LevelKept, InWait
  <2>3. OwnerMatches'
    BY <1>4, <2>2 DEF AcquireFailed, OwnerMatches, OwnerPhase
  <2>4. OneHolder'
    BY <1>4, <2>2 DEF AcquireFailed, OneHolder
  <2>5. LevelKept'
    BY <1>4, <2>2 DEF AcquireFailed, LevelKept, InWait
  <2> QED BY <2>1, <2>3, <2>4, <2>5
<1>5. CASE SetOwner(t)
  <2>1. TypeOK'
    BY <1>5 DEF SetOwner
  <2>2. OwnerMatches'
    BY <1>5 DEF SetOwner, OwnerMatches, OneHolder, OwnerPhase
  <2>3. OneHolder'
    BY <1>5 DEF SetOwner, OneHolder
  <2>4. LevelKept'
    BY <1>5 DEF SetOwner, LevelKept, InWait
  <2> QED BY <2>1, <2>2, <2>3, <2>4
<1>6. CASE SetCount(t)
  <2>1. TypeOK'
    BY <1>6 DEF SetCount
  <2>2. OwnerMatches'
    BY <1>6 DEF SetCount, OwnerMatches, OwnerPhase
  <2>3. OneHolder'
    BY <1>6 DEF SetCount, OneHolder
  <2>4. LevelKept'
    BY <1>6 DEF SetCount, OneHolder, LevelKept, InWait
  <2> QED BY <2>1, <2>2, <2>3, <2>4
<1> QED BY <1>1, <1>2, <1>3, <1>4, <1>5, <1>6

\* A step of release() keeps the invariant.
LEMMA ReleaseKeeps ==
  ASSUME IInv, NEW t \in Threads,
         Release(t) \/ ClearOwner(t) \/ ReleaseBlock(t)
  PROVE  IInv'
<1> USE RLockAssumption DEF IInv, TypeOK, Labels, Goto, SetDepth, HasBlock, Holds
<1>1. CASE Release(t)
  <2> DEFINE next == IF count - 1 = 0 THEN "clear_owner" ELSE "out"
  <2>5. Holds(t) /\ count = depth[t] /\ depth[t] \in Nat
    BY <1>1 DEF Release, OwnerMatches, OwnerPhase, LevelKept
  <2>6. next \in Labels /\ depth[t] - 1 \in Nat /\ count - 1 \in Nat
    BY <2>5
  <2>1. TypeOK'
    <3>1. pc' = [pc EXCEPT ![t] = next] /\ depth' = [depth EXCEPT ![t] = depth[t] - 1]
          /\ count' = count - 1 /\ UNCHANGED <<block, owner, saved>>
      BY <1>1 DEF Release
    <3> HIDE DEF next
    <3> QED BY <2>6, <3>1
  <2>2. OwnerMatches'
    BY <1>1 DEF Release, OwnerMatches, OneHolder, OwnerPhase, LevelKept, InWait
  <2>3. OneHolder'
    BY <1>1 DEF Release, OneHolder, OwnerMatches, OwnerPhase, LevelKept, InWait
  <2>4. LevelKept'
    BY <1>1 DEF Release, OneHolder, LevelKept, InWait, OwnerMatches, OwnerPhase
  <2> QED BY <2>1, <2>2, <2>3, <2>4
<1>2. CASE ClearOwner(t)
  <2>1. TypeOK'
    BY <1>2 DEF ClearOwner, LevelKept, InWait
  <2>2. OwnerMatches'
    BY <1>2 DEF ClearOwner, OwnerMatches, OneHolder, OwnerPhase, LevelKept, InWait
  <2>3. OneHolder'
    BY <1>2 DEF ClearOwner, OneHolder, OwnerMatches, OwnerPhase, LevelKept, InWait
  <2>4. LevelKept'
    BY <1>2 DEF ClearOwner, OneHolder, LevelKept, InWait, OwnerMatches, OwnerPhase
  <2> QED BY <2>1, <2>2, <2>3, <2>4
<1>3. CASE ReleaseBlock(t)
  <2>1. TypeOK'
    BY <1>3 DEF ReleaseBlock, LevelKept, InWait
  <2>2. OwnerMatches'
    BY <1>3 DEF ReleaseBlock, OwnerMatches, OneHolder, OwnerPhase, LevelKept, InWait
  <2>3. OneHolder'
    BY <1>3 DEF ReleaseBlock, OneHolder, OwnerMatches, OwnerPhase, LevelKept, InWait
  <2>4. LevelKept'
    BY <1>3 DEF ReleaseBlock, OneHolder, LevelKept, InWait, OwnerMatches, OwnerPhase
  <2> QED BY <2>1, <2>2, <2>3, <2>4
<1> QED BY <1>1, <1>2, <1>3

\* A step of _release_save() keeps the invariant.
LEMMA SaveKeeps ==
  ASSUME IInv, NEW t \in Threads,
         ReleaseSave(t) \/ SaveCount(t) \/ SaveOwner(t) \/ SaveRelease(t)
  PROVE  IInv'
<1> USE RLockAssumption DEF IInv, TypeOK, Labels, Goto, SetDepth, HasBlock, Holds
<1>1. CASE ReleaseSave(t)
  <2>1. TypeOK'
    BY <1>1 DEF ReleaseSave, LevelKept, InWait
  <2>2. OwnerMatches'
    BY <1>1 DEF ReleaseSave, OwnerMatches, OneHolder, OwnerPhase, LevelKept, InWait
  <2>3. OneHolder'
    BY <1>1 DEF ReleaseSave, OneHolder, OwnerMatches, OwnerPhase, LevelKept, InWait
  <2>4. LevelKept'
    BY <1>1 DEF ReleaseSave, OneHolder, LevelKept, InWait, OwnerMatches, OwnerPhase
  <2> QED BY <2>1, <2>2, <2>3, <2>4
<1>2. CASE SaveCount(t)
  <2>1. TypeOK'
    BY <1>2 DEF SaveCount, LevelKept, InWait
  <2>2. OwnerMatches'
    BY <1>2 DEF SaveCount, OwnerMatches, OneHolder, OwnerPhase, LevelKept, InWait
  <2>3. OneHolder'
    BY <1>2 DEF SaveCount, OneHolder, OwnerMatches, OwnerPhase, LevelKept, InWait
  <2>4. LevelKept'
    BY <1>2 DEF SaveCount, OneHolder, LevelKept, InWait, OwnerMatches, OwnerPhase
  <2> QED BY <2>1, <2>2, <2>3, <2>4
<1>3. CASE SaveOwner(t)
  <2>1. TypeOK'
    BY <1>3 DEF SaveOwner, LevelKept, InWait
  <2>2. OwnerMatches'
    BY <1>3 DEF SaveOwner, OwnerMatches, OneHolder, OwnerPhase, LevelKept, InWait
  <2>3. OneHolder'
    BY <1>3 DEF SaveOwner, OneHolder, OwnerMatches, OwnerPhase, LevelKept, InWait
  <2>4. LevelKept'
    BY <1>3 DEF SaveOwner, OneHolder, LevelKept, InWait, OwnerMatches, OwnerPhase
  <2> QED BY <2>1, <2>2, <2>3, <2>4
<1>4. CASE SaveRelease(t)
  <2>1. TypeOK'
    BY <1>4 DEF SaveRelease, LevelKept, InWait
  <2>2. OwnerMatches'
    BY <1>4 DEF SaveRelease, OwnerMatches, OneHolder, OwnerPhase, LevelKept, InWait
  <2>3. OneHolder'
    BY <1>4 DEF SaveRelease, OneHolder, OwnerMatches, OwnerPhase, LevelKept, InWait
  <2>4. LevelKept'
    BY <1>4 DEF SaveRelease, OneHolder, LevelKept, InWait, OwnerMatches, OwnerPhase
  <2> QED BY <2>1, <2>2, <2>3, <2>4
<1> QED BY <1>1, <1>2, <1>3, <1>4

\* A step of _acquire_restore() keeps the invariant.
LEMMA RestoreKeeps ==
  ASSUME IInv, NEW t \in Threads,
         Restore(t) \/ RestoreCount(t) \/ RestoreOwner(t)
  PROVE  IInv'
<1> USE RLockAssumption DEF IInv, TypeOK, Labels, Goto, SetDepth, HasBlock, Holds
<1>1. CASE Restore(t)
  <2>1. TypeOK'
    BY <1>1 DEF Restore, LevelKept, InWait
  <2>2. OwnerMatches'
    BY <1>1 DEF Restore, OwnerMatches, OneHolder, OwnerPhase, LevelKept, InWait
  <2>3. OneHolder'
    BY <1>1 DEF Restore, OneHolder, OwnerMatches, OwnerPhase, LevelKept, InWait
  <2>4. LevelKept'
    BY <1>1 DEF Restore, OneHolder, LevelKept, InWait, OwnerMatches, OwnerPhase
  <2> QED BY <2>1, <2>2, <2>3, <2>4
<1>2. CASE RestoreCount(t)
  <2>1. TypeOK'
    BY <1>2 DEF RestoreCount, LevelKept, InWait
  <2>2. OwnerMatches'
    BY <1>2 DEF RestoreCount, OwnerMatches, OneHolder, OwnerPhase, LevelKept, InWait
  <2>3. OneHolder'
    BY <1>2 DEF RestoreCount, OneHolder, OwnerMatches, OwnerPhase, LevelKept, InWait
  <2>4. LevelKept'
    BY <1>2 DEF RestoreCount, OneHolder, LevelKept, InWait, OwnerMatches, OwnerPhase
  <2> QED BY <2>1, <2>2, <2>3, <2>4
<1>3. CASE RestoreOwner(t)
  <2>1. TypeOK'
    BY <1>3 DEF RestoreOwner, LevelKept, InWait
  <2>2. OwnerMatches'
    BY <1>3 DEF RestoreOwner, OwnerMatches, OneHolder, OwnerPhase, LevelKept, InWait
  <2>3. OneHolder'
    BY <1>3 DEF RestoreOwner, OneHolder, OwnerMatches, OwnerPhase, LevelKept, InWait
  <2>4. LevelKept'
    BY <1>3 DEF RestoreOwner, OneHolder, LevelKept, InWait, OwnerMatches, OwnerPhase
  <2> QED BY <2>1, <2>2, <2>3, <2>4
<1> QED BY <1>1, <1>2, <1>3

-------------------------------------------------------------------------------
\* The invariant holds in every state.
THEOREM InvariantsHold == Spec => []IInv
<1>1. IInv /\ [Next]_vars => IInv'
  <2> SUFFICES ASSUME IInv, [Next]_vars PROVE IInv'
    OBVIOUS
  <2>1. CASE Next
    BY <2>1, AcquireKeeps, ReleaseKeeps, SaveKeeps, RestoreKeeps DEF Next, Step
  <2>2. CASE UNCHANGED vars
    BY <2>2 DEF vars, IInv, TypeOK, OwnerMatches, OneHolder, LevelKept, OwnerPhase, Holds,
       HasBlock
  <2> QED BY <2>1, <2>2
<1> QED BY InitHolds, <1>1, PTL DEF Spec

\* Type correctness: no interleaving of loads and stores takes the level or the number
\* of releases owed below zero.
THEOREM TypeCorrect == Spec => []TypeOK
<1>1. IInv => TypeOK
  BY DEF IInv
<1> QED BY InvariantsHold, <1>1, PTL

\* Mutual exclusion: one thread at a time holds the lock or is inside a method with
\* the block, and the test of owner without a lock, with which acquire() and release()
\* of threading._RLock begin, tells a thread whether it is that one.
THEOREM MutualExclusion == Spec => []Exclusive
<1>1. IInv => Exclusive
  <2> SUFFICES ASSUME IInv PROVE Exclusive
    OBVIOUS
  <2>1. OwnerIsHolder
    BY DEF IInv, OwnerMatches, OwnerIsHolder, OwnerPhase
  <2> QED BY <2>1 DEF IInv, OneHolder, Exclusive
<1> QED BY InvariantsHold, <1>1, PTL

\* The level of a holder is the number of releases it owes, also after it has given all
\* levels up in Condition.wait() and others have had levels of their own.
THEOREM LevelIsOwed == Spec => []CountIsDepth
<1>1. IInv => CountIsDepth
  BY DEF IInv, LevelKept, CountIsDepth
<1> QED BY InvariantsHold, <1>1, PTL

-------------------------------------------------------------------------------
\* The call whose threads wait on a condition.
KindOf(c) == IF c = "not_empty" THEN "get" ELSE IF c = "not_full" THEN "put" ELSE "join"

\* Type invariant of the variables of Queue.
QueueTypeOK ==
  /\ Q!CondTypeOK
  /\ queue \in Seq(Items) /\ unfinished_tasks \in Nat
  /\ op \in [Threads -> {"none", "get", "put", "join"}]
  /\ arg \in [Threads -> Items] /\ fetched \in [Threads -> Nat]
  /\ calls \in Nat /\ interrupted \in BOOLEAN

\* put() never exceeds maxsize, although it tests the size before it waits.
RoomKept == MaxSize > 0 => Len(queue) <= MaxSize

\* Where a thread can be in wait(), by the call it is in.
StageInv ==
  \A t \in Threads :
    /\ stage[t] = "run" <=> op[t] = "none"
    /\ op[t] = "join" => ~timed[t]
    /\ stage[t] \in {"gaveup", "expired", "interrupted"} => timed[t]
    /\ stage[t] = "interrupted" => interrupted

\* Nobody is listed twice, in the list of another call, or when he does not wait.
ListInv ==
  ~interrupted =>
    \A c \in Conds :
      /\ IsInjective(waiters[c])
      /\ \A u \in Range(waiters[c]) :
           u \in Threads /\ op[u] = KindOf(c) /\ stage[u] \in {"blocked", "gaveup"}

QueueIInv == QueueTypeOK /\ RoomKept /\ StageInv /\ ListInv /\ Claimed

-------------------------------------------------------------------------------
\* Lists of waiters that get longer at the end.
LEMMA AppendToList ==
  ASSUME NEW S, NEW s \in Seq(S), NEW x \in S
  PROVE  /\ Append(s, x) \in Seq(S) /\ Append(s, x) # <<>>
         /\ Range(Append(s, x)) = Range(s) \cup {x}
         /\ IsInjective(s) /\ x \notin Range(s) => IsInjective(Append(s, x))
<1> DEFINE r == Append(s, x)
<1>1. /\ r \in Seq(S) /\ r # <<>> /\ Len(r) = Len(s) + 1
      /\ \A k \in 1 .. Len(s) : r[k] = s[k]
      /\ r[Len(s) + 1] = x
  BY AppendProperties
<1>2. Len(s) \in Nat /\ DOMAIN s = 1 .. Len(s) /\ DOMAIN r = 1 .. (Len(s) + 1)
  BY <1>1, LenProperties
<1> HIDE DEF r
<1>3. \A k \in 1 .. (Len(s) + 1) : k \in 1 .. Len(s) \/ k = Len(s) + 1
  BY <1>2
<1>4. 1 .. Len(s) \subseteq 1 .. (Len(s) + 1) /\ Len(s) + 1 \in 1 .. (Len(s) + 1)
  BY <1>2
<1>5. Range(r) = Range(s) \cup {x}
  BY <1>1, <1>2, <1>3, <1>4 DEF Range
<1>6. ASSUME IsInjective(s), x \notin Range(s) PROVE IsInjective(r)
  <2> SUFFICES ASSUME NEW a \in DOMAIN r, NEW b \in DOMAIN r, r[a] = r[b] PROVE a = b
    BY DEF IsInjective
  <2>1. \A k \in 1 .. Len(s) : s[k] # x
    BY <1>2, <1>6 DEF Range
  <2> QED BY <1>1, <1>2, <1>3, <1>6, <2>1 DEF IsInjective
<1> QED BY <1>1, <1>5, <1>6 DEF r

\* Lists of waiters whose first m entries are taken.
LEMMA DropFromList ==
  ASSUME NEW S, NEW s \in Seq(S), NEW m \in 0 .. Len(s)
  PROVE  /\ SubSeq(s, m + 1, Len(s)) \in Seq(S)
         /\ Range(SubSeq(s, 1, m)) = {s[k] : k \in 1 .. m}
         /\ Range(SubSeq(s, m + 1, Len(s))) \subseteq Range(s)
         /\ s = <<>> => SubSeq(s, m + 1, Len(s)) = <<>>
         /\ IsInjective(s) =>
              /\ IsInjective(SubSeq(s, m + 1, Len(s)))
              /\ Range(SubSeq(s, m + 1, Len(s))) = Range(s) \ Range(SubSeq(s, 1, m))
<1> DEFINE r == SubSeq(s, m + 1, Len(s))
           q == SubSeq(s, 1, m)
<1>1. Len(s) \in Nat /\ DOMAIN s = 1 .. Len(s) /\ m \in Nat /\ m <= Len(s)
  BY LenProperties
<1>2. \A k \in 1 .. Len(s) : s[k] \in S
  BY ElementOfSeq
<1>3. /\ r \in Seq(S) /\ DOMAIN r = 1 .. (Len(s) - m)
      /\ \A k \in 1 .. (Len(s) - m) : r[k] = s[m + k]
  <2>1. /\ r \in Seq(S)
        /\ Len(r) = IF m + 1 <= Len(s) THEN Len(s) - (m + 1) + 1 ELSE 0
        /\ \A k \in 1 .. (Len(s) - (m + 1) + 1) : r[k] = s[(m + 1) + k - 1]
    <3>1. \A k \in (m + 1) .. Len(s) : s[k] \in S
      BY <1>1, <1>2
    <3> QED BY <1>1, <3>1, SubSeqProperties
  <2> HIDE DEF r
  <2>2. DOMAIN r = 1 .. Len(r) /\ Len(r) = Len(s) - m
    <3>1. DOMAIN r = 1 .. Len(r)
      BY <2>1, LenProperties
    <3> DEFINE n == Len(s)
               l == Len(r)
    <3>2. l = IF m + 1 <= n THEN n - (m + 1) + 1 ELSE 0
      BY <2>1
    <3>3. n \in Nat /\ m \in Nat /\ m <= n
      BY <1>1
    <3> HIDE DEF n, l
    <3>4. l = n - m
      BY <3>2, <3>3
    <3> USE DEF n, l
    <3> QED BY <3>1, <3>4
  <2>3. \A k \in 1 .. (Len(s) - m) : k \in 1 .. (Len(s) - (m + 1) + 1) /\ (m + 1) + k - 1 = m + k
    BY <1>1
  <2> QED BY <2>1, <2>2, <2>3
<1>4. /\ DOMAIN q = 1 .. m
      /\ \A k \in 1 .. m : q[k] = s[k]
  <2>1. /\ q \in Seq(S)
        /\ Len(q) = IF 1 <= m THEN m - 1 + 1 ELSE 0
        /\ \A k \in 1 .. (m - 1 + 1) : q[k] = s[1 + k - 1]
    <3>1. \A k \in 1 .. m : s[k] \in S
      BY <1>1, <1>2
    <3> QED BY <1>1, <3>1, SubSeqProperties
  <2>2. DOMAIN q = 1 .. Len(q) /\ Len(q) = m
    BY <1>1, <2>1, LenProperties
  <2> QED BY <1>1, <2>1, <2>2
<1> HIDE DEF r, q
<1>5. Range(q) = {s[k] : k \in 1 .. m}
  BY <1>4 DEF Range
<1>6. \A k \in 1 .. (Len(s) - m) : m + k \in 1 .. Len(s) /\ m + k \notin 1 .. m
  BY <1>1
<1>7. Range(r) \subseteq Range(s)
  BY <1>1, <1>3, <1>6 DEF Range
<1>8. s = <<>> => r = <<>>
  <2> SUFFICES ASSUME s = <<>> PROVE r = <<>>
    OBVIOUS
  <2>1. Len(s) = 0 /\ m = 0
    BY <1>1
  <2> QED BY <1>3, <2>1
<1>9. ASSUME IsInjective(s) PROVE IsInjective(r)
  <2> SUFFICES ASSUME NEW a \in DOMAIN r, NEW b \in DOMAIN r, r[a] = r[b] PROVE a = b
    BY DEF IsInjective
  <2>1. m + a = m + b
    BY <1>1, <1>3, <1>6, <1>9 DEF IsInjective
  <2> QED BY <1>1, <1>3, <2>1
<1>10. ASSUME IsInjective(s) PROVE Range(r) = Range(s) \ Range(q)
  <2>1. \A k \in 1 .. Len(s) : k \in 1 .. m \/ (k - m \in 1 .. (Len(s) - m) /\ m + (k - m) = k)
    BY <1>1
  <2>2. 1 .. m \subseteq 1 .. Len(s)
    BY <1>1
  <2>3. Range(s) \ Range(q) \subseteq Range(r)
    <3> SUFFICES ASSUME NEW k \in 1 .. Len(s), s[k] \notin Range(q) PROVE s[k] \in Range(r)
      BY <1>1 DEF Range
    <3>1. k \notin 1 .. m
      BY <1>5
    <3>2. k - m \in DOMAIN r /\ r[k - m] = s[k]
      BY <1>3, <2>1, <3>1
    <3> QED BY <3>2 DEF Range
  <2>4. \A k \in 1 .. (Len(s) - m) : r[k] \notin Range(q)
    BY SMTT(30), <1>1, <1>3, <1>5, <1>6, <1>10, <2>2 DEF IsInjective
  <2> QED BY <1>3, <1>7, <2>3, <2>4 DEF Range
<1> QED BY <1>3, <1>5, <1>7, <1>8, <1>9, <1>10 DEF r, q

\* Lists without the entry at a place, whatever the place is.
LEMMA DeleteFromList ==
  ASSUME NEW S, NEW s \in Seq(S), s # <<>>, NEW d
  PROVE  /\ Q!DelItem(s, d) \in Seq(S)
         /\ Len(Q!DelItem(s, d)) = Len(s) - 1
         /\ Range(Q!DelItem(s, d)) \subseteq Range(s)
<1> DEFINE at(k) == IF k < d THEN k ELSE k + 1
<1>1. Len(s) \in Nat \ {0} /\ DOMAIN s = 1 .. Len(s)
  BY LenProperties, EmptySeq
<1>2. \A k \in 1 .. (Len(s) - 1) : at(k) \in 1 .. Len(s)
  BY <1>1
<1>3. \A k \in 1 .. Len(s) : s[k] \in S
  BY ElementOfSeq
<1>4. Q!DelItem(s, d) = [k \in 1 .. (Len(s) - 1) |-> s[at(k)]]
  BY DEF Q!DelItem
<1> HIDE DEF at
<1>5. Q!DelItem(s, d) \in [1 .. (Len(s) - 1) -> S]
  BY <1>2, <1>3, <1>4
<1>6. Q!DelItem(s, d) \in Seq(S) /\ Len(Q!DelItem(s, d)) = Len(s) - 1
  <2> DEFINE n == Len(s) - 1
             r == Q!DelItem(s, d)
  <2>1. n \in Nat /\ r \in [1 .. n -> S]
    BY <1>1, <1>5
  <2> HIDE DEF n, r
  <2>2. r \in Seq(S) /\ Len(r) = n
    BY <2>1
  <2> QED BY <2>2 DEF n, r
<1>7. Range(Q!DelItem(s, d)) \subseteq Range(s)
  BY <1>1, <1>2, <1>4 DEF Range
<1> QED BY <1>6, <1>7

\* Lists of waiters from which one is removed: he is gone, since nobody is listed twice.
LEMMA RemoveFromList ==
  ASSUME NEW S, NEW s \in Seq(S), NEW x
  PROVE  /\ Q!Remove(s, x) \in Seq(S)
         /\ Range(Q!Remove(s, x)) \subseteq Range(s)
         /\ s = <<>> => Q!Remove(s, x) = <<>>
         /\ IsInjective(s) => IsInjective(Q!Remove(s, x)) /\ x \notin Range(Q!Remove(s, x))
<1>1. Len(s) \in Nat /\ DOMAIN s = 1 .. Len(s) /\ Q!Range(s) = Range(s)
  BY LenProperties DEF Q!Range, Range
<1>2. CASE x \notin Range(s)
  BY <1>1, <1>2 DEF Q!Remove
<1>3. CASE x \in Range(s)
  <2> DEFINE d == Q!Index(s, x)
             r == Q!DelItem(s, d)
  <2>1. Q!Remove(s, x) = r
    BY <1>1, <1>3 DEF Q!Remove
  <2>2. s # <<>>
    BY <1>1, <1>3 DEF Range
  <2>3. r \in Seq(S) /\ Range(r) \subseteq Range(s) /\ Len(r) = Len(s) - 1
    BY <2>2, DeleteFromList
  <2>4. ASSUME IsInjective(s) PROVE IsInjective(r) /\ x \notin Range(r)
    <3>1. \E k \in DOMAIN s : s[k] = x /\ \A j \in 1 .. (k - 1) : s[j] # x
      <4>1. PICK k \in DOMAIN s : s[k] = x
        BY <1>3 DEF Range
      <4>2. \A j \in 1 .. (k - 1) : j \in DOMAIN s /\ j # k
        BY <1>1, <4>1
      <4> QED BY <2>4, <4>1, <4>2 DEF IsInjective
    <3>2. d \in 1 .. Len(s) /\ s[d] = x
      BY <1>1, <3>1 DEF Q!Index
    <3>3. DOMAIN r = 1 .. (Len(s) - 1) /\ \A k \in 1 .. (Len(s) - 1) : r[k] = s[IF k < d THEN k ELSE k + 1]
      BY DEF Q!DelItem
    <3> HIDE DEF d, r
    <3>4. \A k \in 1 .. (Len(s) - 1) :
            (IF k < d THEN k ELSE k + 1) \in 1 .. Len(s) /\ (IF k < d THEN k ELSE k + 1) # d
      BY <1>1, <3>2
    <3>5. \A k \in 1 .. (Len(s) - 1) : r[k] # x
      BY <1>1, <2>4, <3>2, <3>3, <3>4 DEF IsInjective
    <3>6. IsInjective(r)
      <4> SUFFICES ASSUME NEW a \in 1 .. (Len(s) - 1), NEW b \in 1 .. (Len(s) - 1), r[a] = r[b]
                   PROVE  a = b
        BY <3>3 DEF IsInjective
      <4>1. (IF a < d THEN a ELSE a + 1) = (IF b < d THEN b ELSE b + 1)
        BY <1>1, <2>4, <3>3, <3>4 DEF IsInjective
      <4> QED BY <1>1, <3>2, <4>1
    <3> QED BY <3>3, <3>5, <3>6 DEF Range
  <2> QED BY <2>1, <2>2, <2>3, <2>4
<1> QED BY <1>2, <1>3

-------------------------------------------------------------------------------
\* The constants of the queue.
LEMMA QueueConstants ==
  /\ IsFiniteSet(Threads) /\ Items \subseteq Int /\ Items # {}
  /\ MaxSize \in Nat /\ MaxCalls \in Nat /\ Abandoned \notin Threads
  /\ Conds = {"not_empty", "not_full", "all_tasks_done"}
  BY QueueHasItsConstants DEF Q!QueueAssumption, Q!CondAssumption, Q!IsFiniteSet, IsFiniteSet

\* What Queue counts with is the Cardinality of this module.
LEMMA SameCardinality == \A A : Q!Cardinality(A) = Cardinality(A)
  BY DEF Q!Cardinality, Cardinality

\* What notify() does to the lists, and to the threads but the one that calls it.
LEMMA NotifyEffect ==
  ASSUME QueueTypeOK, NEW t \in Threads, NEW c \in Conds, NEW n \in Nat, Q!Notify(t, c, n)
  PROVE  /\ Q!CondTypeOK' /\ UNCHANGED timed /\ stage'[t] = "run"
         /\ \A u \in Threads \ {t} : stage'[u] = stage[u] \/
              (stage[u] = "blocked" /\ stage'[u] = "notified" /\ u \in Range(waiters[c]))
         /\ \A d \in Conds \ {c} : waiters'[d] = waiters[d]
         /\ Range(waiters'[c]) \subseteq Range(waiters[c])
         /\ waiters[c] = <<>> => waiters'[c] = <<>>
         /\ IsInjective(waiters[c]) =>
              /\ IsInjective(waiters'[c])
              /\ \A u \in Threads \ {t} : stage'[u] # stage[u] => u \notin Range(waiters'[c])
              /\ n > 0 /\ waiters[c] # <<>> =>
                   \E w \in Range(waiters[c]) : w \notin Range(waiters'[c])
<1> DEFINE l == waiters[c]
           m == IF n < Len(l) THEN n ELSE Len(l)
           released == Range(SubSeq(l, 1, m))
<1>1. l \in Seq(Threads \cup {Abandoned})
  BY DEF QueueTypeOK, Q!CondTypeOK
<1>2. Len(l) \in Nat /\ m \in 0 .. Len(l) /\ DOMAIN l = 1 .. Len(l) /\ (l # <<>> => Len(l) > 0)
  BY <1>1, LenProperties, EmptySeq
<1> HIDE DEF l, m
<1>3. /\ SubSeq(l, m + 1, Len(l)) \in Seq(Threads \cup {Abandoned})
      /\ released = {l[k] : k \in 1 .. m}
      /\ Range(SubSeq(l, m + 1, Len(l))) \subseteq Range(l)
      /\ l = <<>> => SubSeq(l, m + 1, Len(l)) = <<>>
      /\ IsInjective(l) =>
           /\ IsInjective(SubSeq(l, m + 1, Len(l)))
           /\ Range(SubSeq(l, m + 1, Len(l))) = Range(l) \ released
  BY <1>1, <1>2, DropFromList
<1> USE DEF l, m
<1>4. /\ waiters' = [waiters EXCEPT ![c] = SubSeq(@, m + 1, Len(@))]
      /\ stage' = [u \in Threads |->
                     CASE u = t -> "run"
                       [] u # t /\ u \in released /\ stage[u] = "blocked" -> "notified"
                       [] OTHER -> stage[u]]
      /\ UNCHANGED timed
  BY DEF Q!Notify, Q!Range, Range
<1> HIDE DEF m, released
<1>5. waiters'[c] = SubSeq(l, m + 1, Len(l)) /\ \A d \in Conds \ {c} : waiters'[d] = waiters[d]
  BY <1>4 DEF QueueTypeOK, Q!CondTypeOK
<1>6. waiters' \in [Conds -> Seq(Threads \cup {Abandoned})]
  BY <1>3, <1>4 DEF QueueTypeOK, Q!CondTypeOK
<1>7. /\ stage'[t] = "run" /\ stage' \in [Threads -> Q!Stages]
      /\ \A u \in Threads \ {t} :
           stage'[u] = stage[u] \/ (stage[u] = "blocked" /\ stage'[u] = "notified" /\ u \in released)
  <2>1. \A u \in Threads : stage'[u] = CASE u = t -> "run"
                              [] u # t /\ u \in released /\ stage[u] = "blocked" -> "notified"
                              [] OTHER -> stage[u]
    BY <1>4
  <2>2. \A u \in Threads \ {t} :
           stage'[u] = stage[u] \/ (stage[u] = "blocked" /\ stage'[u] = "notified" /\ u \in released)
    BY <2>1
  <2>3. stage'[t] = "run"
    BY <2>1
  <2>4. stage \in [Threads -> Q!Stages] /\ "notified" \in Q!Stages /\ "run" \in Q!Stages
    BY DEF QueueTypeOK, Q!CondTypeOK, Q!Stages
  <2>5. \A u \in Threads : stage'[u] \in Q!Stages
    BY <2>2, <2>3, <2>4
  <2>6. stage' = [u \in Threads |-> stage'[u]]
    BY <1>4
  <2> QED BY <2>2, <2>3, <2>5, <2>6
<1>8. released \subseteq Range(l)
  <2>1. 1 .. m \subseteq 1 .. Len(l)
    BY <1>2
  <2> QED BY <1>2, <1>3, <2>1 DEF Range
<1>9. ASSUME n > 0, l # <<>>, IsInjective(l) PROVE \E w \in Range(l) : w \notin Range(waiters'[c])
  <2>1. m >= 1
    BY <1>2, <1>9 DEF m
  <2>2. l[1] \in released
    BY <1>2, <1>3, <2>1
  <2> QED BY <1>3, <1>5, <1>8, <1>9, <2>2
<1>10. Q!CondTypeOK'
  BY <1>4, <1>6, <1>7 DEF QueueTypeOK, Q!CondTypeOK
<1>11. IsInjective(l) => \A u \in Threads \ {t} : stage'[u] # stage[u] => u \notin Range(waiters'[c])
  BY <1>3, <1>5, <1>7
<1> QED BY <1>3, <1>4, <1>5, <1>7, <1>8, <1>9, <1>10, <1>11

\* A thread that is in no call, or past its wait, is in no list.
LEMMA OffTheLists ==
  ASSUME QueueIInv, ~interrupted, NEW t \in Threads,
         op[t] = "none" \/ stage[t] \notin {"blocked", "gaveup"}
  PROVE  \A c \in Conds : t \notin Range(waiters[c])
  BY DEF QueueIInv, ListInv, KindOf

\* Numbers of calls on their way.
LEMMA TransitCounts ==
  ASSUME NEW o, NEW c
  PROVE  /\ IsFiniteSet(Q!InTransit(o, c)) /\ Cardinality(Q!InTransit(o, c)) \in Nat
         /\ IsFiniteSet(Q!InTransit(o, c)') /\ Cardinality(Q!InTransit(o, c)') \in Nat
<1>1. Q!InTransit(o, c) \subseteq Threads /\ Q!InTransit(o, c)' \subseteq Threads
  BY DEF Q!InTransit
<1>2. IsFiniteSet(Q!InTransit(o, c)) /\ IsFiniteSet(Q!InTransit(o, c)')
  BY <1>1, QueueConstants, FS_Subset
<1> QED BY <1>2, FS_CardinalityType

\* A set that has lost at most one member, ...
LEMMA CountLosesOne ==
  ASSUME NEW A, NEW B, IsFiniteSet(A), IsFiniteSet(B), NEW t, A \ {t} \subseteq B
  PROVE  Cardinality(A) - 1 <= Cardinality(B)
<1>1. Cardinality(A) \in Nat /\ Cardinality(B) \in Nat /\ IsFiniteSet(A \ {t})
  BY FS_CardinalityType, FS_RemoveElement
<1>2. Cardinality(A \ {t}) \in Nat /\ Cardinality(A \ {t}) <= Cardinality(B)
  BY <1>1, FS_Subset, FS_CardinalityType
<1>3. Cardinality(A \ {t}) = IF t \in A THEN Cardinality(A) - 1 ELSE Cardinality(A)
  BY FS_RemoveElement
<1> QED BY <1>1, <1>2, <1>3

\* ... one that has gained a member, ...
LEMMA CountGainsOne ==
  ASSUME NEW A, NEW B, IsFiniteSet(A), IsFiniteSet(B), NEW w, w \notin A, A \cup {w} \subseteq B
  PROVE  Cardinality(A) + 1 <= Cardinality(B)
<1>1. Cardinality(A) \in Nat /\ Cardinality(B) \in Nat
  BY FS_CardinalityType
<1>2. IsFiniteSet(A \cup {w}) /\ Cardinality(A \cup {w}) = Cardinality(A) + 1
  BY FS_AddElement
<1>3. Cardinality(A \cup {w}) <= Cardinality(B)
  BY <1>2, FS_Subset
<1> QED BY <1>1, <1>2, <1>3

\* ... and one that has lost none.
LEMMA CountKept ==
  ASSUME NEW A, NEW B, IsFiniteSet(A), IsFiniteSet(B), A \subseteq B
  PROVE  Cardinality(A) <= Cardinality(B)
  BY FS_Subset

\* The two halves of Claimed.
ItemsClaimed ==
  waiters["not_empty"] # <<>> => Len(queue) <= Cardinality(Q!InTransit("get", "not_empty"))
RoomClaimed ==
  waiters["not_full"] # <<>> => MaxSize - Len(queue) <= Cardinality(Q!InTransit("put", "not_full"))

\* Claimed is its two halves, now ...
LEMMA ClaimedParts == Claimed <=> (~interrupted => ItemsClaimed /\ RoomClaimed)
  BY SameCardinality DEF Claimed, Q!Claimed, ItemsClaimed, RoomClaimed

\* ... and at the next state.
LEMMA ClaimedPartsLater == Claimed' <=> (~interrupted' => ItemsClaimed' /\ RoomClaimed')
<1>1. /\ Q!Cardinality(Q!InTransit("get", "not_empty")') = Cardinality(Q!InTransit("get", "not_empty")')
      /\ Q!Cardinality(Q!InTransit("put", "not_full")') = Cardinality(Q!InTransit("put", "not_full")')
  BY SameCardinality
<1> QED BY <1>1 DEF Claimed, Q!Claimed, ItemsClaimed, RoomClaimed

\* What a notification by a thread that leaves its call does to the invariant of the lists.
LEMMA NotifyKeepsLists ==
  ASSUME QueueIInv, NEW t \in Threads, NEW c \in Conds, NEW n \in Nat, Q!Notify(t, c, n),
         op[t] = "none" \/ stage[t] \in Q!Resumable,
         op' = [op EXCEPT ![t] = "none"], UNCHANGED interrupted
  PROVE  StageInv' /\ ListInv'
<1>1. /\ UNCHANGED timed /\ stage'[t] = "run"
      /\ \A u \in Threads \ {t} : stage'[u] = stage[u] \/
           (stage[u] = "blocked" /\ stage'[u] = "notified" /\ u \in Range(waiters[c]))
      /\ \A d \in Conds \ {c} : waiters'[d] = waiters[d]
      /\ Range(waiters'[c]) \subseteq Range(waiters[c])
      /\ IsInjective(waiters[c]) =>
           /\ IsInjective(waiters'[c])
           /\ \A u \in Threads \ {t} : stage'[u] # stage[u] => u \notin Range(waiters'[c])
  BY NotifyEffect DEF QueueIInv
<1>2. op \in [Threads -> {"none", "get", "put", "join"}]
  BY DEF QueueIInv, QueueTypeOK
<1>3. StageInv'
  BY <1>1, <1>2 DEF QueueIInv, StageInv
<1>4. ListInv'
  <2> SUFFICES ASSUME ~interrupted, NEW d \in Conds
               PROVE  /\ IsInjective(waiters'[d])
                      /\ \A u \in Range(waiters'[d]) :
                           /\ u \in Threads /\ op'[u] = KindOf(d)
                           /\ stage'[u] \in {"blocked", "gaveup"}
    BY DEF ListInv
  <2>1. /\ \A e \in Conds : IsInjective(waiters[e]) /\ t \notin Range(waiters[e])
        /\ \A e \in Conds : \A u \in Range(waiters[e]) :
             u \in Threads /\ op[u] = KindOf(e) /\ stage[u] \in {"blocked", "gaveup"}
    BY OffTheLists DEF QueueIInv, ListInv, Q!Resumable
  <2>2. CASE d = c
    BY <1>1, <1>2, <2>1, <2>2
  <2>3. CASE d # c
    <3>1. KindOf(d) # KindOf(c)
      BY <2>3, QueueConstants DEF KindOf
    <3>2. waiters'[d] = waiters[d]
      BY <1>1, <2>3
    <3>3. ASSUME NEW u \in Range(waiters[d])
          PROVE  u \in Threads \ {t} /\ op'[u] = KindOf(d) /\ stage'[u] = stage[u]
      BY <1>1, <1>2, <2>1, <3>1, <3>3
    <3> QED BY <2>1, <3>2, <3>3
  <2> QED BY <2>2, <2>3
<1> QED BY <1>3, <1>4

\* A list that a notification finds with entries has one call more on its way.
LEMMA NotifyAddsOne ==
  ASSUME QueueIInv, ~interrupted, NEW t \in Threads, NEW c \in {"not_empty", "not_full"},
         Q!Notify(t, c, 1), op[t] # KindOf(c), op' = [op EXCEPT ![t] = "none"],
         waiters[c] # <<>>
  PROVE  Cardinality(Q!InTransit(KindOf(c), c)) + 1 <= Cardinality(Q!InTransit(KindOf(c), c)')
<1> DEFINE A == Q!InTransit(KindOf(c), c)
           B == Q!InTransit(KindOf(c), c)'
<1>1. c \in Conds /\ KindOf(c) # "none"
  BY QueueConstants DEF KindOf
<1>2. PICK w \in Range(waiters[c]) : w \notin Range(waiters'[c])
  BY <1>1, NotifyEffect DEF QueueIInv, ListInv
<1>3. Range(waiters'[c]) \subseteq Range(waiters[c])
  BY <1>1, NotifyEffect DEF QueueIInv
<1>4. w \in Threads /\ op[w] = KindOf(c) /\ w # t
  BY <1>1, <1>2 DEF QueueIInv, ListInv
<1>5. \A u \in Threads \ {t} : op'[u] = op[u]
  BY DEF QueueIInv, QueueTypeOK
<1>6. w \notin A /\ A \cup {w} \subseteq B
  BY <1>1, <1>2, <1>3, <1>4, <1>5 DEF Q!InTransit, Q!Range, Range
<1> QED BY <1>6, TransitCounts, CountGainsOne

\* The other condition loses the notifier, at most.
LEMMA NotifierLeaves ==
  ASSUME QueueTypeOK, NEW t \in Threads, NEW c \in Conds, NEW o \in {"get", "put"},
         waiters'[c] = waiters[c], op' = [op EXCEPT ![t] = "none"]
  PROVE  /\ Cardinality(Q!InTransit(o, c)) - 1 <= Cardinality(Q!InTransit(o, c)')
         /\ op[t] # o => Cardinality(Q!InTransit(o, c)) <= Cardinality(Q!InTransit(o, c)')
<1>1. \A u \in Threads \ {t} : op'[u] = op[u]
  BY DEF QueueTypeOK
<1>2. /\ Q!InTransit(o, c) \ {t} \subseteq Q!InTransit(o, c)'
      /\ op[t] # o => Q!InTransit(o, c) \subseteq Q!InTransit(o, c)'
  BY <1>1 DEF Q!InTransit
<1> QED BY <1>2, TransitCounts, CountLosesOne, CountKept

\* put() that finds room keeps the invariant.
LEMMA PutKeeps ==
  ASSUME QueueIInv, NEW t \in Threads, NEW x \in Items, Q!Put(t, x)
  PROVE  QueueIInv'
<1> USE QueueConstants DEF Q!Put, Q!Finish
<1>1. /\ op[t] \in {"none", "put"} /\ (op[t] = "none" \/ stage[t] \in Q!Resumable)
      /\ UNCHANGED <<interrupted, arg, fetched>> /\ calls' \in Nat
      /\ op' = [op EXCEPT ![t] = "none"]
  BY DEF Q!Call, Q!Resume, QueueIInv, QueueTypeOK
<1>2. queue \in Seq(Items) /\ Len(queue) \in Nat /\ queue' = Append(queue, x)
  BY DEF QueueIInv, QueueTypeOK, Q!_put
<1>3. queue' \in Seq(Items) /\ Len(queue') = Len(queue) + 1
  BY <1>2, AppendProperties
<1>4. Q!CondTypeOK' /\ \A d \in Conds \ {"not_empty"} : waiters'[d] = waiters[d]
  BY NotifyEffect DEF QueueIInv
<1>5. QueueTypeOK'
  BY <1>1, <1>3, <1>4 DEF QueueIInv, QueueTypeOK
<1>6. RoomKept'
  BY <1>2, <1>3 DEF QueueIInv, RoomKept, Q!Full
<1>7. StageInv' /\ ListInv'
  BY <1>1, NotifyKeepsLists
<1>8. ASSUME ~interrupted PROVE ItemsClaimed' /\ RoomClaimed'
  <2>1. ItemsClaimed /\ RoomClaimed
    BY <1>8, ClaimedParts DEF QueueIInv
  <2>2. /\ Cardinality(Q!InTransit("get", "not_empty")) \in Nat
        /\ Cardinality(Q!InTransit("get", "not_empty")') \in Nat
        /\ Cardinality(Q!InTransit("put", "not_full")) \in Nat
        /\ Cardinality(Q!InTransit("put", "not_full")') \in Nat
    BY TransitCounts
  <2>3. ItemsClaimed'
    <3> SUFFICES ASSUME waiters'["not_empty"] # <<>>
                 PROVE  Len(queue') <= Cardinality(Q!InTransit("get", "not_empty")')
      BY DEF ItemsClaimed
    <3>1. waiters["not_empty"] # <<>>
      BY NotifyEffect DEF QueueIInv
    <3>2. Cardinality(Q!InTransit("get", "not_empty")) + 1 <= Cardinality(Q!InTransit("get", "not_empty")')
      <4>1. KindOf("not_empty") = "get" /\ op[t] # "get"
        BY <1>1 DEF KindOf
      <4> QED BY <1>1, <1>8, <3>1, <4>1, NotifyAddsOne
    <3> QED BY <1>2, <1>3, <2>1, <2>2, <3>1, <3>2 DEF ItemsClaimed
  <2>4. RoomClaimed'
    <3> SUFFICES ASSUME waiters'["not_full"] # <<>>
                 PROVE  MaxSize - Len(queue') <= Cardinality(Q!InTransit("put", "not_full")')
      BY DEF RoomClaimed
    <3>1. waiters'["not_full"] = waiters["not_full"]
      BY <1>4
    <3>2. Cardinality(Q!InTransit("put", "not_full")) - 1 <= Cardinality(Q!InTransit("put", "not_full")')
      BY <1>1, <3>1, NotifierLeaves DEF QueueIInv
    <3> QED BY <1>2, <1>3, <2>1, <2>2, <3>1, <3>2 DEF RoomClaimed
  <2> QED BY <2>3, <2>4
<1>9. Claimed'
  BY <1>1, <1>8, ClaimedPartsLater
<1> QED BY <1>5, <1>6, <1>7, <1>9 DEF QueueIInv

\* get() that finds an item keeps the invariant.
LEMMA GetKeeps ==
  ASSUME QueueIInv, NEW t \in Threads, Q!Get(t)
  PROVE  QueueIInv'
<1> USE QueueConstants DEF Q!Get, Q!Finish
<1>1. /\ op[t] \in {"none", "get"} /\ (op[t] = "none" \/ stage[t] \in Q!Resumable)
      /\ UNCHANGED <<interrupted, arg, unfinished_tasks>> /\ calls' \in Nat
      /\ op' = [op EXCEPT ![t] = "none"] /\ fetched' \in [Threads -> Nat]
  BY DEF Q!Call, Q!Resume, QueueIInv, QueueTypeOK
<1>2. queue \in Seq(Items) /\ Len(queue) \in Nat /\ queue # <<>>
      /\ queue' = Q!DelItem(queue, Q!_get(queue))
  BY DEF QueueIInv, QueueTypeOK
<1>3. queue' \in Seq(Items) /\ Len(queue') = Len(queue) - 1 /\ Len(queue') \in Nat
  <2>1. queue' \in Seq(Items) /\ Len(queue') = Len(queue) - 1
    BY <1>2, DeleteFromList
  <2> QED BY <2>1, LenProperties
<1>4. Q!CondTypeOK' /\ \A d \in Conds \ {"not_full"} : waiters'[d] = waiters[d]
  BY NotifyEffect DEF QueueIInv
<1>5. QueueTypeOK'
  BY <1>1, <1>3, <1>4 DEF QueueIInv, QueueTypeOK
<1>6. RoomKept'
  BY <1>2, <1>3 DEF QueueIInv, RoomKept
<1>7. StageInv' /\ ListInv'
  BY <1>1, NotifyKeepsLists
<1>8. ASSUME ~interrupted PROVE ItemsClaimed' /\ RoomClaimed'
  <2>1. ItemsClaimed /\ RoomClaimed
    BY <1>8, ClaimedParts DEF QueueIInv
  <2>2. /\ Cardinality(Q!InTransit("get", "not_empty")) \in Nat
        /\ Cardinality(Q!InTransit("get", "not_empty")') \in Nat
        /\ Cardinality(Q!InTransit("put", "not_full")) \in Nat
        /\ Cardinality(Q!InTransit("put", "not_full")') \in Nat
    BY TransitCounts
  <2>3. RoomClaimed'
    <3> SUFFICES ASSUME waiters'["not_full"] # <<>>
                 PROVE  MaxSize - Len(queue') <= Cardinality(Q!InTransit("put", "not_full")')
      BY DEF RoomClaimed
    <3>1. waiters["not_full"] # <<>>
      BY NotifyEffect DEF QueueIInv
    <3>2. Cardinality(Q!InTransit("put", "not_full")) + 1 <= Cardinality(Q!InTransit("put", "not_full")')
      <4>1. KindOf("not_full") = "put" /\ op[t] # "put"
        BY <1>1 DEF KindOf
      <4> QED BY <1>1, <1>8, <3>1, <4>1, NotifyAddsOne
    <3> QED BY <1>2, <1>3, <2>1, <2>2, <3>1, <3>2 DEF RoomClaimed
  <2>4. ItemsClaimed'
    <3> SUFFICES ASSUME waiters'["not_empty"] # <<>>
                 PROVE  Len(queue') <= Cardinality(Q!InTransit("get", "not_empty")')
      BY DEF ItemsClaimed
    <3>1. waiters'["not_empty"] = waiters["not_empty"]
      BY <1>4
    <3>2. Cardinality(Q!InTransit("get", "not_empty")) - 1 <= Cardinality(Q!InTransit("get", "not_empty")')
      BY <1>1, <3>1, NotifierLeaves DEF QueueIInv
    <3> QED BY <1>2, <1>3, <2>1, <2>2, <3>1, <3>2 DEF ItemsClaimed
  <2> QED BY <2>3, <2>4
<1>9. Claimed'
  BY <1>1, <1>8, ClaimedPartsLater
<1> QED BY <1>5, <1>6, <1>7, <1>9 DEF QueueIInv

\* A call that waits, for the first time or again, keeps the invariant: it has seen that
\* there is nothing to wait for in vain.
LEMMA WaitKeeps ==
  ASSUME QueueIInv, NEW t \in Threads, NEW c \in Conds, NEW timeout \in BOOLEAN,
         Q!Wait(t, c, timeout),
         (op[t] = "none" /\ stage[t] = "run") \/ (op[t] = KindOf(c) /\ stage[t] \in Q!Resumable),
         op' = [op EXCEPT ![t] = KindOf(c)], c = "all_tasks_done" => ~timeout,
         c = "not_empty" => queue = <<>>, c = "not_full" => Q!Full,
         arg' \in [Threads -> Items], calls' \in Nat,
         UNCHANGED <<queue, unfinished_tasks, fetched, interrupted>>
  PROVE  QueueIInv'
<1> USE QueueConstants DEF Q!Wait
<1>1. /\ waiters[c] \in Seq(Threads \cup {Abandoned})
      /\ waiters'[c] = Append(waiters[c], t) /\ \A d \in Conds \ {c} : waiters'[d] = waiters[d]
      /\ stage'[t] = "blocked" /\ timed'[t] = timeout /\ op'[t] = KindOf(c)
      /\ \A u \in Threads \ {t} : stage'[u] = stage[u] /\ timed'[u] = timed[u] /\ op'[u] = op[u]
  BY DEF QueueIInv, QueueTypeOK, Q!CondTypeOK
<1>2. /\ waiters'[c] \in Seq(Threads \cup {Abandoned})
      /\ Range(waiters'[c]) = Range(waiters[c]) \cup {t}
      /\ IsInjective(waiters[c]) /\ t \notin Range(waiters[c]) => IsInjective(waiters'[c])
  BY <1>1, AppendToList
<1>3. KindOf(c) \in {"get", "put", "join"}
  BY DEF KindOf
<1>4. QueueTypeOK'
  BY <1>1, <1>2, <1>3 DEF QueueIInv, QueueTypeOK, Q!CondTypeOK, Q!Stages
<1>5. RoomKept'
  BY DEF QueueIInv, RoomKept
<1>6. StageInv'
  BY <1>1, <1>3 DEF QueueIInv, StageInv, KindOf
<1>7. ListInv'
  <2> SUFFICES ASSUME ~interrupted, NEW d \in Conds
               PROVE  /\ IsInjective(waiters'[d])
                      /\ \A u \in Range(waiters'[d]) :
                           /\ u \in Threads /\ op'[u] = KindOf(d)
                           /\ stage'[u] \in {"blocked", "gaveup"}
    BY DEF ListInv
  <2>1. /\ \A e \in Conds : IsInjective(waiters[e]) /\ t \notin Range(waiters[e])
        /\ \A e \in Conds : \A u \in Range(waiters[e]) :
             u \in Threads /\ op[u] = KindOf(e) /\ stage[u] \in {"blocked", "gaveup"}
    BY OffTheLists DEF QueueIInv, ListInv, Q!Resumable
  <2> QED BY <1>1, <1>2, <2>1
<1>8. ASSUME ~interrupted PROVE ItemsClaimed' /\ RoomClaimed'
  <2>1. ItemsClaimed /\ RoomClaimed
    BY <1>8, ClaimedParts DEF QueueIInv
  <2>2. /\ Cardinality(Q!InTransit("get", "not_empty")') \in Nat
        /\ Cardinality(Q!InTransit("put", "not_full")') \in Nat
    BY TransitCounts
  <2>3. ItemsClaimed'
    <3>1. CASE c = "not_empty"
      <4>1. Len(queue') = 0
        BY <3>1
      <4> QED BY <2>2, <4>1 DEF ItemsClaimed
    <3>2. CASE c # "not_empty"
      <4>1. waiters'["not_empty"] = waiters["not_empty"] /\ \A u \in Threads : op'[u] = "get" <=> op[u] = "get"
        BY <1>1, <3>2 DEF KindOf
      <4>2. Q!InTransit("get", "not_empty")' = Q!InTransit("get", "not_empty")
        BY <4>1 DEF Q!InTransit
      <4> QED BY <2>1, <4>1, <4>2 DEF ItemsClaimed
    <3> QED BY <3>1, <3>2
  <2>4. RoomClaimed'
    <3>1. CASE c = "not_full"
      <4>1. Len(queue') = MaxSize
        BY <3>1 DEF Q!Full
      <4> QED BY <2>2, <4>1 DEF RoomClaimed
    <3>2. CASE c # "not_full"
      <4>1. waiters'["not_full"] = waiters["not_full"] /\ \A u \in Threads : op'[u] = "put" <=> op[u] = "put"
        BY <1>1, <3>2 DEF KindOf
      <4>2. Q!InTransit("put", "not_full")' = Q!InTransit("put", "not_full")
        BY <4>1 DEF Q!InTransit
      <4> QED BY <2>1, <4>1, <4>2 DEF RoomClaimed
    <3> QED BY <3>1, <3>2
  <2> QED BY <2>3, <2>4
<1>9. Claimed'
  BY <1>8, ClaimedPartsLater
<1> QED BY <1>4, <1>5, <1>6, <1>7, <1>9 DEF QueueIInv

\* A call that ends without a notification keeps the invariant: by an exception after an
\* interrupt, or because what it waited for is not there.
LEMMA LeaveKeeps ==
  ASSUME QueueIInv, NEW t \in Threads, Q!Return(t), Q!Finish(t),
         stage[t] \in {"notified", "expired", "interrupted"},
         op[t] = "get" => queue = <<>> \/ interrupted, op[t] = "put" => Q!Full \/ interrupted,
         UNCHANGED <<queue, unfinished_tasks, arg, fetched, calls, interrupted>>
  PROVE  QueueIInv'
<1> USE QueueConstants DEF Q!Return, Q!Finish
<1>1. QueueTypeOK'
  BY DEF QueueIInv, QueueTypeOK, Q!CondTypeOK, Q!Stages
<1>2. RoomKept' /\ StageInv'
  BY DEF QueueIInv, QueueTypeOK, Q!CondTypeOK, RoomKept, StageInv
<1>3. ListInv'
  <2> SUFFICES ASSUME ~interrupted, NEW d \in Conds, NEW u \in Range(waiters[d])
               PROVE  /\ u \in Threads /\ op'[u] = KindOf(d)
                      /\ stage'[u] \in {"blocked", "gaveup"}
    BY DEF QueueIInv, ListInv
  <2>1. u \in Threads /\ u # t /\ op[u] = KindOf(d) /\ stage[u] \in {"blocked", "gaveup"}
    BY OffTheLists DEF QueueIInv, ListInv
  <2> QED BY <2>1 DEF QueueIInv, QueueTypeOK, Q!CondTypeOK
<1>4. ASSUME ~interrupted PROVE ItemsClaimed' /\ RoomClaimed'
  <2>1. ItemsClaimed /\ RoomClaimed
    BY <1>4, ClaimedParts DEF QueueIInv
  <2>2. /\ Cardinality(Q!InTransit("get", "not_empty")) \in Nat
        /\ Cardinality(Q!InTransit("get", "not_empty")') \in Nat
        /\ Cardinality(Q!InTransit("put", "not_full")) \in Nat
        /\ Cardinality(Q!InTransit("put", "not_full")') \in Nat
        /\ Len(queue) \in Nat
    BY TransitCounts DEF QueueIInv, QueueTypeOK
  <2>3. ItemsClaimed'
    <3>1. CASE op[t] = "get"
      <4>1. Len(queue') = 0
        BY <1>4, <3>1
      <4> QED BY <2>2, <4>1 DEF ItemsClaimed
    <3>2. CASE op[t] # "get"
      <4>1. Cardinality(Q!InTransit("get", "not_empty")) <= Cardinality(Q!InTransit("get", "not_empty")')
        BY <3>2, NotifierLeaves DEF QueueIInv
      <4> QED BY <2>1, <2>2, <4>1 DEF ItemsClaimed
    <3> QED BY <3>1, <3>2
  <2>4. RoomClaimed'
    <3>1. CASE op[t] = "put"
      <4>1. Len(queue') = MaxSize
        BY <1>4, <3>1 DEF Q!Full
      <4> QED BY <2>2, <4>1 DEF RoomClaimed
    <3>2. CASE op[t] # "put"
      <4>1. Cardinality(Q!InTransit("put", "not_full")) <= Cardinality(Q!InTransit("put", "not_full")')
        BY <3>2, NotifierLeaves DEF QueueIInv
      <4> QED BY <2>1, <2>2, <4>1 DEF RoomClaimed
    <3> QED BY <3>1, <3>2
  <2> QED BY <2>3, <2>4
<1>5. Claimed'
  BY <1>4, ClaimedPartsLater
<1> QED BY <1>1, <1>2, <1>3, <1>5 DEF QueueIInv

\* task_done() keeps the invariant.
LEMMA TaskDoneKeeps ==
  ASSUME QueueIInv, NEW t \in Threads, Q!TaskDone(t)
  PROVE  QueueIInv'
<1> USE QueueConstants DEF Q!TaskDone, Q!Call
<1>1. /\ fetched' \in [Threads -> Nat] /\ unfinished_tasks' \in Nat /\ calls' \in Nat
      /\ UNCHANGED <<queue, op, arg, interrupted>> /\ op[t] = "none"
  BY DEF QueueIInv, QueueTypeOK
<1>2. RoomKept'
  BY <1>1 DEF QueueIInv, RoomKept
<1>3. CASE unfinished_tasks = 1
  <2>1. Q!Notify(t, "all_tasks_done", Len(waiters["all_tasks_done"]))
        /\ Len(waiters["all_tasks_done"]) \in Nat /\ "all_tasks_done" \in Conds
    BY <1>3 DEF Q!NotifyAll, QueueIInv, QueueTypeOK, Q!CondTypeOK
  <2>2. Q!CondTypeOK' /\ \A d \in Conds \ {"all_tasks_done"} : waiters'[d] = waiters[d]
    BY <2>1, NotifyEffect DEF QueueIInv
  <2>3. QueueTypeOK'
    BY <1>1, <2>2 DEF QueueIInv, QueueTypeOK
  <2>4. op' = [op EXCEPT ![t] = "none"]
    BY <1>1 DEF QueueIInv, QueueTypeOK
  <2>5. StageInv' /\ ListInv'
    BY <1>1, <2>1, <2>4, NotifyKeepsLists
  <2>6. waiters'["not_empty"] = waiters["not_empty"] /\ waiters'["not_full"] = waiters["not_full"]
    BY <2>2
  <2>7. Claimed'
    BY <1>1, <2>6, ClaimedParts, ClaimedPartsLater
       DEF QueueIInv, ItemsClaimed, RoomClaimed, Q!InTransit
  <2> QED BY <1>2, <2>3, <2>5, <2>7 DEF QueueIInv
<1>4. CASE unfinished_tasks # 1
  <2>1. UNCHANGED <<waiters, stage, timed>>
    BY <1>4 DEF Q!condVars
  <2>2. QueueTypeOK' /\ StageInv' /\ ListInv'
    BY <1>1, <2>1 DEF QueueIInv, QueueTypeOK, Q!CondTypeOK, StageInv, ListInv
  <2>3. Claimed'
    BY <1>1, <2>1, ClaimedParts, ClaimedPartsLater
       DEF QueueIInv, ItemsClaimed, RoomClaimed, Q!InTransit
  <2> QED BY <1>2, <2>2, <2>3 DEF QueueIInv
<1> QED BY <1>3, <1>4

\* A timeout that elapses inside wait(), without the mutex, keeps the invariant.
LEMMA TimeOutKeeps ==
  ASSUME QueueIInv, NEW t \in Threads, Q!TimeOut(t)
  PROVE  QueueIInv'
<1> USE QueueConstants DEF Q!TimeOut
<1>1. CASE Q!Expire(t)
  <2> USE <1>1 DEF Q!Expire
  <2>1. QueueTypeOK' /\ RoomKept'
    BY DEF QueueIInv, QueueTypeOK, Q!CondTypeOK, Q!Stages, RoomKept
  <2>2. StageInv' /\ ListInv'
    BY DEF QueueIInv, QueueTypeOK, Q!CondTypeOK, StageInv, ListInv
  <2>3. Claimed'
    BY ClaimedParts, ClaimedPartsLater DEF QueueIInv, ItemsClaimed, RoomClaimed, Q!InTransit
  <2> QED BY <2>1, <2>2, <2>3 DEF QueueIInv
<1>2. CASE Q!RemoveWaiter(t, Q!CondOf(t))
  <2> DEFINE c == Q!CondOf(t)
  <2>1. /\ stage[t] = "gaveup" /\ stage' = [stage EXCEPT ![t] = "expired"]
        /\ waiters' = [waiters EXCEPT ![c] = Q!Remove(@, t)] /\ UNCHANGED timed
        /\ UNCHANGED <<queue, unfinished_tasks, op, arg, fetched, calls, interrupted>>
    BY <1>2 DEF Q!RemoveWaiter
  <2>2. c \in Conds /\ (op[t] # "none" => KindOf(c) = op[t])
    BY DEF Q!CondOf, KindOf, QueueIInv, QueueTypeOK
  <2> HIDE DEF c
  <2>3. waiters[c] \in Seq(Threads \cup {Abandoned})
    BY <2>2 DEF QueueIInv, QueueTypeOK, Q!CondTypeOK
  <2>4. /\ waiters'[c] \in Seq(Threads \cup {Abandoned})
        /\ Range(waiters'[c]) \subseteq Range(waiters[c])
        /\ waiters[c] = <<>> => waiters'[c] = <<>>
        /\ IsInjective(waiters[c]) => IsInjective(waiters'[c]) /\ t \notin Range(waiters'[c])
        /\ \A d \in Conds \ {c} : waiters'[d] = waiters[d]
    <3>1. waiters'[c] = Q!Remove(waiters[c], t) /\ \A d \in Conds \ {c} : waiters'[d] = waiters[d]
      BY <2>1, <2>2 DEF QueueIInv, QueueTypeOK, Q!CondTypeOK
    <3> QED BY <2>3, <3>1, RemoveFromList
  <2>5. QueueTypeOK' /\ RoomKept'
    BY <2>1, <2>2, <2>4 DEF QueueIInv, QueueTypeOK, Q!CondTypeOK, Q!Stages, RoomKept
  <2>6. StageInv'
    BY <2>1 DEF QueueIInv, QueueTypeOK, Q!CondTypeOK, StageInv
  <2>7. op[t] = KindOf(c)
    BY <2>1, <2>2 DEF QueueIInv, StageInv
  <2>8. ListInv'
    <3> SUFFICES ASSUME ~interrupted, NEW d \in Conds
                 PROVE  /\ IsInjective(waiters'[d])
                        /\ \A u \in Range(waiters'[d]) :
                             /\ u \in Threads /\ op[u] = KindOf(d)
                             /\ stage'[u] \in {"blocked", "gaveup"}
      BY <2>1 DEF ListInv
    <3>1. \A e \in Conds : /\ IsInjective(waiters[e])
                           /\ \A u \in Range(waiters[e]) :
                                u \in Threads /\ op[u] = KindOf(e) /\ stage[u] \in {"blocked", "gaveup"}
      BY DEF QueueIInv, ListInv
    <3>2. \A u \in Threads \ {t} : stage'[u] = stage[u]
      BY <2>1 DEF QueueIInv, QueueTypeOK, Q!CondTypeOK
    <3>3. CASE d = c
      BY <2>2, <2>4, <3>1, <3>2, <3>3
    <3>4. CASE d # c
      <4>1. KindOf(d) # KindOf(c)
        BY <2>2, <3>4 DEF KindOf
      <4> QED BY <2>4, <2>7, <3>1, <3>2, <3>4, <4>1
    <3> QED BY <3>3, <3>4
  <2>9. ASSUME ~interrupted PROVE ItemsClaimed' /\ RoomClaimed'
    <3>1. ItemsClaimed /\ RoomClaimed
      BY <2>9, ClaimedParts DEF QueueIInv
    <3>2. /\ Cardinality(Q!InTransit("get", "not_empty")) <= Cardinality(Q!InTransit("get", "not_empty")')
          /\ Cardinality(Q!InTransit("put", "not_full")) <= Cardinality(Q!InTransit("put", "not_full")')
      <4>1. \A d \in Conds : Range(waiters'[d]) \subseteq Range(waiters[d])
        BY <2>4
      <4>2. /\ Q!InTransit("get", "not_empty") \subseteq Q!InTransit("get", "not_empty")'
            /\ Q!InTransit("put", "not_full") \subseteq Q!InTransit("put", "not_full")'
        BY <2>1, <4>1 DEF Q!InTransit, Q!Range, Range
      <4> QED BY <4>2, TransitCounts, CountKept
    <3>3. /\ Cardinality(Q!InTransit("get", "not_empty")) \in Nat
          /\ Cardinality(Q!InTransit("get", "not_empty")') \in Nat
          /\ Cardinality(Q!InTransit("put", "not_full")) \in Nat
          /\ Cardinality(Q!InTransit("put", "not_full")') \in Nat
          /\ Len(queue) \in Nat /\ queue' = queue
      BY <2>1, TransitCounts DEF QueueIInv, QueueTypeOK
    <3>4. \A d \in Conds : waiters'[d] # <<>> => waiters[d] # <<>>
      BY <2>4
    <3> QED BY <3>1, <3>2, <3>3, <3>4 DEF ItemsClaimed, RoomClaimed
  <2>10. Claimed'
    BY <2>1, <2>9, ClaimedPartsLater
  <2> QED BY <2>5, <2>6, <2>8, <2>10 DEF QueueIInv
<1> QED BY <1>1, <1>2

\* An exception that leaves wait() keeps the invariant, most of which ends with it.
LEMMA InterruptKeeps ==
  ASSUME QueueIInv, NEW t \in Threads, Q!InterruptWait(t)
  PROVE  QueueIInv'
<1> USE QueueConstants DEF Q!InterruptWait, Q!Interrupt
<1> DEFINE c == Q!CondOf(t)
<1>1. c \in Conds
  BY DEF Q!CondOf
<1> HIDE DEF c
<1>2. waiters' \in [Conds -> Seq(Threads \cup {Abandoned})]
  <2> DEFINE s == waiters[c]
             r == [i \in DOMAIN s |-> IF s[i] = t THEN Abandoned ELSE s[i]]
  <2>1. s \in Seq(Threads \cup {Abandoned})
    BY <1>1 DEF QueueIInv, QueueTypeOK, Q!CondTypeOK
  <2>2. Len(s) \in Nat /\ DOMAIN s = 1 .. Len(s) /\ \A k \in 1 .. Len(s) : s[k] \in Threads \cup {Abandoned}
    BY <2>1, LenProperties, ElementOfSeq
  <2> HIDE DEF s
  <2>3. r \in Seq(Threads \cup {Abandoned})
    <3>1. r \in [1 .. Len(s) -> Threads \cup {Abandoned}]
      BY <2>2
    <3> HIDE DEF r
    <3> QED BY <2>2, <3>1
  <2>4. waiters' = [waiters EXCEPT ![c] = r]
    BY DEF c, s
  <2> QED BY <2>3, <2>4 DEF QueueIInv, QueueTypeOK, Q!CondTypeOK
<1>3. QueueTypeOK' /\ RoomKept'
  BY <1>2 DEF QueueIInv, QueueTypeOK, Q!CondTypeOK, Q!Stages, RoomKept
<1>4. StageInv'
  BY DEF QueueIInv, QueueTypeOK, Q!CondTypeOK, StageInv
<1>5. ListInv' /\ Claimed'
  BY ClaimedPartsLater DEF ListInv
<1> QED BY <1>3, <1>4, <1>5 DEF QueueIInv

\* The queue is empty, nobody is in a call, and nobody is listed at the start.
LEMMA QueueInitHolds == Q!Init => QueueIInv
<1> SUFFICES ASSUME Q!Init PROVE QueueIInv
  OBVIOUS
<1> USE QueueConstants DEF Q!Init, Q!CondInit
<1>1. <<>> \in Seq(Items) /\ <<>> \in Seq(Threads \cup {Abandoned}) /\ Len(queue) = 0
  BY EmptySeq
<1>2. (CHOOSE x \in Items : TRUE) \in Items
  OBVIOUS
<1>3. QueueTypeOK
  BY <1>1, <1>2 DEF QueueTypeOK, Q!CondTypeOK, Q!Stages
<1>4. RoomKept /\ StageInv
  BY <1>1 DEF RoomKept, StageInv
<1>5. ListInv
  BY DEF ListInv, Range, IsInjective
<1>6. Claimed
  BY ClaimedParts DEF ItemsClaimed, RoomClaimed
<1> QED BY <1>3, <1>4, <1>5, <1>6 DEF QueueIInv

\* A wait() that is called once more goes on where it was.
LEMMA WaitAgainKeeps ==
  ASSUME QueueIInv, NEW t \in Threads,
         Q!PutWaitAgain(t) \/ Q!GetWaitAgain(t) \/ Q!JoinWaitAgain(t)
  PROVE  QueueIInv'
<1> USE QueueConstants DEF Q!Resume
<1>1. CASE Q!PutWaitAgain(t)
  <2> USE <1>1 DEF Q!PutWaitAgain
  <2>1. KindOf("not_full") = "put" /\ "not_full" \in Conds /\ timed[t] \in BOOLEAN
    BY DEF KindOf, QueueIInv, QueueTypeOK, Q!CondTypeOK
  <2>2. op' = [op EXCEPT ![t] = "put"] /\ arg' \in [Threads -> Items] /\ calls' \in Nat
    BY DEF QueueIInv, QueueTypeOK
  <2> QED BY <2>1, <2>2, WaitKeeps
<1>2. CASE Q!GetWaitAgain(t)
  <2> USE <1>2 DEF Q!GetWaitAgain
  <2>1. KindOf("not_empty") = "get" /\ "not_empty" \in Conds /\ timed[t] \in BOOLEAN
    BY DEF KindOf, QueueIInv, QueueTypeOK, Q!CondTypeOK
  <2>2. op' = [op EXCEPT ![t] = "get"] /\ arg' \in [Threads -> Items] /\ calls' \in Nat
    BY DEF QueueIInv, QueueTypeOK
  <2> QED BY <2>1, <2>2, WaitKeeps
<1>3. CASE Q!JoinWaitAgain(t)
  <2> USE <1>3 DEF Q!JoinWaitAgain
  <2>1. KindOf("all_tasks_done") = "join" /\ "all_tasks_done" \in Conds
    BY DEF KindOf
  <2>2. op' = [op EXCEPT ![t] = "join"] /\ arg' \in [Threads -> Items] /\ calls' \in Nat
    BY DEF QueueIInv, QueueTypeOK
  <2> QED BY <2>1, <2>2, WaitKeeps
<1> QED BY <1>1, <1>2, <1>3

\* A call that has to wait keeps the invariant.
LEMMA FirstWaitKeeps ==
  ASSUME QueueIInv, NEW t \in Threads,
         \/ \E x \in Items : \E timeout \in BOOLEAN : Q!PutWait(t, x, timeout)
         \/ \E timeout \in BOOLEAN : Q!GetWait(t, timeout)
         \/ Q!JoinWait(t)
  PROVE  QueueIInv'
<1> USE QueueConstants DEF Q!Call
<1>1. ASSUME op[t] = "none" PROVE stage[t] = "run"
  BY <1>1 DEF QueueIInv, StageInv
<1>2. ASSUME calls' = calls + 1 PROVE calls' \in Nat
  BY <1>2 DEF QueueIInv, QueueTypeOK
<1>3. CASE \E x \in Items : \E timeout \in BOOLEAN : Q!PutWait(t, x, timeout)
  <2> PICK x \in Items, timeout \in BOOLEAN : Q!PutWait(t, x, timeout)
    BY <1>3
  <2> USE DEF Q!PutWait
  <2>1. KindOf("not_full") = "put" /\ "not_full" \in Conds
    BY DEF KindOf
  <2>2. arg' \in [Threads -> Items]
    BY DEF QueueIInv, QueueTypeOK
  <2> QED BY <1>1, <1>2, <2>1, <2>2, WaitKeeps
<1>4. CASE \E timeout \in BOOLEAN : Q!GetWait(t, timeout)
  <2> PICK timeout \in BOOLEAN : Q!GetWait(t, timeout)
    BY <1>4
  <2> USE DEF Q!GetWait
  <2>1. KindOf("not_empty") = "get" /\ "not_empty" \in Conds
    BY DEF KindOf
  <2>2. arg' \in [Threads -> Items]
    BY DEF QueueIInv, QueueTypeOK
  <2> QED BY <1>1, <1>2, <2>1, <2>2, WaitKeeps
<1>5. CASE Q!JoinWait(t)
  <2> USE <1>5 DEF Q!JoinWait
  <2>1. KindOf("all_tasks_done") = "join" /\ "all_tasks_done" \in Conds
    BY DEF KindOf
  <2>2. arg' \in [Threads -> Items]
    BY DEF QueueIInv, QueueTypeOK
  <2> QED BY <1>1, <1>2, <2>1, <2>2, WaitKeeps
<1> QED BY <1>3, <1>4, <1>5

\* A call that ends with nothing done keeps the invariant.
LEMMA EndKeeps ==
  ASSUME QueueIInv, NEW t \in Threads,
         Q!PutFull(t) \/ Q!GetEmpty(t) \/ Q!JoinReturn(t) \/ Q!Raise(t)
  PROVE  QueueIInv'
<1> USE DEF Q!Resume, Q!Resumable
<1>1. CASE Q!PutFull(t)
  BY <1>1, LeaveKeeps DEF Q!PutFull
<1>2. CASE Q!GetEmpty(t)
  BY <1>2, LeaveKeeps DEF Q!GetEmpty
<1>3. CASE Q!JoinReturn(t)
  BY <1>3, LeaveKeeps DEF Q!JoinReturn
<1>4. CASE Q!Raise(t)
  <2>1. interrupted
    BY <1>4 DEF Q!Raise, QueueIInv, StageInv
  <2> QED BY <1>4, <2>1, LeaveKeeps DEF Q!Raise
<1> QED BY <1>1, <1>2, <1>3, <1>4

\* Every step of the threads keeps the invariant.
LEMMA QueueNextKeeps == QueueIInv /\ [Q!Next]_(Q!vars) => QueueIInv'
<1> SUFFICES ASSUME QueueIInv, [Q!Next]_(Q!vars) PROVE QueueIInv'
  OBVIOUS
<1>1. CASE Q!Next
  <2> PICK t \in Threads : Q!Start(t) \/ Q!Proceed(t) \/ Q!InterruptWait(t)
    BY <1>1 DEF Q!Next
  <2>1. CASE Q!Start(t)
    BY <2>1, PutKeeps, GetKeeps, FirstWaitKeeps, TaskDoneKeeps DEF Q!Start
  <2>2. CASE Q!Proceed(t)
    BY <2>2, PutKeeps, GetKeeps, WaitAgainKeeps, EndKeeps, TimeOutKeeps DEF Q!Proceed
  <2> QED BY <2>1, <2>2, InterruptKeeps
<1>2. CASE UNCHANGED Q!vars
  <2> USE <1>2 DEF Q!vars, Q!condVars
  <2>1. QueueTypeOK' /\ RoomKept' /\ StageInv' /\ ListInv'
    BY DEF QueueIInv, QueueTypeOK, Q!CondTypeOK, RoomKept, StageInv, ListInv
  <2>2. Claimed'
    BY ClaimedParts, ClaimedPartsLater DEF QueueIInv, ItemsClaimed, RoomClaimed, Q!InTransit
  <2> QED BY <2>1, <2>2 DEF QueueIInv
<1> QED BY <1>1, <1>2

\* The invariant holds in every state.
THEOREM QueueInvariantsHold == Q!Spec => []QueueIInv
  BY QueueInitHolds, QueueNextKeeps, PTL DEF Q!Spec

\* Type correctness of Queue, and no more items than maxsize although each put() looks at
\* the size and waits in different critical sections.
THEOREM QueueTypeCorrect == Q!Spec => [](QueueTypeOK /\ RoomKept)
<1>1. QueueIInv => QueueTypeOK /\ RoomKept
  BY DEF QueueIInv
<1> QED BY QueueInvariantsHold, <1>1, PTL

\* While getters are listed as waiting every item in the queue has a getter on its way
\* to it, and while putters are every free slot has a putter, with time-outs that race
\* notifications, for queues of all orders and sizes and any number of threads.
THEOREM NothingLeftBehind == Q!Spec => []Claimed
<1>1. QueueIInv => Claimed
  BY DEF QueueIInv
<1> QED BY QueueInvariantsHold, <1>1, PTL

-------------------------------------------------------------------------------
\* put() and get() are those of the blocking queue.
LEMMA BufferRefines ==
  ASSUME QueueIInv, NEW t \in Threads, (\E x \in Items : Q!Put(t, x)) \/ Q!Get(t)
  PROVE  Q!Abstract!Next
<1> USE QueueConstants DEF Q!Call, Q!Resume, Q!Finish, Q!Abstract!Finish
<1>1. ASSUME NEW x \in Items, Q!Put(t, x) PROVE Q!Abstract!Put(t, x)
  <2>1. ~Q!Abstract!Full
    BY <1>1 DEF Q!Put, Q!Full, Q!Abstract!Full, QueueIInv, QueueTypeOK, RoomKept
  <2> QED BY <1>1, <2>1 DEF Q!Put, Q!Abstract!Put, Q!_put, Q!Abstract!_put
<1>2. ASSUME Q!Get(t) PROVE Q!Abstract!Get(t)
  <2>1. Q!_get(queue) = Q!Abstract!_get(queue)
    BY DEF Q!_get, Q!Abstract!_get
  <2> QED BY <1>2, <2>1 DEF Q!Get, Q!Abstract!Get, Q!DelItem, Q!Abstract!DelItem
<1> QED BY <1>1, <1>2 DEF Q!Abstract!Next

\* Calls that have to wait are blocked.
LEMMA WaitRefines ==
  ASSUME QueueIInv, NEW t \in Threads,
         \/ \E x \in Items : \E timeout \in BOOLEAN : Q!PutWait(t, x, timeout)
         \/ \E timeout \in BOOLEAN : Q!GetWait(t, timeout)
         \/ Q!JoinWait(t)
  PROVE  Q!Abstract!Next
<1> USE QueueConstants DEF Q!Call, Q!Abstract!Block
<1>1. arg \in [Threads -> Items] /\ arg = [arg EXCEPT ![t] = arg[t]] /\ arg[t] \in Items
  BY DEF QueueIInv, QueueTypeOK
<1>2. ASSUME NEW x \in Items, NEW timeout \in BOOLEAN, Q!PutWait(t, x, timeout)
      PROVE  Q!Abstract!Block(t, "put", x)
  BY <1>2 DEF Q!PutWait
<1>3. ASSUME NEW timeout \in BOOLEAN, Q!GetWait(t, timeout)
      PROVE  Q!Abstract!Block(t, "get", arg[t])
  BY <1>1, <1>3 DEF Q!GetWait
<1>4. ASSUME Q!JoinWait(t) PROVE Q!Abstract!Block(t, "join", arg[t])
  BY <1>1, <1>4 DEF Q!JoinWait
<1> QED BY <1>1, <1>2, <1>3, <1>4 DEF Q!Abstract!Next

\* Full and Empty are raised when they are true, a join() returns when all is done, and
\* other exceptions come after an interrupt.
LEMMA EndRefines ==
  ASSUME QueueIInv, NEW t \in Threads,
         Q!PutFull(t) \/ Q!GetEmpty(t) \/ Q!JoinReturn(t) \/ Q!Raise(t) \/ Q!InterruptWait(t)
  PROVE  Q!Abstract!Next
<1> USE QueueConstants DEF Q!Resume, Q!Finish, Q!Abstract!Finish
<1>1. ASSUME Q!PutFull(t) PROVE Q!Abstract!TimeOut(t)
  BY <1>1 DEF Q!PutFull, Q!Full, Q!Abstract!Full, Q!Abstract!TimeOut
<1>2. ASSUME Q!GetEmpty(t) PROVE Q!Abstract!TimeOut(t)
  BY <1>2 DEF Q!GetEmpty, Q!Abstract!TimeOut
<1>3. ASSUME Q!JoinReturn(t) PROVE Q!Abstract!Join(t)
  BY <1>3 DEF Q!JoinReturn, Q!Abstract!Join
<1>4. ASSUME stage[t] # "run", timed[t] PROVE op[t] \in {"get", "put"}
  BY <1>4 DEF QueueIInv, QueueTypeOK, StageInv
<1>5. ASSUME Q!Raise(t) PROVE Q!Abstract!Abort(t)
  <2>1. interrupted /\ timed[t]
    BY <1>5 DEF Q!Raise, QueueIInv, StageInv
  <2> QED BY <1>4, <1>5, <2>1 DEF Q!Raise, Q!Abstract!Abort
<1>6. ASSUME Q!InterruptWait(t) PROVE Q!Abstract!Interrupt(t)
  BY <1>4, <1>6 DEF Q!InterruptWait, Q!Interrupt, Q!Abstract!Interrupt
<1> QED BY <1>1, <1>2, <1>3, <1>5, <1>6 DEF Q!Abstract!Next

\* The safety of the promise: for any order and size, items come out as the order has it,
\* never more than maxsize wait, Full and Empty are raised only when they are true, and
\* join() returns only when every task is done.
THEOREM QueueIsBlockingQueue ==
  Q!Spec => Q!Abstract!Init /\ [][Q!Abstract!Next]_(Q!Abstract!vars)
<1>1. Q!Init => Q!Abstract!Init
  BY QueueInitHolds DEF QueueIInv, QueueTypeOK, Q!Init, Q!Abstract!Init
<1>2. QueueIInv /\ [Q!Next]_(Q!vars) => [Q!Abstract!Next]_(Q!Abstract!vars)
  <2> SUFFICES ASSUME QueueIInv, [Q!Next]_(Q!vars)
               PROVE  Q!Abstract!Next \/ UNCHANGED Q!Abstract!vars
    OBVIOUS
  <2>1. CASE Q!Next
    <3> PICK t \in Threads : Q!Start(t) \/ Q!Proceed(t) \/ Q!InterruptWait(t)
      BY <2>1 DEF Q!Next
    <3>1. CASE Q!TaskDone(t)
      <4>1. Q!Abstract!TaskDone(t)
        BY <3>1 DEF Q!TaskDone, Q!Call, Q!Abstract!TaskDone
      <4> QED BY <4>1 DEF Q!Abstract!Next
    <3>2. CASE Q!PutWaitAgain(t) \/ Q!GetWaitAgain(t) \/ Q!JoinWaitAgain(t) \/ Q!TimeOut(t)
      BY <3>2 DEF Q!PutWaitAgain, Q!GetWaitAgain, Q!JoinWaitAgain, Q!TimeOut, Q!Resume,
                  Q!Abstract!vars
    <3>3. CASE Q!PutFull(t) \/ Q!GetEmpty(t) \/ Q!JoinReturn(t) \/ Q!Raise(t) \/ Q!InterruptWait(t)
      BY <3>3, EndRefines
    <3>4. CASE (\E x \in Items : Q!Put(t, x)) \/ Q!Get(t)
      BY <3>4, BufferRefines
    <3>5. CASE \/ \E x \in Items : \E timeout \in BOOLEAN : Q!PutWait(t, x, timeout)
               \/ \E timeout \in BOOLEAN : Q!GetWait(t, timeout)
               \/ Q!JoinWait(t)
      BY <3>5, WaitRefines
    <3> QED BY <3>1, <3>2, <3>3, <3>4, <3>5 DEF Q!Start, Q!Proceed
  <2>2. CASE UNCHANGED Q!vars
    BY <2>2 DEF Q!vars, Q!Abstract!vars
  <2> QED BY <2>1, <2>2
<1> QED BY <1>1, <1>2, QueueInvariantsHold, PTL DEF Q!Spec
================================================================================
