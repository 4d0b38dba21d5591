-------------------------------- MODULE RLock --------------------------------
(***************************************************************************)
(* threading._RLock: a lock, its owner and the owner's recursion level.    *)
(* acquire() and release() read and write owner and count outside of any   *)
(* lock of their own, so every load and store another thread could see     *)
(* between is a step.  ReleaseSave and Restore are the interface           *)
(* Condition.wait() uses to give up all levels at once.                    *)
(***************************************************************************)
EXTENDS Naturals

CONSTANTS
  Threads,
  None,       \* no owner
  MaxDepth    \* bound of the model on the recursion level

ASSUME RLockAssumption == None \notin Threads /\ MaxDepth \in Nat

VARIABLES
  block,   \* self.__block is held
  owner,   \* self.__owner
  count,   \* self.__count
  saved,   \* the count kept by a thread inside Condition.wait()
  pc,      \* where each thread is in a method
  depth    \* acquire() calls of each thread not yet matched by a release()

vars == <<block, owner, count, saved, pc, depth>>

Labels == {"out", "acquire", "set_owner", "set_count",         \* acquire
           "clear_owner", "release",                           \* release
           "save", "save_owner", "save_release",               \* _release_save
           "wait", "restore_count", "restore_owner"}           \* _acquire_restore

\* Type invariant of the variables of _RLock: no interleaving takes count or
\* depth below 0.
TypeOK ==
  /\ block \in BOOLEAN
  /\ owner \in Threads \cup {None}
  /\ count \in Nat
  /\ saved \in [Threads -> Nat]
  /\ pc \in [Threads -> Labels]
  /\ depth \in [Threads -> Nat]

Init ==
  /\ block = FALSE /\ owner = None /\ count = 0
  /\ saved = [t \in Threads |-> 0]
  /\ pc = [t \in Threads |-> "out"]
  /\ depth = [t \in Threads |-> 0]

Goto(t, from, to) == pc[t] = from /\ pc' = [pc EXCEPT ![t] = to]
SetDepth(t, d) == depth' = [depth EXCEPT ![t] = d]

-------------------------------------------------------------------------------
\* self.__owner == me: one level more.
AcquireRecursive(t) ==
  /\ pc[t] = "out" /\ owner = t /\ depth[t] < MaxDepth
  /\ count' = count + 1
  /\ SetDepth(t, depth[t] + 1)
  /\ UNCHANGED <<block, owner, saved, pc>>

\* The test has failed; another thread may become the owner from here on.
AcquireCall(t) ==
  /\ owner # t /\ MaxDepth > 0
  /\ Goto(t, "out", "acquire")
  /\ UNCHANGED <<block, owner, count, saved, depth>>

\* self.__block.acquire(blocking)
AcquireBlock(t) ==
  /\ ~block
  /\ Goto(t, "acquire", "set_owner")
  /\ block' = TRUE
  /\ UNCHANGED <<owner, count, saved, depth>>

\* Faulty: takes the failure for a success.
AcquireFailedIgnored(t) ==
  /\ block
  /\ Goto(t, "acquire", "set_owner")
  /\ UNCHANGED <<block, owner, count, saved, depth>>

AcquireFailed(t) ==
  /\ block
  /\ Goto(t, "acquire", "out")
  /\ UNCHANGED <<block, owner, count, saved, depth>>

SetOwner(t) ==
  /\ Goto(t, "set_owner", "set_count")
  /\ owner' = t
  /\ UNCHANGED <<block, count, saved, depth>>

SetCount(t) ==
  /\ Goto(t, "set_count", "out")
  /\ count' = 1
  /\ SetDepth(t, 1)
  /\ UNCHANGED <<block, owner, saved>>

\* release() by the owner; by any other thread it raises RuntimeError.
Release(t) ==
  /\ owner = t
  /\ Goto(t, "out", IF count - 1 = 0 THEN "clear_owner" ELSE "out")
  /\ count' = count - 1
  /\ SetDepth(t, depth[t] - 1)
  /\ UNCHANGED <<block, owner, saved>>

ClearOwner(t) ==
  /\ Goto(t, "clear_owner", "release")
  /\ owner' = None
  /\ UNCHANGED <<block, count, saved, depth>>

ReleaseBlock(t) ==
  /\ Goto(t, "release", "out")
  /\ block' = FALSE
  /\ UNCHANGED <<owner, count, saved, depth>>

\* Condition.wait() by the owner, which _is_owned() has checked.
ReleaseSave(t) ==
  /\ owner = t
  /\ Goto(t, "out", "save")
  /\ saved' = [saved EXCEPT ![t] = count]
  /\ UNCHANGED <<block, owner, count, depth>>

SaveCount(t) ==
  /\ Goto(t, "save", "save_owner")
  /\ count' = 0
  /\ UNCHANGED <<block, owner, saved, depth>>

SaveOwner(t) ==
  /\ Goto(t, "save_owner", "save_release")
  /\ owner' = None
  /\ UNCHANGED <<block, count, saved, depth>>

SaveRelease(t) ==
  /\ Goto(t, "save_release", "wait")
  /\ block' = FALSE
  /\ UNCHANGED <<owner, count, saved, depth>>

\* wait() has been notified or has timed out.
Restore(t) ==
  /\ ~block
  /\ Goto(t, "wait", "restore_count")
  /\ block' = TRUE
  /\ UNCHANGED <<owner, count, saved, depth>>

\* Faulty: gives back one level.
RestoreOneLevel(t) ==
  /\ Goto(t, "restore_count", "restore_owner")
  /\ count' = 1
  /\ UNCHANGED <<block, owner, saved, depth>>

RestoreCount(t) ==
  /\ Goto(t, "restore_count", "restore_owner")
  /\ count' = saved[t]
  /\ UNCHANGED <<block, owner, saved, depth>>

RestoreOwner(t) ==
  /\ Goto(t, "restore_owner", "out")
  /\ owner' = t
  /\ UNCHANGED <<block, count, saved, depth>>

Step(t) ==
  \/ AcquireRecursive(t) \/ AcquireCall(t) \/ AcquireBlock(t) \/ AcquireFailed(t)
  \/ SetOwner(t) \/ SetCount(t)
  \/ Release(t) \/ ClearOwner(t) \/ ReleaseBlock(t)
  \/ ReleaseSave(t) \/ SaveCount(t) \/ SaveOwner(t) \/ SaveRelease(t)
  \/ Restore(t) \/ RestoreCount(t) \/ RestoreOwner(t)

Next == \E t \in Threads : Step(t)

Spec == Init /\ [][Next]_vars

-------------------------------------------------------------------------------
\* The thread has the lock by its own account and is not inside wait().
Holds(t) == pc[t] = "out" /\ depth[t] > 0

\* The thread is between the acquisition of __block and its release.
HasBlock(t) == Holds(t) \/ pc[t] \notin {"out", "acquire", "wait"}

\* The unlocked test of owner is enough: a thread sees itself as owner exactly
\* when it holds the lock, whatever the other threads are storing meanwhile.
OwnerIsHolder == \A t \in Threads : pc[t] \in {"out", "acquire"} => (owner = t <=> Holds(t))

\* Mutual exclusion among holders and threads inside a method, with no more than the
\* unlocked test of owner to keep others out of release() and the nested acquire().
Exclusive ==
  /\ OwnerIsHolder
  /\ \A s, t \in Threads : HasBlock(s) /\ HasBlock(t) => s = t
  /\ block <=> \E t \in Threads : HasBlock(t)

\* The recursion level is the number of releases owed, also after a wait()
\* during which other threads had the lock at levels of their own.
CountIsDepth == \A t \in Threads : Holds(t) => count = depth[t]
===============================================================================
