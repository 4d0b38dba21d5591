----------------------------- MODULE PendingCalls -----------------------------
(***************************************************************************)
(* Py_AddPendingCall and Py_MakePendingCalls (Python/ceval.c): a ring of   *)
(* calls guarded by pending_lock.  Any thread adds calls, with or without  *)
(* the interpreter lock, and gives up when it does not get the lock in a   *)
(* number of attempts; the main thread makes the calls between bytecodes   *)
(* when it sees pendingcalls_to_do set, which it reads without the lock.   *)
(***************************************************************************)
EXTENDS Integers, Sequences

CONSTANTS
  Callers,         \* threads that add calls
  Main,
  Funcs,           \* what can be called
  None,            \* no function; nobody holds the lock
  NPENDINGCALLS,
  MayFail,         \* a call may return nonzero
  MaxAdds          \* bound of the model on the calls added

\* What a client may rely on when it gives values to the constants.
PendingAssumption ==
  /\ NPENDINGCALLS \in Nat /\ NPENDINGCALLS > 1
  /\ None \notin Funcs \cup Callers /\ Main \notin Callers /\ Main # None
  /\ MayFail \in BOOLEAN /\ MaxAdds \in Nat

Slots == 0 .. (NPENDINGCALLS - 1)

VARIABLES
  pendingcalls, pendingfirst, pendinglast,
  pendingcalls_to_do,
  pending_lock,        \* the holder
  adding,              \* the function each caller is adding
  cpc,                 \* where each caller is in Py_AddPendingCall
  mpc,                 \* where the main thread is in Py_MakePendingCalls
  i,                   \* its loop counter
  func,                \* the function it has taken
  adds                 \* calls of Py_AddPendingCall so far

ring == <<pendingcalls, pendingfirst, pendinglast>>
callers == <<adding, cpc, adds>>
main == <<mpc, i, func>>
pendingVars == <<ring, pendingcalls_to_do, pending_lock, callers, main>>

\* Type invariant of the variables of the ring, the lock and the threads that use
\* them.
PendingTypeOK ==
  /\ pendingcalls \in [Slots -> Funcs \cup {None}]
  /\ pendingfirst \in Slots /\ pendinglast \in Slots
  /\ pendingcalls_to_do \in BOOLEAN
  /\ pending_lock \in Callers \cup {Main, None}
  /\ adding \in [Callers -> Funcs \cup {None}]
  /\ cpc \in [Callers -> {"out", "try", "store", "flag", "unlock"}]
  /\ mpc \in {"eval", "lock", "take", "unlock", "call"}
  /\ i \in 0 .. NPENDINGCALLS
  /\ func \in Funcs \cup {None}
  /\ adds \in 0 .. MaxAdds

PendingInit ==
  /\ pendingcalls = [s \in Slots |-> None]
  /\ pendingfirst = 0 /\ pendinglast = 0
  /\ pendingcalls_to_do = TRUE
  /\ pending_lock = None
  /\ adding = [c \in Callers |-> None] /\ cpc = [c \in Callers |-> "out"] /\ adds = 0
  /\ mpc = "eval" /\ i = 0 /\ func = None

After(s) == (s + 1) % NPENDINGCALLS

\* Faulty: fills the last slot, too.
RingFullNever == FALSE

RingFull == After(pendinglast) = pendingfirst
CallerGoto(c, from, to) == cpc[c] = from /\ cpc' = [cpc EXCEPT ![c] = to]

-------------------------------------------------------------------------------
AddCall(c, f) ==
  /\ adds < MaxAdds /\ adds' = adds + 1
  /\ CallerGoto(c, "out", "try")
  /\ adding' = [adding EXCEPT ![c] = f]
  /\ UNCHANGED <<ring, pendingcalls_to_do, pending_lock, main>>

AddLock(c) ==
  /\ pending_lock = None /\ pending_lock' = c
  /\ CallerGoto(c, "try", "store")
  /\ UNCHANGED <<ring, pendingcalls_to_do, adding, adds, main>>

\* The lock was taken at every attempt: return -1.
AddGiveUp(c) ==
  /\ pending_lock # None
  /\ CallerGoto(c, "try", "out")
  /\ UNCHANGED <<ring, pendingcalls_to_do, pending_lock, adding, adds, main>>

Store(f) ==
  IF RingFull
    THEN UNCHANGED ring   \* result = -1
    ELSE /\ pendingcalls' = [pendingcalls EXCEPT ![pendinglast] = f]
         /\ pendinglast' = After(pendinglast)
         /\ UNCHANGED pendingfirst

AddStore(c) ==
  /\ CallerGoto(c, "store", "flag")
  /\ Store(adding[c])
  /\ UNCHANGED <<pendingcalls_to_do, pending_lock, adding, adds, main>>

AddFlag(c) ==
  /\ CallerGoto(c, "flag", "unlock")
  /\ pendingcalls_to_do' = TRUE
  /\ UNCHANGED <<ring, pending_lock, adding, adds, main>>

AddUnlock(c) ==
  /\ CallerGoto(c, "unlock", "out")
  /\ pending_lock' = None
  /\ UNCHANGED <<ring, pendingcalls_to_do, adding, adds, main>>

-------------------------------------------------------------------------------
\* The evaluation loop, when the ticker has run out.
MakeStart ==
  /\ mpc = "eval" /\ pendingcalls_to_do
  /\ mpc' = "lock" /\ i' = 0
  /\ UNCHANGED <<ring, pendingcalls_to_do, pending_lock, callers, func>>

MakeLock ==
  /\ mpc = "lock" /\ pending_lock = None
  /\ mpc' = "take" /\ pending_lock' = Main
  /\ UNCHANGED <<ring, pendingcalls_to_do, callers, i, func>>

\* Faulty: clears the flag although calls remain.
MakeTakeClears ==
  /\ mpc = "take" /\ mpc' = "unlock"
  /\ IF pendingfirst = pendinglast
       THEN func' = None /\ UNCHANGED pendingfirst
       ELSE func' = pendingcalls[pendingfirst] /\ pendingfirst' = After(pendingfirst)
  /\ pendingcalls_to_do' = FALSE
  /\ UNCHANGED <<pendingcalls, pendinglast, pending_lock, callers, i>>

MakeTake ==
  /\ mpc = "take" /\ mpc' = "unlock"
  /\ IF pendingfirst = pendinglast
       THEN func' = None /\ UNCHANGED pendingfirst
       ELSE func' = pendingcalls[pendingfirst] /\ pendingfirst' = After(pendingfirst)
  /\ pendingcalls_to_do' = (pendingfirst' # pendinglast)
  /\ UNCHANGED <<pendingcalls, pendinglast, pending_lock, callers, i>>

MakeUnlock ==
  /\ mpc = "unlock" /\ pending_lock' = None
  /\ mpc' = IF func = None THEN "eval" ELSE "call"
  /\ UNCHANGED <<ring, pendingcalls_to_do, callers, i, func>>

\* The call returns r; pendingbusy keeps the evaluation loops inside it, and
\* those of other threads, out of Py_MakePendingCalls.
Return(r) ==
  /\ mpc = "call"
  /\ func' = None
  /\ i' = i + 1
  /\ mpc' = IF r = 0 /\ i + 1 < NPENDINGCALLS THEN "lock" ELSE "eval"
  /\ UNCHANGED <<ring, pendingcalls_to_do, pending_lock, callers>>

MakeCall == \E r \in (IF MayFail THEN {0, -1} ELSE {0}) : Return(r)

Make == MakeStart \/ MakeLock \/ MakeTake \/ MakeUnlock
Add(c) == AddLock(c) \/ AddGiveUp(c) \/ AddStore(c) \/ AddFlag(c) \/ AddUnlock(c)

-------------------------------------------------------------------------------
\* What is in the ring, oldest first.
Pending ==
  [k \in 1 .. ((pendinglast - pendingfirst) % NPENDINGCALLS) |->
     pendingcalls[(pendingfirst + k - 1) % NPENDINGCALLS]]

\* The flag the main loop polls without the lock: a call in the ring is
\* announced, or is about to be by the thread that holds the lock.
PendingAnnounced ==
  Pending # <<>> =>
    \/ pendingcalls_to_do
    \/ \E c \in Callers : cpc[c] = "flag"
    \/ mpc \in {"lock", "take", "call"}
    \/ mpc = "unlock" /\ func # None

\* The ring and its callers are the queue of calls that is promised.
Abstract == INSTANCE CallQueue WITH
  queue <- Pending, running <- func,
  Capacity <- NPENDINGCALLS - 1, NoFunc <- None

\* The ring is the queue of calls that is promised: each call accepted is made
\* once, in order, and never inside another one.
Implements == Abstract!Spec
===============================================================================
