------------------------------ MODULE ThreadLife ------------------------------
(***************************************************************************)
(* The life of threading.Thread objects: start(), the bootstrap code of    *)
(* the new thread, join(), the exit of the main thread, which joins every  *)
(* non-daemon thread, and the clean-up in a forked child.  The tables      *)
(* _active and _limbo are guarded by _active_limbo_lock; start() and       *)
(* is_alive() read their flags without it.  Waiting for an Event or a      *)
(* Condition is waiting for what it announces (modules Event, Condition).  *)
(* A thread that this module did not start is a foreign one: it gets an    *)
(* object when it asks for one, which stays in _active when it is gone.    *)
(***************************************************************************)
EXTENDS FiniteSets, Functions

CONSTANTS
  Objects,    \* Thread objects, other than the main thread's
  Main,       \* the _MainThread object
  Dummy,      \* any _DummyThread object
  Natives,    \* native threads, known by their get_ident(), which is reused
  MainNative,
  Foreign,    \* the native threads that others than this module may start
  None,
  Daemons,    \* the daemon threads
  MayStart,   \* <<p, o>>: the program calls o.start() in the thread of p
  MayFork     \* the program may call os.fork()

Objs == Objects \cup {Main}

\* What a client may rely on when it gives values to the constants.
LifeAssumption ==
  /\ Main \notin Objects /\ MainNative \in Natives /\ None \notin Objs \cup Natives
  /\ Dummy \notin Objs \cup {None} /\ Foreign \subseteq Natives \ {MainNative}
  /\ Daemons \subseteq Objects /\ MayStart \subseteq Objs \X Objects

VARIABLES
  started, stopped,  \* __started and __stopped of each object
  limbo,             \* _limbo
  active,            \* _active: ident -> object, None where there is no entry
  listlock,          \* the holder of _active_limbo_lock between steps
  runs,              \* the object whose code each native thread runs
  pc, arg,           \* where each native thread is, and the object it starts or joins
  snapshot,          \* what is left of the list in _pickSomeNonDaemonThread
  forked

tables == <<limbo, active, listlock>>
vars == <<started, stopped, tables, runs, pc, arg, snapshot, forked>>

Labels == {"free", "foreign", "born", "register", "run", "stop", "unregister",
           "start_limbo", "start_spawn", "start_undo", "start_wait", "join",
           "exit_list", "exit_check", "exit_join", "exit_delete", "exited"}

\* Type invariant of the variables of Thread objects and of the tables.
TypeOK ==
  /\ started \in [Objs -> BOOLEAN] /\ stopped \in [Objs -> BOOLEAN]
  /\ limbo \subseteq Objects
  /\ active \in [Natives -> Objs \cup {Dummy, None}]
  /\ listlock \in Natives \cup {None}
  /\ runs \in [Natives -> Objs \cup {None}]
  /\ pc \in [Natives -> Labels]
  /\ arg \in [Natives -> Objs \cup {None}]
  /\ snapshot \subseteq Objs \cup {Dummy}
  /\ forked \in BOOLEAN

AtMain(a, b) == [n \in Natives |-> IF n = MainNative THEN a ELSE b]

Init ==
  /\ started = [o \in Objs |-> o = Main]
  /\ stopped = [o \in Objs |-> FALSE]
  /\ limbo = {} /\ active = AtMain(Main, None) /\ listlock = None
  /\ runs = AtMain(Main, None)
  /\ pc = AtMain("run", "free")
  /\ arg = [n \in Natives |-> None]
  /\ snapshot = {} /\ forked = FALSE

\* The call that a thread is in has ended.
Done(n) == arg' = [arg EXCEPT ![n] = None]

Goto(n, from, to) == pc[n] = from /\ pc' = [pc EXCEPT ![n] = to]
Alive(o) == started[o] /\ ~stopped[o]   \* is_alive()

-------------------------------------------------------------------------------
\* Faulty: a thread may be started again.
StartUnchecked(n, o) ==
  /\ <<runs[n], o>> \in MayStart
  /\ Goto(n, "run", "start_limbo")
  /\ arg' = [arg EXCEPT ![n] = o]
  /\ UNCHANGED <<started, stopped, tables, runs, snapshot, forked>>

\* start(), when __started is not set; otherwise it raises RuntimeError.
StartCheck(n, o) ==
  /\ <<runs[n], o>> \in MayStart
  /\ ~started[o]
  /\ Goto(n, "run", "start_limbo")
  /\ arg' = [arg EXCEPT ![n] = o]
  /\ UNCHANGED <<started, stopped, tables, runs, snapshot, forked>>

StartLimbo(n) ==
  /\ listlock = None
  /\ Goto(n, "start_limbo", "start_spawn")
  /\ limbo' = limbo \cup {arg[n]}
  /\ UNCHANGED <<started, stopped, active, listlock, runs, arg, snapshot, forked>>

StartSpawn(n) ==
  /\ pc[n] = "start_spawn"
  /\ \E m \in Natives :
       /\ pc[m] = "free"
       /\ pc' = [pc EXCEPT ![n] = "start_wait", ![m] = "born"]
       /\ runs' = [runs EXCEPT ![m] = arg[n]]
  /\ UNCHANGED <<started, stopped, tables, arg, snapshot, forked>>

\* The system refuses to create a thread.
StartFail(n) ==
  /\ Goto(n, "start_spawn", "start_undo")
  /\ UNCHANGED <<started, stopped, tables, runs, arg, snapshot, forked>>

StartUndo(n) ==
  /\ listlock = None
  /\ Goto(n, "start_undo", "run")
  /\ limbo' = limbo \ {arg[n]}
  /\ Done(n)
  /\ UNCHANGED <<started, stopped, active, listlock, runs, snapshot, forked>>

\* self.__started.wait() returns, and start() with it.
StartReturn(n) ==
  /\ Goto(n, "start_wait", "run")
  /\ started[arg[n]]
  /\ Done(n)
  /\ UNCHANGED <<started, stopped, tables, runs, snapshot, forked>>

\* Faulty: leaves _limbo before it is in _active.
BornUnlisted(n) ==
  /\ Goto(n, "born", "register")
  /\ started' = [started EXCEPT ![runs[n]] = TRUE]
  /\ limbo' = limbo \ {runs[n]}
  /\ UNCHANGED <<stopped, active, listlock, runs, arg, snapshot, forked>>

\* The first steps of __bootstrap_inner.
Born(n) ==
  /\ Goto(n, "born", "register")
  /\ started' = [started EXCEPT ![runs[n]] = TRUE]
  /\ UNCHANGED <<stopped, tables, runs, arg, snapshot, forked>>

\* "del _limbo[self]" raises KeyError if the object is not there any more; the
\* exception skips run().
Register(n) ==
  /\ listlock = None
  /\ Goto(n, "register", IF runs[n] \in limbo THEN "run" ELSE "stop")
  /\ active' = [active EXCEPT ![n] = runs[n]]
  /\ limbo' = limbo \ {runs[n]}
  /\ UNCHANGED <<started, stopped, listlock, runs, arg, snapshot, forked>>

\* run() returns or raises.
Finish(n) ==
  /\ runs[n] # Main
  /\ Goto(n, "run", "stop")
  /\ UNCHANGED <<started, stopped, tables, runs, arg, snapshot, forked>>

\* The last steps of __bootstrap_inner, under _active_limbo_lock; join() and
\* is_alive() see the first of them before the second.
Stop(n) ==
  /\ listlock = None /\ listlock' = n
  /\ Goto(n, "stop", "unregister")
  /\ stopped' = [stopped EXCEPT ![runs[n]] = TRUE]
  /\ UNCHANGED <<started, limbo, active, runs, arg, snapshot, forked>>

\* Faulty: the lock is not released.
UnregisterLocked(n) ==
  /\ Goto(n, "unregister", "free")
  /\ active' = [active EXCEPT ![n] = None]
  /\ runs' = [runs EXCEPT ![n] = None]
  /\ UNCHANGED <<started, stopped, limbo, listlock, arg, snapshot, forked>>

Unregister(n) ==
  /\ Goto(n, "unregister", "free")
  /\ active' = [active EXCEPT ![n] = None]
  /\ listlock' = None
  /\ runs' = [runs EXCEPT ![n] = None]
  /\ UNCHANGED <<started, stopped, limbo, arg, snapshot, forked>>

JoinCall(n, o) ==
  /\ started[o] /\ o # runs[n]
  /\ Goto(n, "run", "join")
  /\ arg' = [arg EXCEPT ![n] = o]
  /\ UNCHANGED <<started, stopped, tables, runs, snapshot, forked>>

JoinReturn(n) ==
  /\ Goto(n, "join", "run")
  /\ stopped[arg[n]]
  /\ Done(n)
  /\ UNCHANGED <<started, stopped, tables, runs, snapshot, forked>>

-------------------------------------------------------------------------------
\* Code that is not Python's starts a thread, which runs Python code and ends.
ForeignStart(n) ==
  /\ n \in Foreign
  /\ Goto(n, "free", "foreign")
  /\ UNCHANGED <<started, stopped, tables, runs, arg, snapshot, forked>>

\* current_thread() finds no entry for its ident and makes a dummy object, which
\* is alive and a daemon from the beginning to the end.
CurrentThread(n) ==
  /\ pc[n] = "foreign" /\ active[n] = None
  /\ listlock = None
  /\ active' = [active EXCEPT ![n] = Dummy]
  /\ UNCHANGED <<started, stopped, limbo, listlock, runs, pc, arg, snapshot, forked>>

\* Nobody tells this module, and the ident may be given to another thread.
ForeignEnd(n) ==
  /\ Goto(n, "foreign", "free")
  /\ UNCHANGED <<started, stopped, tables, runs, arg, snapshot, forked>>

-------------------------------------------------------------------------------
\* _MainThread._exitfunc
ExitStop(n) ==
  /\ runs[n] = Main
  /\ Goto(n, "run", "exit_list")
  /\ stopped' = [stopped EXCEPT ![Main] = TRUE]
  /\ UNCHANGED <<started, tables, runs, arg, snapshot, forked>>

\* Faulty: overlooks the threads that are about to run.
ExitListActive(n) ==
  /\ listlock = None
  /\ Goto(n, "exit_list", "exit_check")
  /\ snapshot' = Range(active) \ {None}
  /\ UNCHANGED <<started, stopped, tables, runs, arg, forked>>

\* enumerate(), under the lock.
ExitList(n) ==
  /\ listlock = None
  /\ Goto(n, "exit_list", "exit_check")
  /\ snapshot' = (Range(active) \ {None}) \cup limbo
  /\ UNCHANGED <<started, stopped, tables, runs, arg, forked>>

\* One turn of the loop over that list, whose order is that of two dictionaries.
ExitCheck(n) ==
  /\ \/ \E o \in snapshot :
          IF o \notin Daemons \cup {Dummy} /\ Alive(o)
            THEN /\ Goto(n, "exit_check", "exit_join")
                 /\ arg' = [arg EXCEPT ![n] = o]
                 /\ snapshot' = {}
            ELSE /\ Goto(n, "exit_check", "exit_check")
                 /\ snapshot' = snapshot \ {o}
                 /\ UNCHANGED arg
     \/ /\ snapshot = {}
        /\ Goto(n, "exit_check", "exit_delete")
        /\ UNCHANGED <<arg, snapshot>>
  /\ UNCHANGED <<started, stopped, tables, runs, forked>>

ExitJoin(n) ==
  /\ Goto(n, "exit_join", "exit_list")
  /\ stopped[arg[n]]
  /\ Done(n)
  /\ UNCHANGED <<started, stopped, tables, runs, snapshot, forked>>

\* __delete(); the interpreter is finalized next.
ExitDelete(n) ==
  /\ listlock = None
  /\ Goto(n, "exit_delete", "exited")
  /\ active' = [active EXCEPT ![n] = None]
  /\ UNCHANGED <<started, stopped, limbo, listlock, runs, arg, snapshot, forked>>

-------------------------------------------------------------------------------
ForkThreads(n) ==
  /\ MayFork /\ ~forked /\ pc[n] \in {"run", "foreign"}
  /\ forked' = TRUE
  /\ pc' = [m \in Natives |-> IF m = n THEN pc[n] ELSE "free"]
  /\ runs' = [m \in Natives |-> IF m = n THEN runs[n] ELSE None]
  /\ arg' = [m \in Natives |-> None]

\* __stop(), which leaves dummy objects alone, for every entry but the caller's.
StopOthers(n) ==
  stopped' = [o \in Objs |-> stopped[o] \/ o \in Range(active) \ {active[n]}]

\* Faulty: the child keeps the parent's entries.
ForkKeepsActive(n) ==
  /\ ForkThreads(n) /\ StopOthers(n)
  /\ limbo' = {} /\ listlock' = None
  /\ UNCHANGED <<started, active, snapshot>>

\* fork(), and _after_fork() in the child, where only the caller's thread is left.
Fork(n) ==
  /\ ForkThreads(n) /\ StopOthers(n)
  /\ active' = [m \in Natives |->
                  IF m # n THEN None ELSE IF active[n] = None THEN Dummy ELSE active[n]]
  /\ limbo' = {} /\ listlock' = None
  /\ UNCHANGED <<started, snapshot>>

Internal(n) ==
  \/ StartLimbo(n) \/ StartSpawn(n) \/ StartUndo(n) \/ StartReturn(n)
  \/ Born(n) \/ Register(n) \/ Stop(n) \/ Unregister(n) \/ JoinReturn(n)
  \/ ExitList(n) \/ ExitCheck(n) \/ ExitJoin(n) \/ ExitDelete(n)

Next ==
  \E n \in Natives :
    \/ \E o \in Objects : StartCheck(n, o)
    \/ \E o \in Objs : JoinCall(n, o)
    \/ StartFail(n) \/ Finish(n) \/ ExitStop(n) \/ Fork(n)
    \/ ForeignStart(n) \/ CurrentThread(n) \/ ForeignEnd(n)
    \/ Internal(n)

\* Native threads are scheduled; what run() does and when it ends is the
\* program's affair.
Fairness == \A n \in Natives : WF_vars(Internal(n))

Spec == Init /\ [][Next]_vars /\ Fairness

-------------------------------------------------------------------------------
Running(o) == \E n \in Natives :
  runs[n] = o /\ pc[n] \notin {"born", "register", "stop", "unregister"}

\* enumerate() misses no thread that is alive; a forked child has objects that
\* are alive and have no thread, those that were about to enter _active.
AliveListed == \A o \in Range(runs) \ {None, Main} : Alive(o) => o \in limbo \cup Range(active)

\* A thread that join() or is_alive() calls dead runs no more of run().
StoppedIsOver == \A o \in Objects : stopped[o] => ~Running(o)

\* current_thread(): the entry of a running thread's ident is its own object,
\* although idents are reused and may have the entry of a dead foreign thread;
\* no other entry outlives its native thread.
ActiveIsOwn ==
  \A n \in Natives :
    /\ pc[n] \notin {"free", "foreign", "born", "register", "exited"} => active[n] = runs[n]
    /\ active[n] \notin {None, Dummy} => runs[n] = active[n]

\* A join() whose thread has come to the end of run() returns, although the last
\* steps of the thread compete for _active_limbo_lock with everybody else's.
JoinReturns ==
  \A n \in Natives :
    (pc[n] = "join" /\ \E m \in Natives : pc[m] = "stop" /\ runs[m] = arg[n])
      ~> pc[n] # "join"

\* "The entire Python program exits when no alive non-daemon threads are left"
\* (Doc/library/threading.rst), if they are started by the main thread: one that
\* another thread starts during the exit may be overlooked, since that thread
\* may end before _pickSomeNonDaemonThread looks at it, in a copy of the tables
\* that does not have the new one.
ExitWaits ==
  pc[MainNative] = "exited" =>
    \A o \in (Range(runs) \cap Objects) \ Daemons :
      Alive(o) => \E p \in Objects : <<p, o>> \in MayStart
===============================================================================
