--------------------------- MODULE ThreadLifeProofs ---------------------------
(***************************************************************************)
(* Proofs about ThreadLife, for any sets of objects and native threads and *)
(* any program that calls start() of an object in one thread only: dead    *)
(* means dead, current_thread() is one's own object, and nobody alive is   *)
(* missing from the tables, forks and failures to create threads included. *)
(***************************************************************************)
EXTENDS ThreadLife, TLAPS

\* The documentation allows one call of start(); the code does not keep two threads
\* apart that call it at a time.
OneStarter ==
  \A p, q \in Objs, o \in Objects : <<p, o>> \in MayStart /\ <<q, o>> \in MayStart => p = q

Assumptions == LifeAssumption /\ OneStarter

Leaving == {"exit_list", "exit_check", "exit_join", "exit_delete", "exited"}
Unborn == {"start_limbo", "start_spawn", "start_undo"}
Starting == Unborn \cup {"start_wait"}

\* A native thread has an object unless it is free or foreign, and no other has it; the
\* main thread is the one that leaves.
OneRunner ==
  \A m, n \in Natives :
    /\ runs[n] = None <=> pc[n] \in {"free", "foreign"}
    /\ runs[m] = runs[n] /\ runs[n] # None => m = n
    /\ pc[n] \in Leaving => runs[n] = Main

\* The entry of an ident is its own thread's from Register to Unregister.
OwnEntry ==
  /\ ActiveIsOwn
  /\ \A n \in Natives : pc[n] \in {"born", "register"} => active[n] \in {None, Dummy}

\* What is known of an object that is being started: it has no thread until it is
\* spawned, and its starter waits for it afterwards.
StartersWait ==
  \A n \in Natives :
    /\ pc[n] \in Starting => arg[n] \in Objects /\ <<runs[n], arg[n]>> \in MayStart
    /\ pc[n] \in Unborn => ~started[arg[n]] /\ \A m \in Natives : runs[m] # arg[n]
    /\ pc[n] = "born" => \E m \in Natives : pc[m] = "start_wait" /\ arg[m] = runs[n]

\* What the flags of an object say about its thread.
FlagsMatch ==
  /\ \A o \in Objs : stopped[o] => started[o]
  /\ \A n \in Natives :
       /\ runs[n] # None => (started[runs[n]] <=> pc[n] # "born")
       /\ runs[n] \in Objects /\ stopped[runs[n]] => pc[n] = "unregister"

\* An object stays in _limbo until its thread has entered it into _active.
LimboKeeps ==
  \A n \in Natives :
    /\ pc[n] = "start_spawn" => arg[n] \in limbo
    /\ pc[n] \in {"born", "register"} => runs[n] \in limbo

IInv == TypeOK /\ OneRunner /\ OwnEntry /\ StartersWait /\ FlagsMatch /\ LimboKeeps

-------------------------------------------------------------------------------
\* The invariant holds at the start.
LEMMA InitHolds == Assumptions /\ Init => IInv
<1> SUFFICES ASSUME Assumptions, Init PROVE IInv
  OBVIOUS
<1> USE DEF Assumptions, LifeAssumption, Init, AtMain, Objs
<1>1. TypeOK
  BY DEF TypeOK, Labels
<1>2. OneRunner
  BY DEF OneRunner, Leaving
<1>3. OwnEntry
  BY DEF OwnEntry, ActiveIsOwn
<1>4. StartersWait
  BY DEF StartersWait, Starting, Unborn
<1>5. FlagsMatch
  BY DEF FlagsMatch
<1>6. LimboKeeps
  BY DEF LimboKeeps
<1> QED BY <1>1, <1>2, <1>3, <1>4, <1>5, <1>6 DEF IInv

\* No two threads are in start() of one object.
LEMMA StartersApart ==
  ASSUME Assumptions, OneRunner, StartersWait, NEW p \in Natives, NEW q \in Natives,
         pc[p] \in Starting, pc[q] \in Starting, arg[p] = arg[q]
  PROVE  p = q
<1>1. runs[p] = runs[q]
  <2>1. arg[p] \in Objects /\ <<runs[p], arg[p]>> \in MayStart /\ <<runs[q], arg[p]>> \in MayStart
    BY DEF StartersWait
  <2> QED BY <2>1 DEF Assumptions, OneStarter, LifeAssumption
<1>2. runs[p] # None
  BY DEF OneRunner, Starting, Unborn
<1> QED BY <1>1, <1>2 DEF OneRunner

\* A step of start() keeps the invariant.
LEMMA StarterKeeps ==
  ASSUME Assumptions, IInv, NEW n \in Natives,
         (\E o \in Objects : StartCheck(n, o)) \/ StartLimbo(n) \/ StartSpawn(n) \/
         StartFail(n) \/ StartUndo(n) \/ StartReturn(n)
  PROVE  IInv'
<1> USE DEF Assumptions, LifeAssumption, IInv, TypeOK, Objs, Goto, Done, tables
<1>1. CASE \E o \in Objects : StartCheck(n, o)
  <2> PICK o \in Objects : StartCheck(n, o)
    BY <1>1
  <2>1. TypeOK'
    BY DEF StartCheck, Labels
  <2>2. OneRunner'
    BY DEF StartCheck, OneRunner, Leaving
  <2>3. OwnEntry'
    BY DEF StartCheck, OneRunner, OwnEntry, ActiveIsOwn
  <2>4. StartersWait'
    <3>1. \A m \in Natives : runs[m] # o
      <4> SUFFICES ASSUME NEW m \in Natives, runs[m] = o PROVE FALSE
        OBVIOUS
      <4>1. pc[m] = "born"
        BY DEF StartCheck, FlagsMatch
      <4>2. PICK q \in Natives : pc[q] = "start_wait" /\ arg[q] = o
        BY <4>1 DEF StartersWait
      <4>3. <<runs[q], o>> \in MayStart
        BY <4>2 DEF StartersWait, Starting
      <4>4. runs[q] = runs[n] /\ runs[n] # None
        BY <4>3 DEF StartCheck, OneStarter, OneRunner
      <4> QED BY <4>2, <4>4 DEF StartCheck, OneRunner
    <3> QED BY <3>1 DEF StartCheck, StartersWait, Starting, Unborn
  <2>5. FlagsMatch'
    BY DEF StartCheck, OneRunner, FlagsMatch, OwnEntry, ActiveIsOwn
  <2>6. LimboKeeps'
    BY DEF StartCheck, OneRunner, StartersWait, Starting, Unborn, LimboKeeps
  <2> QED BY <2>1, <2>2, <2>3, <2>4, <2>5, <2>6 DEF IInv
<1>2. CASE StartLimbo(n)
  <2>1. TypeOK'
    <3>1. arg[n] \in Objects
      BY <1>2 DEF StartLimbo, StartersWait, Starting, Unborn
    <3>2. limbo' \subseteq Objects
      BY <1>2, <3>1 DEF StartLimbo
    <3> QED BY <1>2, <3>2 DEF StartLimbo, Labels
  <2>2. OneRunner'
    BY <1>2 DEF StartLimbo, OneRunner, Leaving
  <2>3. OwnEntry'
    BY <1>2 DEF StartLimbo, OneRunner, OwnEntry, ActiveIsOwn
  <2>4. StartersWait'
    BY <1>2 DEF StartLimbo, OneRunner, StartersWait, Starting, Unborn, FlagsMatch
  <2>5. FlagsMatch'
    BY <1>2 DEF StartLimbo, OneRunner, FlagsMatch, OwnEntry, ActiveIsOwn
  <2>6. LimboKeeps'
    BY <1>2 DEF StartLimbo, OneRunner, StartersWait, Starting, Unborn, LimboKeeps
  <2> QED BY <2>1, <2>2, <2>3, <2>4, <2>5, <2>6 DEF IInv
<1>3. CASE StartSpawn(n)
  <2>1. TypeOK'
    BY <1>3 DEF StartSpawn, Labels
  <2>2. OneRunner'
    <3>1. arg[n] \in Objects /\ \A m \in Natives : runs[m] # arg[n]
      BY <1>3 DEF StartSpawn, StartersWait, Starting, Unborn
    <3> QED BY <1>3, <3>1 DEF StartSpawn, OneRunner, Leaving
  <2>3. OwnEntry'
    BY <1>3 DEF StartSpawn, OneRunner, OwnEntry, ActiveIsOwn
  <2>4. StartersWait'
    <3>1. arg[n] \in Objects
      BY <1>3 DEF StartSpawn, StartersWait, Starting, Unborn
    <3>2. \A p \in Natives : pc[p] \in Unborn /\ arg[p] = arg[n] => p = n
      BY <1>3, StartersApart DEF StartSpawn, Starting, Unborn
    <3>3. PICK m \in Natives :
            /\ pc[n] = "start_spawn" /\ pc[m] = "free"
            /\ pc' = [pc EXCEPT ![n] = "start_wait", ![m] = "born"]
            /\ runs' = [runs EXCEPT ![m] = arg[n]]
      BY <1>3 DEF StartSpawn
    <3>4. \A p \in Natives : pc'[p] \in Starting =>
            arg'[p] \in Objects /\ <<runs'[p], arg'[p]>> \in MayStart
      BY <1>3, <3>3 DEF StartSpawn, StartersWait, Starting, Unborn
    <3>5. \A p \in Natives : pc'[p] \in Unborn =>
            ~started'[arg'[p]] /\ \A q \in Natives : runs'[q] # arg'[p]
      <4> SUFFICES ASSUME NEW p \in Natives, pc'[p] \in Unborn
                   PROVE  ~started'[arg'[p]] /\ \A q \in Natives : runs'[q] # arg'[p]
        OBVIOUS
      <4>1. p # n /\ pc[p] \in Unborn
        BY <3>3 DEF Unborn
      <4>2. arg[p] # arg[n]
        BY <3>2, <4>1
      <4>3. ~started[arg[p]] /\ \A q \in Natives : runs[q] # arg[p]
        BY <4>1 DEF StartersWait
      <4> QED BY <1>3, <3>3, <4>2, <4>3 DEF StartSpawn
    <3>6. \A p \in Natives : pc'[p] = "born" =>
            \E q \in Natives : pc'[q] = "start_wait" /\ arg'[q] = runs'[p]
      <4> SUFFICES ASSUME NEW p \in Natives, pc'[p] = "born"
                   PROVE  \E q \in Natives : pc'[q] = "start_wait" /\ arg'[q] = runs'[p]
        OBVIOUS
      <4>1. CASE p = m
        BY <1>3, <3>3, <4>1 DEF StartSpawn
      <4>2. CASE p # m
        <5>1. pc[p] = "born" /\ runs'[p] = runs[p]
          BY <3>3, <4>2
        <5>2. PICK q \in Natives : pc[q] = "start_wait" /\ arg[q] = runs[p]
          BY <5>1 DEF StartersWait
        <5> QED BY <1>3, <3>3, <5>1, <5>2 DEF StartSpawn
      <4> QED BY <4>1, <4>2
    <3> QED BY <3>4, <3>5, <3>6 DEF StartersWait
  <2>5. FlagsMatch'
    <3>1. arg[n] \in Objects /\ ~started[arg[n]]
      BY <1>3 DEF StartSpawn, StartersWait, Starting, Unborn
    <3> QED BY <1>3, <3>1 DEF StartSpawn, FlagsMatch
  <2>6. LimboKeeps'
    BY <1>3 DEF StartSpawn, OneRunner, StartersWait, Starting, Unborn, LimboKeeps
  <2> QED BY <2>1, <2>2, <2>3, <2>4, <2>5, <2>6 DEF IInv
<1>4. CASE StartFail(n)
  <2>1. TypeOK'
    BY <1>4 DEF StartFail, Labels
  <2>2. OneRunner'
    BY <1>4 DEF StartFail, OneRunner, Leaving
  <2>3. OwnEntry'
    BY <1>4 DEF StartFail, OneRunner, OwnEntry, ActiveIsOwn
  <2>4. StartersWait'
    BY <1>4 DEF StartFail, OneRunner, StartersWait, Starting, Unborn, FlagsMatch
  <2>5. FlagsMatch'
    BY <1>4 DEF StartFail, OneRunner, FlagsMatch, OwnEntry, ActiveIsOwn
  <2>6. LimboKeeps'
    BY <1>4 DEF StartFail, OneRunner, StartersWait, Starting, Unborn, LimboKeeps
  <2> QED BY <2>1, <2>2, <2>3, <2>4, <2>5, <2>6 DEF IInv
<1>5. CASE StartUndo(n)
  <2>1. TypeOK'
    BY <1>5 DEF StartUndo, Labels
  <2>2. OneRunner'
    BY <1>5 DEF StartUndo, OneRunner, Leaving
  <2>3. OwnEntry'
    BY <1>5 DEF StartUndo, OneRunner, OwnEntry, ActiveIsOwn
  <2>4. StartersWait'
    BY <1>5 DEF StartUndo, OneRunner, StartersWait, Starting, Unborn, FlagsMatch
  <2>5. FlagsMatch'
    BY <1>5 DEF StartUndo, OneRunner, FlagsMatch, OwnEntry, ActiveIsOwn
  <2>6. LimboKeeps'
    <3>1. \A p \in Natives : pc[p] = "start_spawn" => arg[p] # arg[n]
      BY <1>5, StartersApart DEF StartUndo, Starting, Unborn
    <3>2. \A p \in Natives : runs[p] # arg[n]
      BY <1>5 DEF StartUndo, StartersWait, Unborn
    <3> QED BY <1>5, <3>1, <3>2 DEF StartUndo, LimboKeeps
  <2> QED BY <2>1, <2>2, <2>3, <2>4, <2>5, <2>6 DEF IInv
<1>6. CASE StartReturn(n)
  <2>1. TypeOK'
    BY <1>6 DEF StartReturn, Labels
  <2>2. OneRunner'
    BY <1>6 DEF StartReturn, OneRunner, Leaving
  <2>3. OwnEntry'
    BY <1>6 DEF StartReturn, OneRunner, OwnEntry, ActiveIsOwn
  <2>4. StartersWait'
    BY <1>6 DEF StartReturn, OneRunner, StartersWait, Starting, Unborn, FlagsMatch
  <2>5. FlagsMatch'
    BY <1>6 DEF StartReturn, OneRunner, FlagsMatch, OwnEntry, ActiveIsOwn
  <2>6. LimboKeeps'
    BY <1>6 DEF StartReturn, OneRunner, StartersWait, Starting, Unborn, LimboKeeps
  <2> QED BY <2>1, <2>2, <2>3, <2>4, <2>5, <2>6 DEF IInv
<1> QED BY <1>1, <1>2, <1>3, <1>4, <1>5, <1>6

\* A step of a thread, or of join(), keeps the invariant.
LEMMA ThreadKeeps ==
  ASSUME Assumptions, IInv, NEW n \in Natives,
         Born(n) \/ Register(n) \/ Finish(n) \/ Stop(n) \/ Unregister(n) \/ (\E o \in
         Objs : JoinCall(n, o)) \/ JoinReturn(n)
  PROVE  IInv'
<1> USE DEF Assumptions, LifeAssumption, IInv, TypeOK, Objs, Goto, Done, tables
<1>1. CASE Born(n)
  <2>1. TypeOK'
    BY <1>1 DEF Born, Labels
  <2>2. OneRunner'
    BY <1>1 DEF Born, OneRunner, Leaving
  <2>3. OwnEntry'
    BY <1>1 DEF Born, OneRunner, OwnEntry, ActiveIsOwn
  <2>4. StartersWait'
    BY <1>1 DEF Born, OneRunner, StartersWait, Starting, Unborn, FlagsMatch
  <2>5. FlagsMatch'
    BY <1>1 DEF Born, OneRunner, FlagsMatch, OwnEntry, ActiveIsOwn
  <2>6. LimboKeeps'
    BY <1>1 DEF Born, OneRunner, StartersWait, Starting, Unborn, LimboKeeps
  <2> QED BY <2>1, <2>2, <2>3, <2>4, <2>5, <2>6 DEF IInv
<1>2. CASE Register(n)
  <2>1. TypeOK'
    BY <1>2 DEF Register, Labels
  <2>2. OneRunner'
    BY <1>2 DEF Register, OneRunner, Leaving
  <2>3. OwnEntry'
    BY <1>2 DEF Register, OneRunner, OwnEntry, ActiveIsOwn
  <2>4. StartersWait'
    BY <1>2 DEF Register, OneRunner, StartersWait, Starting, Unborn, FlagsMatch
  <2>5. FlagsMatch'
    BY <1>2 DEF Register, OneRunner, FlagsMatch, OwnEntry, ActiveIsOwn
  <2>6. LimboKeeps'
    <3>1. \A p \in Natives : pc[p] = "start_spawn" => arg[p] # runs[n]
      BY DEF StartersWait, Unborn
    <3>2. \A p \in Natives : pc[p] \in {"born", "register"} /\ runs[p] = runs[n] => p = n
      BY DEF OneRunner
    <3> QED BY <1>2, <3>1, <3>2 DEF Register, LimboKeeps
  <2> QED BY <2>1, <2>2, <2>3, <2>4, <2>5, <2>6 DEF IInv
<1>3. CASE Finish(n)
  <2>1. TypeOK'
    BY <1>3 DEF Finish, Labels
  <2>2. OneRunner'
    BY <1>3 DEF Finish, OneRunner, Leaving
  <2>3. OwnEntry'
    BY <1>3 DEF Finish, OneRunner, OwnEntry, ActiveIsOwn
  <2>4. StartersWait'
    BY <1>3 DEF Finish, OneRunner, StartersWait, Starting, Unborn, FlagsMatch
  <2>5. FlagsMatch'
    BY <1>3 DEF Finish, OneRunner, FlagsMatch, OwnEntry, ActiveIsOwn
  <2>6. LimboKeeps'
    BY <1>3 DEF Finish, OneRunner, StartersWait, Starting, Unborn, LimboKeeps
  <2> QED BY <2>1, <2>2, <2>3, <2>4, <2>5, <2>6 DEF IInv
<1>4. CASE Stop(n)
  <2>1. TypeOK'
    BY <1>4 DEF Stop, Labels
  <2>2. OneRunner'
    BY <1>4 DEF Stop, OneRunner, Leaving
  <2>3. OwnEntry'
    BY <1>4 DEF Stop, OneRunner, OwnEntry, ActiveIsOwn
  <2>4. StartersWait'
    BY <1>4 DEF Stop, OneRunner, StartersWait, Starting, Unborn, FlagsMatch
  <2>5. FlagsMatch'
    BY <1>4 DEF Stop, OneRunner, FlagsMatch, OwnEntry, ActiveIsOwn
  <2>6. LimboKeeps'
    BY <1>4 DEF Stop, OneRunner, StartersWait, Starting, Unborn, LimboKeeps
  <2> QED BY <2>1, <2>2, <2>3, <2>4, <2>5, <2>6 DEF IInv
<1>5. CASE Unregister(n)
  <2>1. TypeOK'
    BY <1>5 DEF Unregister, Labels
  <2>2. OneRunner'
    BY <1>5 DEF Unregister, OneRunner, Leaving
  <2>3. OwnEntry'
    BY <1>5 DEF Unregister, OneRunner, OwnEntry, ActiveIsOwn
  <2>4. StartersWait'
    BY <1>5 DEF Unregister, OneRunner, StartersWait, Starting, Unborn, FlagsMatch
  <2>5. FlagsMatch'
    BY <1>5 DEF Unregister, OneRunner, FlagsMatch, OwnEntry, ActiveIsOwn
  <2>6. LimboKeeps'
    BY <1>5 DEF Unregister, OneRunner, StartersWait, Starting, Unborn, LimboKeeps
  <2> QED BY <2>1, <2>2, <2>3, <2>4, <2>5, <2>6 DEF IInv
<1>6. CASE \E o \in Objs : JoinCall(n, o)
  <2> PICK o \in Objs : JoinCall(n, o)
    BY <1>6
  <2>1. TypeOK'
    BY DEF JoinCall, Labels
  <2>2. OneRunner'
    BY DEF JoinCall, OneRunner, Leaving
  <2>3. OwnEntry'
    BY DEF JoinCall, OneRunner, OwnEntry, ActiveIsOwn
  <2>4. StartersWait'
    BY DEF JoinCall, OneRunner, StartersWait, Starting, Unborn, FlagsMatch
  <2>5. FlagsMatch'
    BY DEF JoinCall, OneRunner, FlagsMatch, OwnEntry, ActiveIsOwn
  <2>6. LimboKeeps'
    BY DEF JoinCall, OneRunner, StartersWait, Starting, Unborn, LimboKeeps
  <2> QED BY <2>1, <2>2, <2>3, <2>4, <2>5, <2>6 DEF IInv
<1>7. CASE JoinReturn(n)
  <2>1. TypeOK'
    BY <1>7 DEF JoinReturn, Labels
  <2>2. OneRunner'
    BY <1>7 DEF JoinReturn, OneRunner, Leaving
  <2>3. OwnEntry'
    BY <1>7 DEF JoinReturn, OneRunner, OwnEntry, ActiveIsOwn
  <2>4. StartersWait'
    BY <1>7 DEF JoinReturn, OneRunner, StartersWait, Starting, Unborn, FlagsMatch
  <2>5. FlagsMatch'
    BY <1>7 DEF JoinReturn, OneRunner, FlagsMatch, OwnEntry, ActiveIsOwn
  <2>6. LimboKeeps'
    BY <1>7 DEF JoinReturn, OneRunner, StartersWait, Starting, Unborn, LimboKeeps
  <2> QED BY <2>1, <2>2, <2>3, <2>4, <2>5, <2>6 DEF IInv
<1> QED BY <1>1, <1>2, <1>3, <1>4, <1>5, <1>6, <1>7

\* A step of a foreign thread keeps the invariant.
LEMMA ForeignKeeps ==
  ASSUME Assumptions, IInv, NEW n \in Natives,
         ForeignStart(n) \/ CurrentThread(n) \/ ForeignEnd(n)
  PROVE  IInv'
<1> USE DEF Assumptions, LifeAssumption, IInv, TypeOK, Objs, Goto, Done, tables
<1>1. CASE ForeignStart(n)
  <2>1. TypeOK'
    BY <1>1 DEF ForeignStart, Labels
  <2>2. OneRunner'
    BY <1>1 DEF ForeignStart, OneRunner, Leaving
  <2>3. OwnEntry'
    BY <1>1 DEF ForeignStart, OneRunner, OwnEntry, ActiveIsOwn
  <2>4. StartersWait'
    BY <1>1 DEF ForeignStart, OneRunner, StartersWait, Starting, Unborn, FlagsMatch
  <2>5. FlagsMatch'
    BY <1>1 DEF ForeignStart, OneRunner, FlagsMatch, OwnEntry, ActiveIsOwn
  <2>6. LimboKeeps'
    BY <1>1 DEF ForeignStart, OneRunner, StartersWait, Starting, Unborn, LimboKeeps
  <2> QED BY <2>1, <2>2, <2>3, <2>4, <2>5, <2>6 DEF IInv
<1>2. CASE CurrentThread(n)
  <2>1. TypeOK'
    BY <1>2 DEF CurrentThread, Labels
  <2>2. OneRunner'
    BY <1>2 DEF CurrentThread, OneRunner, Leaving
  <2>3. OwnEntry'
    BY <1>2 DEF CurrentThread, OneRunner, OwnEntry, ActiveIsOwn
  <2>4. StartersWait'
    BY <1>2 DEF CurrentThread, OneRunner, StartersWait, Starting, Unborn, FlagsMatch
  <2>5. FlagsMatch'
    BY <1>2 DEF CurrentThread, OneRunner, FlagsMatch, OwnEntry, ActiveIsOwn
  <2>6. LimboKeeps'
    BY <1>2 DEF CurrentThread, OneRunner, StartersWait, Starting, Unborn, LimboKeeps
  <2> QED BY <2>1, <2>2, <2>3, <2>4, <2>5, <2>6 DEF IInv
<1>3. CASE ForeignEnd(n)
  <2>1. TypeOK'
    BY <1>3 DEF ForeignEnd, Labels
  <2>2. OneRunner'
    BY <1>3 DEF ForeignEnd, OneRunner, Leaving
  <2>3. OwnEntry'
    BY <1>3 DEF ForeignEnd, OneRunner, OwnEntry, ActiveIsOwn
  <2>4. StartersWait'
    BY <1>3 DEF ForeignEnd, OneRunner, StartersWait, Starting, Unborn, FlagsMatch
  <2>5. FlagsMatch'
    BY <1>3 DEF ForeignEnd, OneRunner, FlagsMatch, OwnEntry, ActiveIsOwn
  <2>6. LimboKeeps'
    BY <1>3 DEF ForeignEnd, OneRunner, StartersWait, Starting, Unborn, LimboKeeps
  <2> QED BY <2>1, <2>2, <2>3, <2>4, <2>5, <2>6 DEF IInv
<1> QED BY <1>1, <1>2, <1>3

\* A step of the exit of the main thread, or a fork, keeps the invariant.
LEMMA ExitKeeps ==
  ASSUME Assumptions, IInv, NEW n \in Natives,
         ExitStop(n) \/ ExitList(n) \/ ExitCheck(n) \/ ExitJoin(n) \/ ExitDelete(n) \/
         Fork(n)
  PROVE  IInv'
<1> USE DEF Assumptions, LifeAssumption, IInv, TypeOK, Objs, Goto, Done, tables
<1>1. CASE ExitStop(n)
  <2>1. TypeOK'
    BY <1>1 DEF ExitStop, Labels
  <2>2. OneRunner'
    BY <1>1 DEF ExitStop, OneRunner, Leaving
  <2>3. OwnEntry'
    BY <1>1 DEF ExitStop, OneRunner, OwnEntry, ActiveIsOwn
  <2>4. StartersWait'
    BY <1>1 DEF ExitStop, OneRunner, StartersWait, Starting, Unborn, FlagsMatch
  <2>5. FlagsMatch'
    BY <1>1 DEF ExitStop, OneRunner, FlagsMatch, OwnEntry, ActiveIsOwn
  <2>6. LimboKeeps'
    BY <1>1 DEF ExitStop, OneRunner, StartersWait, Starting, Unborn, LimboKeeps
  <2> QED BY <2>1, <2>2, <2>3, <2>4, <2>5, <2>6 DEF IInv
<1>2. CASE ExitList(n)
  <2>1. TypeOK'
    <3>1. Range(active) \subseteq Objs \cup {Dummy, None}
      BY DEF Range
    <3> QED BY <1>2, <3>1 DEF ExitList, Labels
  <2>2. OneRunner'
    BY <1>2 DEF ExitList, OneRunner, Leaving
  <2>3. OwnEntry'
    BY <1>2 DEF ExitList, OneRunner, OwnEntry, ActiveIsOwn
  <2>4. StartersWait'
    BY <1>2 DEF ExitList, OneRunner, StartersWait, Starting, Unborn, FlagsMatch
  <2>5. FlagsMatch'
    BY <1>2 DEF ExitList, OneRunner, FlagsMatch, OwnEntry, ActiveIsOwn
  <2>6. LimboKeeps'
    BY <1>2 DEF ExitList, OneRunner, StartersWait, Starting, Unborn, LimboKeeps
  <2> QED BY <2>1, <2>2, <2>3, <2>4, <2>5, <2>6 DEF IInv
<1>3. CASE ExitCheck(n)
  <2>1. TypeOK'
    BY <1>3 DEF ExitCheck, Labels
  <2>2. OneRunner'
    BY <1>3 DEF ExitCheck, OneRunner, Leaving
  <2>3. OwnEntry'
    BY <1>3 DEF ExitCheck, OneRunner, OwnEntry, ActiveIsOwn
  <2>4. StartersWait'
    BY <1>3 DEF ExitCheck, OneRunner, StartersWait, Starting, Unborn, FlagsMatch
  <2>5. FlagsMatch'
    BY <1>3 DEF ExitCheck, OneRunner, FlagsMatch, OwnEntry, ActiveIsOwn
  <2>6. LimboKeeps'
    BY <1>3 DEF ExitCheck, OneRunner, StartersWait, Starting, Unborn, LimboKeeps
  <2> QED BY <2>1, <2>2, <2>3, <2>4, <2>5, <2>6 DEF IInv
<1>4. CASE ExitJoin(n)
  <2>1. TypeOK'
    BY <1>4 DEF ExitJoin, Labels
  <2>2. OneRunner'
    BY <1>4 DEF ExitJoin, OneRunner, Leaving
  <2>3. OwnEntry'
    BY <1>4 DEF ExitJoin, OneRunner, OwnEntry, ActiveIsOwn
  <2>4. StartersWait'
    BY <1>4 DEF ExitJoin, OneRunner, StartersWait, Starting, Unborn, FlagsMatch
  <2>5. FlagsMatch'
    BY <1>4 DEF ExitJoin, OneRunner, FlagsMatch, OwnEntry, ActiveIsOwn
  <2>6. LimboKeeps'
    BY <1>4 DEF ExitJoin, OneRunner, StartersWait, Starting, Unborn, LimboKeeps
  <2> QED BY <2>1, <2>2, <2>3, <2>4, <2>5, <2>6 DEF IInv
<1>5. CASE ExitDelete(n)
  <2>1. TypeOK'
    BY <1>5 DEF ExitDelete, Labels
  <2>2. OneRunner'
    BY <1>5 DEF ExitDelete, OneRunner, Leaving
  <2>3. OwnEntry'
    BY <1>5 DEF ExitDelete, OneRunner, OwnEntry, ActiveIsOwn
  <2>4. StartersWait'
    BY <1>5 DEF ExitDelete, OneRunner, StartersWait, Starting, Unborn, FlagsMatch
  <2>5. FlagsMatch'
    BY <1>5 DEF ExitDelete, OneRunner, FlagsMatch, OwnEntry, ActiveIsOwn
  <2>6. LimboKeeps'
    BY <1>5 DEF ExitDelete, OneRunner, StartersWait, Starting, Unborn, LimboKeeps
  <2> QED BY <2>1, <2>2, <2>3, <2>4, <2>5, <2>6 DEF IInv
<1>6. CASE Fork(n)
  <2>1. TypeOK'
    BY <1>6 DEF Fork, ForkThreads, StopOthers, Labels
  <2>2. OneRunner'
    BY <1>6 DEF Fork, ForkThreads, StopOthers, OneRunner, Leaving
  <2>3. OwnEntry'
    BY <1>6 DEF Fork, ForkThreads, StopOthers, OneRunner, OwnEntry, ActiveIsOwn
  <2>4. StartersWait'
    BY <1>6 DEF Fork, ForkThreads, StopOthers, OneRunner, StartersWait, Starting, Unborn, FlagsMatch
  <2>5. FlagsMatch'
    <3>1. \A o \in Objs : o \in Range(active) => started[o]
      <4> SUFFICES ASSUME NEW m \in Natives, active[m] \in Objs PROVE started[active[m]]
        BY DEF Range
      <4>1. active[m] \notin {None, Dummy} /\ runs[m] = active[m]
        BY DEF OwnEntry, ActiveIsOwn
      <4>2. pc[m] # "born"
        BY <4>1 DEF OwnEntry
      <4> QED BY <4>1, <4>2 DEF FlagsMatch
    <3>2. pc[n] = "run" => active[n] = runs[n]
      BY DEF OwnEntry, ActiveIsOwn
    <3>3. pc[n] = "foreign" => runs[n] = None
      BY DEF OneRunner
    <3> QED BY <1>6, <3>1, <3>2, <3>3 DEF Fork, ForkThreads, StopOthers, FlagsMatch
  <2>6. LimboKeeps'
    BY <1>6 DEF Fork, ForkThreads, StopOthers, OneRunner, StartersWait, Starting, Unborn, LimboKeeps
  <2> QED BY <2>1, <2>2, <2>3, <2>4, <2>5, <2>6 DEF IInv
<1> QED BY <1>1, <1>2, <1>3, <1>4, <1>5, <1>6

-------------------------------------------------------------------------------
\* A step of any thread, or none, keeps the invariant.
LEMMA NextKeeps == Assumptions /\ IInv /\ [Next]_vars => IInv'
<1> SUFFICES ASSUME Assumptions, IInv, [Next]_vars PROVE IInv'
  OBVIOUS
<1>1. CASE Next
  <2> PICK n \in Natives :
        \/ \E o \in Objects : StartCheck(n, o)
        \/ \E o \in Objs : JoinCall(n, o)
        \/ StartFail(n) \/ Finish(n) \/ ExitStop(n) \/ Fork(n)
        \/ ForeignStart(n) \/ CurrentThread(n) \/ ForeignEnd(n)
        \/ Internal(n)
    BY <1>1 DEF Next
  <2> QED BY StarterKeeps, ThreadKeeps, ForeignKeeps, ExitKeeps DEF Internal
<1>2. CASE UNCHANGED vars
  BY <1>2 DEF vars, tables, IInv, TypeOK, OneRunner, Leaving, OwnEntry, ActiveIsOwn,
     StartersWait, Starting, Unborn, FlagsMatch, LimboKeeps
<1> QED BY <1>1, <1>2

\* The tables and the flags fit in every state.
THEOREM InvariantsHold == ASSUME Assumptions PROVE Spec => []IInv
<1>1. Init => IInv
  BY InitHolds
<1>2. IInv /\ [Next]_vars => IInv'
  BY NextKeeps
<1> QED BY <1>1, <1>2, PTL DEF Spec

\* current_thread() gives a thread its own object, whatever became of the former owners
\* of its ident, and an entry of _active goes with its thread.
THEOREM CurrentThreadIsOwn == ASSUME Assumptions PROVE Spec => []ActiveIsOwn
<1>1. IInv => ActiveIsOwn
  BY DEF IInv, OwnEntry
<1> QED BY InvariantsHold, <1>1, PTL

\* A thread that join() or is_alive() calls dead is past its run(), even where a fork has
\* stopped the objects of the threads it left behind.
THEOREM DeadIsOver == ASSUME Assumptions PROVE Spec => []StoppedIsOver
<1>1. IInv => StoppedIsOver
  BY DEF IInv, FlagsMatch, StoppedIsOver, Running
<1> QED BY InvariantsHold, <1>1, PTL

\* enumerate(), and with it the exit of the program, misses no thread that is alive.
THEOREM NobodyMissing == ASSUME Assumptions PROVE Spec => []AliveListed
<1>1. ASSUME Assumptions, IInv PROVE AliveListed
  <2> SUFFICES ASSUME NEW o \in Range(runs) \ {None, Main}, Alive(o)
               PROVE  o \in limbo \cup Range(active)
    BY DEF AliveListed
  <2>1. PICK n \in Natives : runs[n] = o
    BY <1>1 DEF Range, IInv, TypeOK
  <2>2. CASE pc[n] \in {"born", "register"}
    BY <1>1, <2>1, <2>2 DEF IInv, LimboKeeps
  <2>3. CASE pc[n] \notin {"born", "register"}
    <3>1. pc[n] \notin {"free", "foreign"}
      BY <1>1, <2>1 DEF IInv, OneRunner
    <3>2. CASE pc[n] # "exited"
      <4>1. active[n] = o
        BY <1>1, <2>1, <2>3, <3>1, <3>2 DEF IInv, OwnEntry, ActiveIsOwn
      <4> QED BY <1>1, <4>1 DEF Range, IInv, TypeOK
    <3> QED BY <1>1, <2>1, <3>2 DEF IInv, OneRunner, Leaving
  <2> QED BY <2>2, <2>3
<1> QED BY InvariantsHold, <1>1, PTL

-------------------------------------------------------------------------------
\* The threads that only the main thread may have started and that must end before
\* the program does.
Awaited == {o \in Objects \ Daemons : ~ \E p \in Objects : <<p, o>> \in MayStart}

\* From the list of _pickSomeNonDaemonThread on, the exit has before it every one
\* of them that is alive.
ExitInv ==
  \A n \in Natives : pc[n] \in {"exit_check", "exit_delete", "exited"} =>
    \A o \in Awaited \cap Range(runs) : Alive(o) => pc[n] = "exit_check" /\ o \in snapshot

\* While the main thread leaves nobody starts any of them.
LEMMA NoneStarted ==
  ASSUME Assumptions, IInv, NEW n \in Natives, pc[n] \in Leaving, NEW m \in Natives
  PROVE  /\ pc[m] \in Starting => arg[m] \notin Awaited
         /\ pc[m] = "born" => runs[m] \notin Awaited
<1> USE DEF Assumptions, LifeAssumption, IInv
<1>1. ASSUME NEW q \in Natives, pc[q] \in Starting PROVE arg[q] \notin Awaited
  <2> SUFFICES ASSUME arg[q] \in Awaited PROVE FALSE
    OBVIOUS
  <2>1. <<runs[q], arg[q]>> \in MayStart
    BY <1>1 DEF StartersWait
  <2>2. runs[q] = Main
    BY <2>1 DEF Awaited, Objs
  <2>3. q = n
    BY <2>2 DEF OneRunner, TypeOK, Objs
  <2> QED BY <1>1, <2>3 DEF Starting, Unborn, Leaving
<1>2. ASSUME pc[m] = "born" PROVE runs[m] \notin Awaited
  <2>1. PICK q \in Natives : pc[q] = "start_wait" /\ arg[q] = runs[m]
    BY <1>2 DEF StartersWait
  <2> QED BY <1>1, <2>1 DEF Starting
<1> QED BY <1>1, <1>2

\* Nobody that the exit should wait for is left out at any step.
LEMMA ExitStep == Assumptions /\ IInv /\ AliveListed /\ ExitInv /\ [Next]_vars => ExitInv'
<1> SUFFICES ASSUME Assumptions, IInv, AliveListed, ExitInv, [Next]_vars,
                    NEW n \in Natives, pc'[n] \in {"exit_check", "exit_delete", "exited"},
                    NEW o \in Awaited, o \in Range(runs'), Alive(o)'
             PROVE  pc'[n] = "exit_check" /\ o \in snapshot'
  BY DEF ExitInv
<1> USE DEF Assumptions, LifeAssumption, IInv, TypeOK, Goto, Done, tables
<1>0. o \in Objects /\ o \notin Daemons /\ o # None /\ o # Main /\ o # Dummy
  BY DEF Awaited, Objs
<1>1. PICK r \in Natives : runs'[r] = o
  <2>1. runs' \in [Natives -> Objs \cup {None}]
    BY NextKeeps
  <2> QED BY <2>1 DEF Range
\* What a step of another thread cannot change.
<1>2. ASSUME pc'[n] = pc[n], UNCHANGED snapshot, \E m \in Natives : runs[m] = o,
             started[o] /\ ~stopped[o]
      PROVE  pc'[n] = "exit_check" /\ o \in snapshot'
  <2>1. o \in Range(runs)
    BY <1>2 DEF Range
  <2> QED BY <1>2, <2>1 DEF ExitInv, Alive
<1>3. CASE UNCHANGED vars
  BY <1>1, <1>2, <1>3 DEF vars, Alive
<1>4. CASE Next
  <2> PICK m \in Natives :
        \/ \E p \in Objects : StartCheck(m, p)
        \/ \E p \in Objs : JoinCall(m, p)
        \/ StartFail(m) \/ Finish(m) \/ ExitStop(m) \/ Fork(m)
        \/ ForeignStart(m) \/ CurrentThread(m) \/ ForeignEnd(m)
        \/ Internal(m)
    BY <1>4 DEF Next
  <2>2. CASE \/ \E p \in Objects : StartCheck(m, p)
             \/ \E p \in Objs : JoinCall(m, p)
             \/ StartFail(m) \/ Finish(m) \/ StartLimbo(m) \/ StartUndo(m) \/ StartReturn(m)
             \/ JoinReturn(m) \/ ForeignStart(m) \/ ForeignEnd(m) \/ CurrentThread(m)
    <3>1. UNCHANGED <<started, stopped, runs, snapshot>>
      BY <2>2 DEF StartCheck, JoinCall, StartFail, Finish, StartLimbo, StartUndo, StartReturn,
         JoinReturn, ForeignStart, ForeignEnd, CurrentThread
    <3>2. \/ UNCHANGED pc
          \/ \E l \in {"start_limbo", "join", "start_undo", "stop", "start_spawn", "run",
                     "foreign", "free"} : pc' = [pc EXCEPT ![m] = l]
      <4>1. CASE \/ \E p \in Objects : StartCheck(m, p)
                 \/ \E p \in Objs : JoinCall(m, p)
                 \/ StartFail(m) \/ Finish(m) \/ StartLimbo(m)
        BY <4>1 DEF StartCheck, JoinCall, StartFail, Finish, StartLimbo
      <4>2. CASE StartUndo(m) \/ StartReturn(m) \/ JoinReturn(m)
        BY <4>2 DEF StartUndo, StartReturn, JoinReturn
      <4>3. CASE ForeignStart(m) \/ ForeignEnd(m) \/ CurrentThread(m)
        BY <4>3 DEF ForeignStart, ForeignEnd, CurrentThread
      <4> QED BY <2>2, <4>1, <4>2, <4>3
    <3>3. pc'[n] = pc[n]
      BY <3>2
    <3> QED BY <1>1, <1>2, <3>1, <3>3 DEF Alive
  <2>3. CASE StartSpawn(m)
    <3>1. ~started[arg[m]]
      BY <2>3 DEF StartSpawn, StartersWait, Unborn
    <3>2. pc'[n] = pc[n] /\ UNCHANGED <<started, stopped, snapshot>>
      BY <2>3 DEF StartSpawn
    <3>3. o # arg[m]
      BY <3>1, <3>2 DEF Alive
    <3>4. runs[r] = o
      BY <1>1, <2>3, <3>3 DEF StartSpawn
    <3> QED BY <1>2, <3>2, <3>4 DEF Alive
  <2>4. CASE Born(m)
    <3>1. pc'[n] = pc[n] /\ UNCHANGED <<stopped, runs, snapshot>>
      BY <2>4 DEF Born
    <3>2. pc[n] \in Leaving
      BY <3>1 DEF Leaving
    <3>3. runs[m] # o
      BY <2>4, <3>2, NoneStarted DEF Born
    <3>4. started[o]
      BY <1>0, <2>4, <3>3 DEF Born, Alive, Objs
    <3> QED BY <1>1, <1>2, <3>1, <3>4 DEF Alive
  <2>5. CASE Register(m) \/ Stop(m)
    <3>1. pc'[n] = pc[n] /\ UNCHANGED <<started, runs, snapshot>>
      BY <2>5 DEF Register, Stop
    <3>2. ~stopped[o]
      BY <1>0, <2>5 DEF Register, Stop, Alive, Objs
    <3> QED BY <1>1, <1>2, <3>1, <3>2 DEF Alive
  <2>6. CASE Unregister(m)
    <3>1. pc'[n] = pc[n] /\ UNCHANGED <<started, stopped, snapshot>>
      BY <2>6 DEF Unregister
    <3>2. runs[r] = o
      BY <1>0, <1>1, <2>6 DEF Unregister
    <3> QED BY <1>2, <3>1, <3>2 DEF Alive
  <2>7. CASE Fork(m)
    <3>1. pc'[n] \in {"free", "run", "foreign"}
      BY <2>7 DEF Fork, ForkThreads
    <3> QED BY <3>1
  <2>8. ASSUME ExitStop(m) \/ ExitList(m) \/ ExitCheck(m) \/ ExitJoin(m) \/ ExitDelete(m)
        PROVE  m = n
    <3> SUFFICES ASSUME m # n PROVE FALSE
      OBVIOUS
    <3>1. runs[m] = Main
      <4>1. CASE ExitStop(m)
        BY <4>1 DEF ExitStop
      <4>2. CASE ExitList(m) \/ ExitCheck(m) \/ ExitJoin(m) \/ ExitDelete(m)
        BY <4>2 DEF ExitList, ExitCheck, ExitJoin, ExitDelete, OneRunner, Leaving
      <4> QED BY <2>8, <4>1, <4>2
    <3>2. pc'[n] = pc[n]
      BY <2>8 DEF ExitStop, ExitList, ExitCheck, ExitJoin, ExitDelete
    <3>3. runs[n] = Main
      BY <3>2 DEF OneRunner, Leaving
    <3> QED BY <3>1, <3>3 DEF OneRunner, Objs
  <2>9. CASE ExitStop(m) \/ ExitJoin(m)
    <3>1. pc'[n] = "exit_list"
      BY <2>8, <2>9 DEF ExitStop, ExitJoin
    <3> QED BY <3>1
  <2>10. CASE ExitList(m)
    <3>1. /\ pc'[n] = "exit_check" /\ UNCHANGED <<started, stopped, runs>>
          /\ snapshot' = (Range(active) \ {None}) \cup limbo
      BY <2>8, <2>10 DEF ExitList
    <3>2. o \in Range(runs) /\ Alive(o)
      BY <3>1 DEF Alive
    <3>3. o \in limbo \cup Range(active)
      BY <1>0, <3>2 DEF AliveListed
    <3> QED BY <1>0, <3>1, <3>3
  <2>11. CASE ExitCheck(m)
    <3>1. /\ UNCHANGED <<started, stopped, runs>> /\ pc[n] = "exit_check"
          /\ \/ snapshot = {}
             \/ pc'[n] = "exit_check" /\ \E p \in snapshot :
                  /\ ~(p \notin Daemons \cup {Dummy} /\ Alive(p))
                  /\ snapshot' = snapshot \ {p}
      BY <2>8, <2>11 DEF ExitCheck
    <3>2. o \in Range(runs) /\ Alive(o)
      BY <3>1 DEF Alive
    <3>3. o \in snapshot
      BY <3>1, <3>2 DEF ExitInv
    <3> QED BY <1>0, <3>1, <3>2, <3>3
  <2>12. CASE ExitDelete(m)
    <3>1. UNCHANGED <<started, stopped, runs>> /\ pc[n] = "exit_delete"
      BY <2>8, <2>12 DEF ExitDelete
    <3>2. o \in Range(runs) /\ Alive(o)
      BY <3>1 DEF Alive
    <3> QED BY <3>1, <3>2 DEF ExitInv
  <2> QED
    BY <2>2, <2>3, <2>4, <2>5, <2>6, <2>7, <2>9, <2>10, <2>11, <2>12 DEF Internal
<1> QED BY <1>3, <1>4

\* The program exits when no non-daemon thread is alive of those that the main thread
\* starts, whatever other threads start and fork meanwhile.
THEOREM ExitWaitsForAll == ASSUME Assumptions PROVE Spec => []ExitWaits
<1>1. Init => ExitInv
  BY DEF Assumptions, LifeAssumption, Init, AtMain, ExitInv
<1>2. IInv /\ AliveListed /\ ExitInv /\ [Next]_vars => ExitInv'
  BY ExitStep
<1>3. ASSUME Assumptions, ExitInv PROVE ExitWaits
  BY <1>3 DEF Assumptions, LifeAssumption, ExitInv, ExitWaits, Awaited
<1> QED BY InvariantsHold, NobodyMissing, <1>1, <1>2, <1>3, PTL DEF Spec
===============================================================================
