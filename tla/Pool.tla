-------------------------------- MODULE Pool --------------------------------
(***************************************************************************)
(* multiprocessing.Pool: worker processes that take tasks from one pipe    *)
(* and put results into another, and three threads of the parent.  The     *)
(* worker handler replaces workers that have done their share, the task    *)
(* handler feeds the pipe of tasks, the result handler empties that of     *)
(* results.  close() and join() let the pool run dry; terminate() takes    *)
(* tasks away, stops the handlers and kills the workers.                   *)
(***************************************************************************)
EXTENDS Integers, Sequences, FiniteSets, Functions

CONSTANTS
  Maps,       \* jobs of map_async(), in tasks of one chunk
  IMaps,      \* jobs of imap()
  Length,     \* bound of the model: the tasks of every job
  Workers,    \* the places in the list of workers
  Main,       \* the thread of the client
  TaskHandler,
  None,       \* a lock is free; the sentinel
  MaxTasks,   \* maxtasksperchild
  PipeSize,   \* bound of the model: tasks or results that fill a pipe
  MayFail     \* tasks may raise

Jobs == Maps \cup IMaps

\* What the code takes for granted of its arguments; None is no task.
ASSUME PoolAssumption ==
  /\ IsFiniteSet(Jobs) /\ Maps \cap IMaps = {} /\ IsFiniteSet(Workers) /\ Workers # {}
  /\ None \notin Jobs \cup Workers \cup {Main, TaskHandler}
  /\ None \notin (Jobs \X Nat) \cup (Jobs \X Nat \X BOOLEAN)
  /\ Length \in Nat \ {0} /\ MaxTasks \in Nat \ {0} /\ PipeSize \in Nat \ {0}
  /\ MayFail \in BOOLEAN

VARIABLES
  taskq,      \* _taskqueue: jobs, and None at the end
  cache,      \* _cache: the jobs that are not finished
  job,        \* the result object of each job
  inq,        \* the pipe of tasks: <<job, number>> or None
  rlock,      \* who reads from it
  outq,       \* the pipe of results: <<job, number, success>> or None
  wlock,      \* who writes to it
  worker,     \* each worker: what it does, its task or result, tasks completed
  handlers,   \* the _state of the three handlers
  wh,         \* the worker handler runs
  th,         \* the task handler: what it does, its job, the tasks put
  rh,         \* the result handler: what it does, reads left to drain
  main        \* where the client is

objects == <<cache, job>>
pipes == <<inq, rlock, outq, wlock>>
threads == <<wh, th, rh>>
vars == <<taskq, objects, pipes, worker, handlers, threads, main>>

New == [at |-> "get", item |-> None, completed |-> 0]

Init ==
  /\ taskq = <<>> /\ cache = {}
  /\ job = [j \in Jobs |-> [asked |-> FALSE, left |-> Length, failed |-> FALSE,
                            index |-> 0, unsorted |-> {}, length |-> None]]
  /\ inq = <<>> /\ rlock = None /\ outq = <<>> /\ wlock = None
  /\ worker = [w \in Workers |-> New]
  /\ handlers = [wh |-> "RUN", th |-> "RUN", rh |-> "RUN"]
  /\ wh = TRUE
  /\ th = [at |-> "get", job |-> None, put |-> 0]
  /\ rh = [at |-> "get", drain |-> 10]
  /\ main = "run"

\* A pipe has room for a sentinel or an item unless items fill it; sentinels are small.
Room(pipe) == Len(SelectSeq(pipe, LAMBDA x : x # None)) < PipeSize

Over(w) == worker[w].at \in {"exited", "killed"}

-------------------------------------------------------------------------------
\* map_async() or imap() while the pool is running; the client's calls of
\* map_async() come first.
Submit(j) ==
  /\ main = "run" /\ ~job[j].asked
  /\ j \in IMaps => \A m \in Maps : job[m].asked
  /\ job' = [job EXCEPT ![j].asked = TRUE]
  /\ cache' = cache \cup {j}
  /\ taskq' = Append(taskq, j)
  /\ UNCHANGED <<pipes, worker, handlers, threads, main>>

\* The loop of the worker handler: reap the workers that have exited and start others.
Needed == handlers.wh = "RUN" \/ (cache # {} /\ handlers.wh # "TERMINATE")

Maintain ==
  /\ wh /\ Needed
  /\ \E w \in Workers : worker[w].at = "exited"
  /\ worker' = [w \in Workers |-> IF worker[w].at = "exited" THEN New ELSE worker[w]]
  /\ UNCHANGED <<taskq, objects, pipes, handlers, threads, main>>

\* Faulty: does not wait for the jobs.
WorkerHandlerEndEarly ==
  /\ wh /\ handlers.wh # "RUN"
  /\ wh' = FALSE
  /\ taskq' = Append(taskq, None)
  /\ UNCHANGED <<objects, pipes, worker, handlers, th, rh, main>>

WorkerHandlerEnd ==
  /\ wh /\ ~Needed
  /\ wh' = FALSE
  /\ taskq' = Append(taskq, None)
  /\ UNCHANGED <<objects, pipes, worker, handlers, th, rh, main>>

TaskGet ==
  /\ th.at = "get" /\ taskq # <<>>
  /\ taskq' = Tail(taskq)
  /\ th' = [at |-> IF Head(taskq) = None THEN "end" ELSE "next", job |-> Head(taskq), put |-> 0]
  /\ UNCHANGED <<objects, pipes, worker, handlers, wh, rh, main>>

\* Another task, unless the pool is being terminated.
TaskNext ==
  /\ th.at = "next" /\ th.put < Length
  /\ th' = [th EXCEPT !.at = IF handlers.th = "RUN" THEN "put" ELSE "end"]
  /\ UNCHANGED <<taskq, objects, pipes, worker, handlers, wh, rh, main>>

TaskPut ==
  /\ th.at = "put" /\ Room(inq)
  /\ inq' = Append(inq, <<th.job, th.put>>)
  /\ th' = [th EXCEPT !.at = "next", !.put = @ + 1]
  /\ UNCHANGED <<taskq, objects, rlock, outq, wlock, worker, handlers, wh, rh, main>>

\* All tasks put; _set_length() of an imap(), whose results may all have come.
TaskLength ==
  /\ th.at = "next" /\ th.put = Length
  /\ IF th.job \in IMaps
       THEN /\ job' = [job EXCEPT ![th.job].length = Length]
            /\ cache' = IF job[th.job].index = Length THEN cache \ {th.job} ELSE cache
       ELSE UNCHANGED objects
  /\ th' = [at |-> "get", job |-> None, put |-> 0]
  /\ UNCHANGED <<taskq, pipes, worker, handlers, wh, rh, main>>

\* outqueue.put(): take the lock of the writers, send, release.
LockOut(who) == wlock = None /\ wlock' = who
SendOut(who, x) == wlock = who /\ Room(outq) /\ outq' = Append(outq, x) /\ wlock' = None

TaskEndLock ==
  /\ th.at = "end"
  /\ LockOut(TaskHandler)
  /\ th' = [th EXCEPT !.at = "tell"]
  /\ UNCHANGED <<taskq, objects, inq, rlock, outq, worker, handlers, wh, rh, main>>

TaskEndSend ==
  /\ th.at = "tell"
  /\ SendOut(TaskHandler, None)
  /\ th' = [th EXCEPT !.at = "stop", !.job = None, !.put = 0]
  /\ UNCHANGED <<taskq, objects, inq, rlock, worker, handlers, wh, rh, main>>

\* A sentinel for each worker in the list.
TaskStop ==
  /\ th.at = "stop" /\ Room(inq)
  /\ inq' = Append(inq, None)
  /\ th' = [th EXCEPT !.put = @ + 1,
                      !.at = IF th.put + 1 = Cardinality(Workers) THEN "exited" ELSE "stop"]
  /\ UNCHANGED <<taskq, objects, rlock, outq, wlock, worker, handlers, wh, rh, main>>

-------------------------------------------------------------------------------
WorkerGet(w) ==
  /\ worker[w].at = "get" /\ rlock = None
  /\ rlock' = w
  /\ worker' = [worker EXCEPT ![w].at = "receive"]
  /\ UNCHANGED <<taskq, objects, inq, outq, wlock, handlers, threads, main>>

\* Faulty: does not give the lock back.
WorkerReceiveKeepsLock(w) ==
  /\ worker[w].at = "receive" /\ inq # <<>>
  /\ inq' = Tail(inq)
  /\ IF Head(inq) = None
       THEN worker' = [worker EXCEPT ![w] = [New EXCEPT !.at = "exited"]]
       ELSE worker' = [worker EXCEPT ![w].at = "put", ![w].item = Append(Head(inq), TRUE)]
  /\ UNCHANGED <<taskq, objects, rlock, outq, wlock, handlers, threads, main>>

\* Take a task and do it: the function returns or raises, which matters to a map()
\* only; or take the sentinel.
WorkerReceive(w) ==
  /\ worker[w].at = "receive" /\ inq # <<>>
  /\ inq' = Tail(inq)
  /\ rlock' = None
  /\ IF Head(inq) = None
       THEN worker' = [worker EXCEPT ![w] = [New EXCEPT !.at = "exited"]]
       ELSE \E success \in {TRUE, ~(MayFail /\ Head(inq)[1] \in Maps)} :
              worker' = [worker EXCEPT ![w].at = "put", ![w].item = Append(Head(inq), success)]
  /\ UNCHANGED <<taskq, objects, outq, wlock, handlers, threads, main>>

WorkerLock(w) ==
  /\ worker[w].at = "put"
  /\ LockOut(w)
  /\ worker' = [worker EXCEPT ![w].at = "send"]
  /\ UNCHANGED <<taskq, objects, inq, rlock, outq, handlers, threads, main>>

WorkerSend(w) ==
  /\ worker[w].at = "send"
  /\ SendOut(w, worker[w].item)
  /\ worker' = [worker EXCEPT ![w] =
                  IF @.completed + 1 = MaxTasks THEN [New EXCEPT !.at = "exited"]
                  ELSE [New EXCEPT !.completed = worker[w].completed + 1]]
  /\ UNCHANGED <<taskq, objects, inq, rlock, handlers, threads, main>>

-------------------------------------------------------------------------------
\* MapResult._set: count down; a failure ends the job at once.
SetMap(j, success) ==
  /\ job' = [job EXCEPT ![j].left = IF success THEN @ - 1 ELSE @, ![j].failed = ~success]
  /\ cache' = IF success /\ job[j].left > 1 THEN cache ELSE cache \ {j}

\* Faulty: keeps nothing that is early.
SetIMapInOrder(j, i) ==
  /\ job' = [job EXCEPT ![j].index = IF i = @ THEN @ + 1 ELSE @]
  /\ cache' = IF job'[j].index = job[j].length THEN cache \ {j} ELSE cache

\* IMapIterator._set: items come out in order, those that are early are kept.
SetIMap(j, i) ==
  LET early == job[j].unsorted \cup {i}
      next == CHOOSE n \in job[j].index..Length :
                n \notin early /\ (job[j].index..n-1) \subseteq early
  IN  /\ job' = [job EXCEPT ![j].index = next, ![j].unsorted = early \ (0..next-1)]
      /\ cache' = IF next = job[j].length THEN cache \ {j} ELSE cache

\* A result of a job that has left the cache is dropped.
Set(m) ==
  IF m[1] \notin cache THEN UNCHANGED objects
  ELSE IF m[1] \in Maps THEN SetMap(m[1], m[3]) ELSE SetIMap(m[1], m[2])

ResultGet ==
  /\ rh.at = "get" /\ outq # <<>>
  /\ outq' = Tail(outq)
  /\ IF handlers.rh = "TERMINATE" \/ Head(outq) = None
       THEN /\ rh' = [rh EXCEPT !.at = IF handlers.rh = "TERMINATE" THEN "drain" ELSE "rest"]
            /\ UNCHANGED objects
       ELSE Set(Head(outq)) /\ UNCHANGED rh
  /\ UNCHANGED <<taskq, inq, rlock, wlock, worker, handlers, wh, th, main>>

\* After the sentinel: go on while there are jobs.
ResultRest ==
  /\ rh.at = "rest"
  /\ rh' = [rh EXCEPT !.at = IF cache # {} /\ handlers.rh # "TERMINATE" THEN "more" ELSE "drain"]
  /\ UNCHANGED <<taskq, objects, pipes, worker, handlers, wh, th, main>>

ResultMore ==
  /\ rh.at = "more" /\ outq # <<>>
  /\ outq' = Tail(outq)
  /\ rh' = [rh EXCEPT !.at = "rest"]
  /\ IF Head(outq) = None THEN UNCHANGED objects ELSE Set(Head(outq))
  /\ UNCHANGED <<taskq, inq, rlock, wlock, worker, handlers, wh, th, main>>

\* Make room for sentinels: read at most ten times, until the pipe is seen empty.
ResultDrain ==
  /\ rh.at = "drain"
  /\ IF outq = <<>> \/ rh.drain = 0
       THEN rh' = [at |-> "exited", drain |-> 0] /\ UNCHANGED outq
       ELSE rh' = [rh EXCEPT !.drain = @ - 1] /\ outq' = Tail(outq)
  /\ UNCHANGED <<taskq, objects, inq, rlock, wlock, worker, handlers, wh, th, main>>

-------------------------------------------------------------------------------
\* close(), and then join().
Close ==
  /\ main = "run"
  /\ handlers' = [handlers EXCEPT !.wh = "CLOSE"]
  /\ main' = "joining"
  /\ UNCHANGED <<taskq, objects, pipes, worker, threads>>

HandlersOver == ~wh /\ th.at = "exited" /\ rh.at = "exited"

\* join() waits for the handlers, then for the workers.
JoinReturn ==
  /\ main = "joining" /\ HandlersOver /\ \A w \in Workers : Over(w)
  /\ main' = "joined"
  /\ UNCHANGED <<taskq, objects, pipes, worker, handlers, threads>>

\* terminate(), of a running pool or after an interrupted join().
Terminate ==
  /\ main \in {"run", "joining"}
  /\ handlers' = [handlers EXCEPT !.wh = "TERMINATE", !.th = "TERMINATE"]
  /\ main' = "lock"
  /\ UNCHANGED <<taskq, objects, pipes, worker, threads>>

\* _help_stuff_finish(): keep the workers from reading, for ever, ...
TerminateLock ==
  /\ main = "lock" /\ rlock = None
  /\ rlock' = Main
  /\ main' = "help"
  /\ UNCHANGED <<taskq, objects, inq, outq, wlock, worker, handlers, threads>>

\* ... and take tasks away until there are none or the task handler has ended.
TerminateHelp ==
  /\ main = "help"
  /\ IF th.at # "exited" /\ inq # <<>>
       THEN inq' = Tail(inq) /\ UNCHANGED <<handlers, main>>
       ELSE /\ handlers' = [handlers EXCEPT !.rh = "TERMINATE"]
            /\ main' = "sentinel"
            /\ UNCHANGED inq
  /\ UNCHANGED <<taskq, objects, rlock, outq, wlock, worker, threads>>

TerminateSentinel ==
  /\ main = "sentinel" /\ LockOut(Main)
  /\ main' = "tell"
  /\ UNCHANGED <<taskq, objects, inq, rlock, outq, worker, handlers, threads>>

TerminateTell ==
  /\ main = "tell" /\ SendOut(Main, None)
  /\ main' = "reap"
  /\ UNCHANGED <<taskq, objects, inq, rlock, worker, handlers, threads>>

\* The worker handler has ended: kill the workers that have not.
TerminateKill ==
  /\ main = "reap" /\ ~wh
  /\ worker' = [w \in Workers |-> IF Over(w) THEN worker[w] ELSE [New EXCEPT !.at = "killed"]]
  /\ main' = "handlers"
  /\ UNCHANGED <<taskq, objects, pipes, handlers, threads>>

TerminateReturn ==
  /\ main = "handlers" /\ HandlersOver
  /\ main' = "terminated"
  /\ UNCHANGED <<taskq, objects, pipes, worker, handlers, threads>>

-------------------------------------------------------------------------------
WorkerHandler == Maintain \/ WorkerHandlerEnd
TaskHandle ==
  TaskGet \/ TaskNext \/ TaskPut \/ TaskLength \/ TaskEndLock \/ TaskEndSend \/ TaskStop
Work(w) ==
  \/ WorkerGet(w) \/ WorkerReceive(w) \/ WorkerLock(w) \/ WorkerSend(w)
ResultHandler == ResultGet \/ ResultRest \/ ResultMore \/ ResultDrain
Stopping ==
  \/ JoinReturn \/ TerminateLock \/ TerminateHelp \/ TerminateSentinel \/ TerminateTell
  \/ TerminateKill \/ TerminateReturn

Next ==
  \/ (\E j \in Jobs : Submit(j)) \/ Close \/ Terminate
  \/ WorkerHandler \/ TaskHandle \/ (\E w \in Workers : Work(w)) \/ ResultHandler \/ Stopping

\* Threads and processes run, tasks return; what the client calls is its own affair.
Fairness ==
  /\ WF_vars(WorkerHandler) /\ WF_vars(TaskHandle) /\ WF_vars(ResultHandler)
  /\ \A w \in Workers : WF_vars(Work(w))
  /\ WF_vars(Stopping)

Spec == Init /\ [][Next]_vars /\ Fairness

-------------------------------------------------------------------------------
Terminating == handlers.wh = "TERMINATE"

\* The places of pipe or workers where there is a task of j, or its result.
Held(items, j) == {x \in DOMAIN items : items[x] # None /\ items[x][1] = j}

Items == [w \in Workers |-> worker[w].item]

\* The tasks of a job that have no result yet: to be put, in the pipes, or with a worker.
Underway(j) ==
  (IF j \in Range(taskq) THEN Length ELSE IF th.job = j THEN Length - th.put ELSE 0)
    + Cardinality(Held(inq, j)) + Cardinality(Held(outq, j)) + Cardinality(Held(Items, j))

\* No task is lost or done twice while workers come and go: until the pool is
\* terminated, a job waits for as many results as there are tasks underway.
TasksAccounted ==
  \A j \in cache : ~Terminating =>
    IF j \in Maps THEN job[j].left = Underway(j)
    ELSE job[j].index + Cardinality(job[j].unsorted) + Underway(j) = Length

\* A job is finished unless the pool is terminated, also when workers leave after
\* their share and when the pool has been closed.
JobsFinish == \A j \in Jobs : job[j].asked ~> j \notin cache \/ Terminating

Failed == \E j \in Jobs : job[j].failed

\* join() of a closed pool returns if no task of a map() has raised.  If one has, the
\* job leaves the cache while others of its tasks are queued, the result handler may
\* end, and nobody reads the results of the rest.
JoinReturns == main = "joining" ~> main = "joined" \/ Failed \/ Terminating

\* terminate() returns.  It does not: tasks are taken away until the pipe of tasks is
\* seen empty once, and the task handler may fill it after that; or the result handler
\* ends before the sentinel is sent, while a worker that holds the lock of the writers
\* fills the pipe of results.
TerminateReturns == Terminating ~> main = "terminated"
===============================================================================
