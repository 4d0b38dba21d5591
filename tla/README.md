# A TLA+ model of the concurrent core of Python 2.7.5

These modules model the parts of CPython 2.7.5 (`src/Python-2.7.5/`) whose
correctness depends on what happens in which order: the native locks, the
synchronisation classes of `Lib/threading.py` and `Lib/Queue.py`, the server loop of
`Lib/SocketServer.py`, the life of
`Thread` objects, pending calls and signals, the cyclic garbage collector with the
program that runs inside it, dictionaries whose comparisons change them, and the
condition variable, the queues and the pool of `multiprocessing`. Everything is translated from the source;
`PROJECT.json` names for every definition the lines it stands for. Paths below
are relative to `src/Python-2.7.5/`.

To check a model: `tlc -workers 2 -config Pool.cfg Pool`, and `-config Monitors.cfg
MCMonitors`, `Threads.cfg MCThreads`, `Threading.cfg MCThreading`, `Signals.cfg MCSignals`,
`Objects.cfg MCObjects`, `Processes.cfg MCProcesses`; to check the proofs: `tlapm MonitorsProofs.tla` (also
`ThreadingProofs`, `ThreadLifeProofs`, `SignalsProofs`, `GCProofs`, `DictProofs`, `ProcessesProofs`,
`PoolProofs`).

## 1. Inventory of the system

| part | state it keeps | operations | what is hard | what makes it correct |
|---|---|---|---|---|
| native locks, `Python/thread_nt.h`, `Python/thread_pthread.h` | count and event; or mutex, condition, flag | allocate, acquire, release | every instruction interleaves; the signal comes after the state change; spurious wake-ups | mutual exclusion, no lost wake-up |
| lock objects, `Modules/threadmodule.c` | the native lock | acquire, release, locked | release probes before it releases | release only of a locked lock |
| `RLock`, `threading.py` 117-238 | lock, owner, level | acquire, release, save and restore for `wait()` | owner is read without a lock | owner and level are those of the holder |
| `Condition`, `threading.py` 249-408 | list of waiter locks | wait, notify, notifyAll | a timed-out waiter removes itself without the lock; exceptions in the sleep | a notification reaches a waiter |
| `Queue`, `Lib/Queue.py` | items, count of unfinished tasks, three conditions on one mutex | put, get, task_done, join | overtaking, timeouts, stale wake-ups | a bounded blocking queue; no caller left beside what it waits for |
| `Semaphore`, `BoundedSemaphore`, `threading.py` 418-536 | value, condition | acquire, release | overtaking; an unlocked test | permits are conserved and claimed |
| `Event`, `threading.py` 544-621 | flag, condition | set, clear, wait | set and clear in a row | a set releases all waiters |
| `Thread`, `_MainThread`, `_after_fork`, `threading.py` 640-1241 | flags of each object, `_active`, `_limbo` | start, bootstrap, join, current_thread, exit, fork | flags and tables change in steps seen by others; idents are reused; forks and failures at any step | who is alive is listed; dead means dead; exit waits |
| pending calls, `Python/ceval.c` 360-496 | ring of calls, flag, lock | add, make | a flag polled without the lock; a try-lock that gives up; failures | calls are made once, in order |
| signals, `Modules/signalmodule.c` | a flag per signal and one for all | trip, check | runs in signal handlers and on other threads; handlers raise | every signal is handled |
| collector, `Modules/gcmodule.c` | generations, `gc_refs`, lists of one collection | collect, track, untrack | program code runs in the middle of a collection; deallocation changes the lists that are gone through | unreachable means unreachable; garbage is found; trash stays hidden |
| weak references, `Objects/weakrefobject.c` | referent, callback, list per object | create, call, clear | callbacks run during deallocation | no callback sees what is being cleared |
| interpreter lock and evaluation loop, `Python/ceval.c` | one lock, a ticker | release and take every 100 bytecodes, re-initialise after a fork | blocking calls and forks around it | one thread runs bytecode |
| thread states, `Python/pystate.c` | list of thread states under a lock, a thread-local key | create, delete, `PyGILState` | deletion beside traversal | no state is used after deletion |
| import lock, `Python/import.c` 280-345 | lock, owner, level | acquire, release, re-initialise | re-entrance, forks | like `RLock` |
| dictionaries, sets, `Objects/dictobject.c` | table with dummies, `ma_used`, `ma_fill` | lookup, set, delete, clear, popitem, resize | a comparison or a deallocation may change the table under a call | a map; lookups end |
| lists and sorting, `Objects/listobject.c` | array | list methods, sort | a comparison may change the list | a sorted permutation, stable |
| small-object allocator, `Objects/obmalloc.c` | pools, arenas | malloc, free | a sorted list of arenas changes with every pool | blocks do not overlap; arenas are returned |
| other built-in types, parser, compiler | data | pure functions | - | - |
| `multiprocessing.Condition`, `Lib/multiprocessing/synchronize.py` 193-287 | three semaphores and a lock | wait, notify, notify_all | sleepers are known by counts only, and time out without the lock | the counts fit; a notification sees a sleeper out |
| `multiprocessing.JoinableQueue`, `queues.py`, exit of processes, `util.py`, `process.py` | a buffer and a feeder thread in each process, a pipe, two locks, a bound, a count | put, get, task_done, join, close, join_thread, cancel_join_thread, fork, exit | items wait in a buffer of one process; feeders and processes die with items and locks | items are delivered once, in order; those on their way are counted; exit ends |
| `multiprocessing.Pool`, `pool.py` | a queue of jobs, results by job, two pipes with locks, states of three handler threads, workers | map_async, imap, close, join, terminate | workers leave and are replaced; failures; full pipes; killed lock holders | tasks are done once; jobs and joins finish |
| `multiprocessing` managers, connections, shared memory | a server thread per client, reference counts | create, call, shutdown | reference counts across processes | objects live as long as referents |
| `heapq`, `sched`, `collections` | data | push, pop | order of equal elements | heap order |
| `SocketServer`, `asyncore` | an event and a flag, a map of channels | serve, shutdown | shutdown before, during or after the loop | shutdown waits for the loop it found, and returns |
| `dumbdbm`, `mailbox` | files | commit, flush | crash between two steps | a commit is all or nothing |
| `logging`, buffered I/O, protocols, formats | - | - | - | - |
| tests, tools, documentation | - | - | - | read for what is promised |
| vendored OpenSSL, Berkeley DB, SQLite, Tcl, Tk, bzip2, pywin32, build scripts | - | - | - | third-party code, not the subject |

How they interact. Lock objects are native locks. `RLock` is a lock object with
an owner; `Condition` uses one lock as the monitor and one fresh lock per
waiter; `Queue`, `Semaphore`, `Event` and `Thread.join` are monitors on
`Condition`. A signal handler in C sets flags and adds a pending call; the
evaluation loop of the main thread makes it and so runs the Python handler,
which may raise anywhere in Python code, `Condition.wait()` included. Allocation
may start a collection; a collection and every deallocation may run `__del__`
methods and weak reference callbacks, which allocate and release in turn.

`multiprocessing` is threads, forks and system
semaphores: the feeder of a queue and the handlers of a pool are daemon threads that
wait on a `threading.Condition` or poll, processes inherit objects through `fork()`,
and pipes and semaphores are what they share; functions registered in `util.py` run
at exit, in the order of their priorities.

`PROJECT.json` lists the hazards, each at its line, with the properties that cover it. One has
none, starting one object from two threads, which the documentation forbids.

## 2. The modules

`Threads` and the like are CONSTANTS with named assumptions. Operations are
actions; what a client may do is a nondeterministic choice.

Components that do not interact are checked two or three in one run: **MCMonitors** (NRMutex,
Semaphore, Event, Server), **MCThreading** (RLock, Queue), **MCSignals** (PThreadLock, Signals),
**MCObjects** (GC, Dict) and **MCProcesses** (SemCondition, MPQueue) have a variable `which`
that names the module whose behaviour this is; it never changes, and the variables of the
other modules stay as they are at the start. A property of one module is then trivially true
of the behaviours of the others, and says what it says of its own. The components that do
interact are composed by EXTENDS: Condition and PyList by the monitors, PendingCalls by Signals,
collector, program and deallocation in GC, feeder, client and exit in MPQueue.
**MCThreads** only gives ThreadLife the program that its threads run.

**PyLock** is the abstract lock: `locked`, and the set of threads blocked in
`acquire(1)`. Its fairness says that a free lock with blocked threads does not
stay free.

**NRMutex** is the Windows mutex. `owned`, `thread_id` and `hevent` are the
fields of `NRMUTEX`; `pc` says where each thread is in `Enter...` or
`LeaveNonRecursiveMutex`, and `holder` is a history variable. One action per
interlocked instruction, store or event call. `Lock!Spec` of `PyLock` is a
PROPERTY: locked is mapped to "somebody holds the mutex or is on the way into or
out of it", waiting to the threads in `WaitForSingleObject`.

**PThreadLock** is the lock from a mutex and a condition variable. A pthread call
is one step, `pthread_cond_wait` three (sleep, wake, re-enter), and
`SpuriousWakeup` may take a sleeper out at any time. `CallRelease` has the
precondition of the only caller modelled, `lock.release()`: it has just found
the lock locked, and holds the interpreter lock for the whole call. It also
implements `PyLock`.

**RLock** has one action per load or store of `__owner` and `__count` that other
threads can observe, and `depth`, the number of releases each thread owes.
`AcquireFailed` stands for `acquire(0)`; a blocking call simply waits.

**Condition** (with **PyList**) is shared by the monitors. `waiters` are the lists
of waiter locks, each named by its thread; `stage` says where a thread is inside
`wait()`. The monitor's lock is implicit, since every other step is a critical
section of it. The steps a thread takes without the lock, `Expire`,
`RemoveWaiter` and `Interrupt`, are actions of their own. After `Interrupt` the
waiter lock in the list is nobody's: `Abandoned`.

**Queue** (with **QueueOrder** for the subclasses) has one action per critical
section of `put`, `get`, `task_done` and `join`: the call up to its return or its
`wait()`, and each continuation after a `wait()`. `fetched` is a history variable
that counts the items each thread has got and not reported done; consumers call
`task_done()` at most once per item, as the docstring asks. Calls that fail at
once change nothing and are left out. `interrupted` is history, too: an exception
has come out of the polling loop of some `wait()`. **BlockingQueue** is what a queue
promises, without locks, conditions or notifications, and `Queue` implements it.
After an interruption (`aborted`) it promises less: items, room, tasks and timeouts
as before, but not that blocked calls proceed.

**Semaphore** and **Event** are the other two monitors. `CheckRelease` is the
unlocked test of `BoundedSemaphore.release`. `sawSet` is the history of the flag
during each `wait()` of an event. **Server** extends Event: the loop of
`serve_forever()` runs in one thread at a time, and `shutdown_request` is read and written
between the critical sections of the event. `beside` is the history of which calls of
`shutdown()` found a loop under way, and `missed` says beside which ones a loop has begun
after their request had been withdrawn by the loop before it.

**ThreadLife** has objects and native threads apart, since the idents in `_active`
are reused. `started`, `stopped`, `limbo`, `active` are the code's; `listlock`
is held between two steps only by the end of `__bootstrap_inner`, which sets
`__stopped` and deletes the entry in two steps that others can tell apart.
`MayStart` says which thread's program starts which object; for TLC the main thread
starts `o1` and the daemon `o3`, and `o1` starts `o2`. Native threads in `Foreign` are also
started and ended by software that does not use this module; `CurrentThread` gives them
a dummy object, which stays in `_active` when they end and is found there by the next
thread with their ident. `Fork` is `os.fork()` seen from the child, with `_after_fork`.

**SemCondition** is `multiprocessing.Condition`. `sleeping`, `woken` and `tokens` are the values
of `_sleeping_count`, `_woken_count` and `_wait_semaphore`; each acquisition and release of one
is a step, since timed-out sleepers (`TimeOut`, `SayWoken`) take theirs without the lock.
`found` and `late` are history: who slept when the notification began, and who has timed
out since then.

**PendingCalls** has one action per step of `Py_AddPendingCall` (try the lock or
give up, store, raise the flag, unlock) and of `Py_MakePendingCalls` (lock, take,
unlock, call). `Store` keeps the index arithmetic of the ring. **CallQueue** is
the promise, and the ring implements it.

**Signals** extends it: `Trip`, `TripTest`, `TripSet`, `TripAdd` are the statements
of `trip_signal` on a thread of its own, `TripOnMain` is the whole of it
interrupting the main thread between any two of its steps, and the `Check...`
actions are `PyErr_CheckSignals`, one turn of its loop each. Two history variables
say when the code gives no guarantee any more: `refused` (a call of `trip_signal` was
not accepted, because the lock was taken at every attempt or the ring was full) and
`raised` (a handler has raised).

**GC** composes the collector, the program and deallocation. `refs` is the object
graph, `held` are references from frames and modules, `running` the objects given
to a callback or a `__del__` method that is under way. `gc_refs` and the lists
are the code's. A collection is `Start`, one `ScanReachable` or `ScanUnreachable`
per object, `MoveFinalizers`, `MoveReachable`, `ClearTrashRefs`, `CallBack` for
each callback, `Clear`, `ClearRef`, `Cleared` for each object of
`delete_garbage`, and `Finish`. Deallocation takes an object without references
through `ClearWeakRefs`, `Finalize` and `Dealloc`. The program (`New...`, `Hold`,
`Release`, `Store`, `Remove`) runs between collections and whenever `running` is
not empty; it only touches what it has references to. `trash` is the history of
what was found to be collectable and is still there, and `exposed` says that a
collection has left a callback in its trash whose referent is outside the trash; it is
reset when the last of that trash is gone.

**Dict** is the open hash table of `dictobject.c` with `lookdict`. A call runs in one step
until a comparison or a deallocation runs Python code; it is then suspended in `look`, with
the locals that the code keeps (slot, free slot, table, `ma_used` before), and the program
makes other calls, which run to their end. `Untouched` is the test of line 378 of
`dictobject.c`; a call whose table was replaced begins again. Keys carry their hash and
what they compare equal to; a value is the class of its key, so that a value
under the wrong key can be told. `dirty`, `spoiled` and `skipped` are history: slots
that the suspended call has passed were changed, a call has returned in that state, and a
call has missed its turn to resize. `ProbeSequence` holds the probes of each hash in a table of each of the
`Sizes`; that every slot is among them is what the comment of the code argues (lines 65-97), and the
assumption `ProbesReachAll`, which TLC evaluates for the sizes and hashes of its run.

**MPQueue** has, for each process, a client that is in one method of the queue at a time and
a feeder thread, with the process's own `buffer`; `pipe`, `sem`, `rlock`, `wlock`, `cond` and
`unfinished` are shared. `hand` is the item the feeder has taken out of the buffer. `Fork`
gives a child the object with an empty buffer and no feeder; `Exit` is the first
half of `_exit_function` in `util.py`, which tells the feeder to stop; `ExitEnd` waits for the
children and the feeder, and a feeder whose join was cancelled dies with the process,
`wlock` in hand if need be. **ProcessQueue** is the promise: what each process has put is received
once and in order, and at most `MaxSize` items are outstanding; a process whose feeder
is broken may lose what it has not yet sent. `Implements` maps its
`outstanding` to the process's items in the pipe, in hand and in the buffer.

**Pool** has the parent's client (`Main`), its three handler threads (`wh`, `th`, `rh`, and their
`_state` in `handlers`), the two pipes with the lock of the side that several use, and a record per
place in the list of workers. A worker process's loop is `WorkerGet`,
`WorkerReceive` (which does the task), `WorkerLock` and `WorkerSend`, and it leaves after
`MaxTasks`. `Stopping` is the client inside
`terminate()` or `join()`, whose steps are those of `_terminate_pool` in their order.

Simplifications of GC, each of them a restriction of the program or a data
abstraction: every object is a container; lists are sets, visited in any order,
which includes the order of the code; two references from one object to another
are one; a collection starts when no deallocation is under way; debugging flags
are unset; a `__del__` method is called once per object; a weak reference whose
callback is called goes to the old generation at the start of the call, not at
its end; untracking of tuples and dictionaries and the thresholds are left out.

**Faulty variants.** Beside the definitions there are operators whose comment
begins with "Faulty": the same operation with a plausible mistake in it. No
specification uses them. Each was put in the place of its operation to see that
the property it is listed with in `PROJECT.json` notices.

## 3. What is checked

A row per run that TLC must finish without an error; the number is that of distinct
states. An instance has all the behaviours of its components at once (timeouts,
interruptions, failures, forks), and history variables name the ones after which a
property is not promised, so that one instance answers all the questions about a component.

| run | instance | what it shows | states |
|---|---|---|---|
| Monitors | mutex: 4 threads; bounded semaphore: 4 threads, 1 permit, 9 calls; event: 3 threads, 7 calls; server: 3 threads, 9 calls of its event | one token, no lost wake-up, the mutex implements PyLock; permits are claimed, how far the unlocked test lets the value go; a set releases all, and nobody for another reason; shutdown() waits and returns | 12,440 |
| Threads | main, 3 objects, 3 native threads of which one may be foreign, one fork, failures | tables and flags say what they should; joins return; exit waits | 64,946 |
| Threading | RLock: 3 threads, 3 levels; queue: 3 threads, one interruptible, priority order, 1 place, 2 items, 5 calls | the unlocked owner test is enough, levels survive `wait()`; items and places are claimed, the queue implements BlockingQueue with its liveness | 185,042 |
| Signals | lock: 3 threads, spurious wake-ups; signals: 2 other threads, ring of 3, 4 calls, 3 signals of 2 kinds, failing calls, raising handlers | no lost wake-up, the lock implements PyLock; the ring implements CallQueue; flags announce what they stand for; signals are handled | 283,368 |
| Objects | GC: 4 kinds of object (plain, `__del__`, tuple, weak reference with callback), at most 3 alive with 3 references, 2 generations; Dict: 4 colliding keys, 2 of them equal, tables of 4 to 16 slots | what is found is what is unreachable, it stays hidden and is freed; a dictionary under attack stays a map and has a virgin slot | 999,937 |
| Processes | condition: 3 threads of processes; queue: 2 processes, bound 2, pipe of 1, 2 items, one process may cancel, the other fail | the counts of sleepers fit, a notification sees one out and returns; the queue implements ProcessQueue; the count covers what is on its way; flushes and exits | 355,868 |
| Pool | a map and an imap of 2 tasks each, 2 workers that leave after 1 task, pipes of 1, failures, close and terminate at any time | tasks are accounted for; jobs finish; join returns | 491,964 |

The properties that are not a matter of reading one function:

* *No lost wake-up.* `NoLostWakeup` of both locks; `Claimed` (queue) and `PermitsClaimed`: while
  somebody is listed as waiting, every item (free place, permit) has a thread on its
  way to it. A thread on its way may be overtaken; it then waits again, and the count
  still fits. `NotifyWakes`: of the threads a `notify()` of `multiprocessing` found asleep,
  one at least has woken when it returns.
* *Implementation.* `LockSpec` of both locks, `QueueImplements`, `Implements` (the ring of
  pending calls), with the abstract liveness; `ItemsDelivered` (MPQueue implements
  ProcessQueue), its safety.
* *What others may conclude later.* `WaitKept`, `ShutdownDoes`, `JoinReturns`, `FlushedAtReturn`: a
  call that was woken up returns, and for the reason it waited for, although the flag or
  count may have changed again by then.
* *Bookkeeping read by others.* `AliveListed`, `ActiveIsOwn`, `StoppedIsOver`, `PendingAnnounced`,
  `SignalsAnnounced`, `CountCovers`, `AssertionsHold`: what may be concluded from a flag or count
  that is read without the lock, or before the one it belongs to.
* *Conservation.* `TasksAccounted`: for every job of a pool that is not finished, the results it
  still waits for are as many as the tasks in queues, pipes and workers.
* *Progress.* `JobsFinish`, `JoinReturns` of the pool, `ExitEnds`, `NotifyReturns`, `SignalHandled`.
* *The collector.* `ListsConsistent` (lists, flags and generations agree), `Isolated` (sound),
  `GarbageFound` (complete), `TrashHidden` ("no Python-level code can be allowed to access an
  unreachable object", `Modules/gc_weakref.txt`), `TrashFreed`.
* *The dictionary.* `LookupFinds`: no key twice, no value under another key, and a lookup returns
  the slot of its key. `VirginSlot`: lookups end. `ReturnDoes`: a call that was suspended
  does what it would have done had it run in one piece at its end.

`TypeOK` and its like are in no run where a theorem states them or other invariants imply
them; they were checked with the instances above while they were written.

### Disagreements

Five runs expect a violation. Each checks what a comment or a document says and
finds a behaviour of the code that does otherwise; `PROJECT.json` quotes both.

| run | what happens |
|---|---|
| QueueInterruptLost | a notification goes to the waiter lock an interrupted `get(timeout)` left in the list; another `get()` blocks beside an item |
| SignalLost | a signal that interrupts the main thread inside `Py_MakePendingCalls` schedules nothing, and neither do later ones |
| NotifyLost | `notify()` of `multiprocessing.Condition` takes a thread that has timed out before for the one it has woken, and takes that one's token back: the sleeper sleeps on |
| TerminateHangs | `terminate()` sees the pipe of tasks empty once and goes on; the task handler then fills it and waits for ever |
| DictLookup | the free slot that a lookup remembers is filled by a comparison; the lookup returns it for a key that is not there |

Other behaviours that a reader of the documentation may not expect, found while the
properties were written. None has a run of its own; the properties say what holds in
spite of them.

* `join()` of a queue may go on waiting although the count of unfinished tasks was zero,
  when it rises again before the joiner runs; the abstract queue allows it.
* Releases that pass the unlocked test of a `BoundedSemaphore` together take its value
  above the initial one; `ValueInRange` has the exact excess.
* `Event.wait()` without timeout may return False, after `set(); clear()`;
  `WaitKept` is about the return, not the value.
* `shutdown()` of a server waits for the next loop, which nobody has told to stop, when the loop it
  found ends and another begins before the thread comes to wait (`missed` in `ShutdownDoes`). A
  `shutdown()` in the last instant of a loop leaves its request to the next one, which ends at once.
* The exiting main thread may overlook a thread started by another one during the exit;
  `ExitWaits` is about the threads only the main thread starts.
* A thread that is between `_limbo` and `_active` when another one forks stays alive in
  the child for ever, in no table; `AliveListed` is about objects with a native thread.
* A handler that raises leaves the other tripped signals unannounced until the next
  signal (`raised` in `SignalsAnnounced` and `SignalHandled`).
* Concurrent calls of `start()` of one object may both pass the test of `__started`; in
  the model an object is started by one thread only.
* A callback of a weak reference that is trash itself runs on cleared objects when its
  referent lies in an older generation, against `Modules/gc_weakref.txt` 136-138
  (history `exposed` in `TrashHidden`).
* A dictionary whose lookup removes entries misses its turn to resize
  (`Objects/dictobject.c` 786), and the table may then be filled to the last slot by calls
  that each miss it, against the assertion at line 760 (`skipped` in `VirginSlot`).
* `join_thread()` returns with items in the buffer when the feeder has failed (`FlushedAtReturn`
  has the exception); `Doc/library/multiprocessing.rst` 598-600 promises that all data has
  been flushed.
* `join()` of a closed pool may wait for ever after a task of a `map()` has raised: the job leaves the
  cache while others of its tasks are queued, the result handler may end, and the
  workers fill the pipe of results (`Failed` in `JoinReturns`).

### Bounds

Names of bounds: `MaxDepth`, `MaxCalls` (`MaxSemaphoreCalls`, `MaxEventCalls`, `MaxServerCalls`), `MaxAdds`, `MaxSignals`,
`MaxAlive`, `MaxRefs`, `MaxAsleep`, `MaxPuts`, `PipeSize`, `Length`, `MaxTasks`, `MaxDoublings`, and the sizes of
the sets in each `.cfg`.

* Threads: two to interfere and one to wait, four where two may wait and two
  interfere. `MaxCalls` limits calls made, not steps: five calls give a getter that
  waits, a put that notifies it, a get that overtakes it, and a timeout of another.
* `MaxAsleep` bounds `_sleeping_count`, which timed-out sleepers leave too high until the next
  notification: 4 is one more than the threads, so that a thread that has timed out sleeps
  again before the counts are put right.
* `MaxSize` = 1 makes a queue full and empty within one call of each other. In MPQueue a bound of 2
  and a pipe of 1 let a feeder block while permits are left.
* `Length` = 2 and `MaxTasks` = 1 make every worker leave between two tasks of one job; `PipeSize` = 1
  makes both pipes block.
* `NPENDINGCALLS` is 32 in the code and 3 in `Signals.cfg`, so that the ring is full
  with two calls and wraps around with four. In `SignalLost.cfg` it is 6, more than the
  calls that can be made, so that what is lost there is not lost to a full ring.
* GC: three objects alive at a time and three references between them (`MaxRefs`, which does not
  count that of a weak reference to its callback) are enough for a cycle of all three, or a cycle
  with something attached to it or to which it is attached; the four kinds of object take turns, so every
  three of them meet. `NUM_GENERATIONS` is 3 in the code and 2 here, young and old
  being the distinction the code makes. Objects are allocated again after they have
  been freed, so runs are of unbounded length.
* Dict: `PyDict_MINSIZE` is 8 in the code and 4 here, `GrowthRate` 4 (2 for large dictionaries) in the
  code and 2 here, so that four keys of one hash fill, grow and shrink a table. The constraint
  `Undisturbed` cuts behaviours off after a call that spoiled the table or missed its
  resizing, since the properties promise nothing after it; a table does not grow beyond
  `MaxDoublings` doublings of the small one. `Parts` leaves the other module out
  of `DictLookup`. The keys `y` and `z` are used alike (SYMMETRY); no liveness is checked there.

CHECK_DEADLOCK is FALSE in every run, since every program here may block for ever or come
to its end; the comment in each `.cfg` says how.

### Fairness

Weak fairness on the steps a thread takes inside a call, and none on the making of
calls, on spurious wake-ups, failures, signals and forks. The code justifies it:
the operating system runs threads, timeouts elapse, and a mutex that is released
again and again is granted in the end because the calls that compete for it are
finitely many here (`MaxCalls`). With infinitely many calls a single `get()` may be
overtaken for ever: nothing in `Queue.py` promises otherwise, and `BlockingQueue`
asks only that some blocked call proceeds. In Server `select()` has a timeout and requests
are handled in finite time. Semaphore, RLock, GC and Dict have no fairness,
since their properties are safety properties. The program's own code (`run()`, a
handler that does not return) is under no fairness where it could be the
property's excuse; `JoinReturns` starts from the end of `run()`. In `Queue` the
polling loop of a timed `wait()` is a wait that ends when notified or expired. In SemCondition it is one
weak fairness for all threads together: while a token can be taken (`Wake`), a sleeper has to count
itself out (`SayWoken`) or a notifier can go on, something of this happens; that is
enough for `NotifyReturns`, since each of these steps is one of finitely many before the
return. Timeouts are under no fairness. In MPQueue feeders run, and clients run inside
`put()`, after they have received an item, in `join_thread()` and in the exit; nobody need
receive, so `ExitEnds` assumes that the pipe has room again and again. In Pool the handlers,
the workers and the client inside `join()` or `terminate()` run: a task ends, and the
client's calls are its own affair.

## 4. What is proved

`tlapm` proves the following for every value of the constants that satisfies the
named assumptions. Theorems about a module that is an INSTANCE of the module that the run
checks (`S`, `E` and `V` in MCMonitors, `Q` in MCThreading, `JQ` in MCProcesses) are about that
instance, whose parameters are constants again. Each inductive invariant is a conjunction of
named parts and was checked by TLC on the instance of its run before it was proved. Type
correctness has no run of its own where it is a theorem.

| proofs | about | theorems that state properties of the runs | others |
|---|---|---|---|
| MonitorsProofs | NRMutex, Semaphore, Event, Server | `OneToken`, `NoLostWakeup`, `ValueInRange`, `PermitsClaimed` | `ImplementsLock`; the safety halves of `WaitKept` and of `ShutdownDoes` |
| ThreadingProofs | RLock, Queue | `Exclusive`, `CountIsDepth`, `Claimed` | `QueueIsBlockingQueue` |
| ThreadLifeProofs | ThreadLife | `AliveListed`, `ActiveIsOwn`, `StoppedIsOver`, `ExitWaits` | |
| SignalsProofs | PThreadLock | `NoLostWakeup` | `ImplementsLock`, `MutProtects`, `ReleasesAreOfALockedLock` |
| | PendingCalls, Signals | `PendingAnnounced`, `SignalsAnnounced` | `RingIsQueue` |
| GCProofs | GC | `ListsConsistent`, `Isolated`, `GarbageFound`, `TrashHidden`, `TrashFreed` | `TrashStaysUnseen` |
| DictProofs | Dict | `LookupFinds`, `VirginSlot`, `ReturnDoes` | |
| ProcessesProofs | SemCondition, MPQueue | `AssertionsHold`, `NotifyWakes`, `CountCovers`, `FlushedAtReturn`, `ItemsDelivered` | `PermitsBoundItems` |
| PoolProofs | Pool | `TasksAccounted` | `NoTaskTwice` |

**NRMutex** (any finite set of threads). `IInv` is the conjunction of the five
invariants: neither the count nor the token is inductive alone. That two threads
never have the token needs that a successful compare-exchange means nobody is
inside (`OwnedCounts`); that the count is right after a decrement needs that the
leaving thread is the only one (`OneToken`); that `SetEvent` finds a waiter needs
both. The lemmas state what one thread's move does to the cardinality of the
waiters; there is one step per action and one per conjunct. `ImplementsLock` proves that initial
states map to initial states and each step to a step of `PyLock` or a stutter.

**Semaphore** (any finite set of threads, any initial value). `BlockedListed`: the list of waiters
holds blocked threads only and nobody twice, so each notification puts one more acquirer on its
way, which pays for the permit just released (`PermitsClaimed`). `ReleasesOwed` adds to the value
the threads that have passed the unlocked test of a bounded semaphore and not yet
released; they are why the value may exceed the initial one, and why by no more than one for
each thread but one (`ValueInRange`).

**Event** and **Server** (any set of threads). Every sleeper is in the list that `set()` empties
(`SleeperListed`), also while others that have timed out remove themselves without the
lock; so `set()` reaches everybody (`SetReachesAll`), and a `wait()` without timeout returns for
nothing else (`WaitsAreJustified`). For the server, `LoopHidesEvent`: while a loop runs the event is clear
and those who found that loop are not notified, from which `ShutdownWaitsForLoop` follows.

**PThreadLock** (any set of threads; in SignalsProofs, since pending calls are guarded by such a
lock). `LockIInv` adds `OneRelease`, that at most
one release is before its store, to the invariants; without it two releases could
clear the flag twice.

**RLock** (any set of threads, any depth). `OwnerPhase` are the places in `acquire`, `release`,
`_release_save` and `_acquire_restore` where the thread is the owner, and `OwnerMatches` says that
`__owner` is exactly such a thread: the unlocked comparison of the owner with the caller can
only be true for the thread that stored itself. `LevelKept` says where the level of a
thread is, in `__count`, or in the saved state during `wait()`.

**Queue** (any finite set of threads, any size, any order of the items). `Claimed` counts the
threads that are in a call and off the list of their condition. That a notification adds one to
them needs `ListInv`: no thread is listed twice, in the list of another call, or when it does
not wait. It holds until a `wait()` is interrupted, and so does `Claimed`; `StageInv` and the type
hold throughout. `QueueIsBlockingQueue` is the step simulation of `BlockingQueue`, interruptions
included: the invariant is needed for `Full` and `Empty`, which are raised by a thread that has
waited with a timeout, and for the bound on the items (`RoomKept`).

**ThreadLife** (any sets of objects and native threads, any program that starts an object in
one thread only, which is the assumption `OneStarter`). `OneRunner`: no two native threads run one
object. `OwnEntry` is `ActiveIsOwn` with what the entry of an ident may be before its thread has
registered. `StartersWait`: an object has no thread before it is spawned, and its starter waits
for it afterwards, which is what makes the unlocked test of `__started` enough. `FlagsMatch` and
`LimboKeeps` relate flags and `_limbo` to the places of the threads; forks, failures and foreign
threads are included. `ExitInv`, on top of them, says that everybody for whom the exit must
wait and who is alive is in the copy of the list that the exiting thread looks through: they are
started by the main thread alone (`Awaited`), which starts nobody while it leaves (`NoneStarted`).

**PendingCalls and Signals** (any number of threads and signals, any ring of at least two
slots). `LockInv` and `CallInv` say who holds `pending_lock` and what the main thread has
taken out of the ring. `FlagInv` has the one moment in which a ring that is not empty may have its
flag down, before the thread that has stored a call raises it, with the lock held: the
main thread, which recomputes the flag when it takes a call, is then kept out. `CheckScheduled` and
`TripAnnounced` are the two links from a tripped signal to `PyErr_CheckSignals`; each is
inductive only with the ring's invariant. `RingIsQueue` is the step simulation of `CallQueue`; its lemmas
are the arithmetic modulo `NPENDINGCALLS` and what storing and taking do to the
sequence of pending calls that the ring stands for.

**GC** (any finite set of objects, any number of generations, any finalizers,
types without tp_clear, weak references and callbacks). `ScanInv` is the invariant of
`move_unreachable`: every open object that something outside refers to is still to be
scanned and has a count that is not zero. The lemma `OutsideCounts` establishes it
from the counting of references in `update_refs` and `subtract_refs`.
`UnreachableIsIsolated` follows when nothing is left to scan. Completeness is the converse and
is harder: `KeptInv` says of every set of objects the scan has kept that something outside, or the
program, refers into it; a step that keeps one more object must be shown not to close a circle
of objects that keep only one another. `ListInv` says that the lists of the
generations and of the collection are disjoint and hold every live object, and `AliveInv` that nothing
refers to freed memory; together they give `ListsConsistent`. `FinalizersInv` carries
isolation through `move_finalizers`. `TrashInv` carries it through callbacks and
`delete_garbage`: nothing outside the trash leads into it, and what has been cleared refers to
nothing. `TuplesInv` (tuples do not refer to one another in circles, for they are made from
what exists) is why even objects that nothing can clear are freed at the end. `TrashStaysUnseen` is the
stronger statement for programs without callbacks.

**Dict** (any keys, equal or colliding, any hashes, a small table of any size, any growth rate of two
or more). `IsMap` is what the table is: each entry can be reached by the probes of its key without
passing an unused slot (`Chained`), no two have equal keys (`Once`), and each has its own value.
`Found` is what a slot must be for the calls to use it, and `Passed` what a suspended lookup
knows of the probes behind it: no equal key among them, no unused slot, and the first
dummy is the one it remembers. `CallKnows` says that the lookup knows this as long as nothing has
changed behind it (`dirty`); `CallOK` is what remains of it otherwise. `VirginSlot` needs that a call that
adds an entry compares the counts with those before it (`Roomy`), and in turn gives every lookup
and every copy of a resize a slot to end at. The lemmas say what filling, replacing and
deleting one slot do to the map, and `RebuildsTheMap` that the copies of a resize make the same map in a
table of another size. What a recursive function computes (the sizes, the probes, the copies) is shown with
`CountUp`: the numbers for which it does not hold would have a least one. The sets are
finite or of numbers, so this needs no induction theorem with an operator parameter.
Assumed are `DictAssumption` and `ProbesReachAll`. The latter is number theory that the code argues in a
comment: when the shifts have made `perturb` zero, `5*j+1` modulo a power of two goes through all
slots. A hash of 32 bits is gone after seven shifts, so twice as many probes as slots reach them all
in a table of 8 slots or more, which is the smallest in the code. `NULL` is no key and no value, and
equal keys have equal hashes, as the language demands.

**SemCondition** (any finite set of threads). `SleepersCounted` is the conservation law:
`_sleeping_count` plus what the notifier has picked is the number of sleepers plus the counts
in `_woken_count`. It needs the lemmas on cardinalities, which say what a step does to
the set of sleepers. `NotifierOwes` bounds the tokens by what the notifier that holds the lock
has picked, and `SomeoneOut` says that nobody falls asleep during a notification. That the wrong sleeper may come
out (NotifyLost) does not contradict `NotifyWakes`: a thread that has timed out counts as one that came out.

**MPQueue** (any finite set of processes, any bound and size of the pipe, any number of items).
`PermitsKept` and `TasksCounted` are the two conservation laws: a permit is free, with a client, or
under an item in a buffer, in a feeder's hand or in the pipe; and each such item, or one received
and not reported done, is counted, or its `put()` is holding `_cond` (`CondHeld`). `Fit` relates the fields of one
process. `NothingBehind`, with `SentinelLast`, says that a feeder that has
seen the sentinel leaves nothing in the buffer, from which `FlushedAtReturn` follows. Items that die with
a killed or broken feeder are in neither law any more, which is why both are inequalities. The
lemmas say what appending, taking and killing do to the set of places of items.
`DeliversItems` is the step simulation of `ProcessQueue`: the items of a process that are outstanding are
those that the pipe holds of it (`OwnIn`), then the one in its feeder's hand, then the buffer without the
sentinel (`NumbersIn`). One lemma per action says which step of the promise it is. `send()` and
`popleft()` are none: they move an item from one place of this sequence to the next, and the lemmas
on `OwnIn` say that another process's items do not notice. A feeder that fails or is killed is
`BreakDown`, which keeps what is in the pipe. That `put()` finds room is `PermitsKept`: the client that appends
has a permit that is no item's yet. `Unborn` is all that the invariant needs beside: a process that
is not born has no feeder. As for Dict, what the recursive function in `OwnIn` computes is shown with a least number
for which it would not hold.

**Pool** (any finite sets of jobs and workers, any number of tasks, any sizes). The numbers of the
tasks of a job in the pipe of tasks, with workers and in the pipe of results are disjoint and
without repetition (`Apart`, `Once`), and have been put (`Put`, `Begun`). `NoTaskTwice` is that, and
holds in the middle of `terminate()` as well. `Accounted` is the conservation law for each job in the
cache while the pool is not being terminated: a map waits for as many results as it has tasks underway or
to be put, and an imap has, with what it has handed out or keeps until its turn (`Done`),
exactly the tasks begun. That the last result finds its job needs `Queued` (a job
is in the queue of the task handler once, from its request until it is taken) and `Stopped` (no
sentinel while the pool runs, and no result handler that ends beside an unfinished job). The assumption
`PoolAssumption` says, beside the types of the constants, that `None` is not a task.

Only model-checked:

* liveness under fairness, which this prover does not reach: `JoinReturns` of threads and of the
  pool, `SignalHandled`, `JobsFinish`, `NotifyReturns`, `ExitEnds`, the first half of `WaitKept` and the
  second of `ShutdownDoes`, and the liveness in `LockSpec`, `QueueImplements` and `Implements`, whose
  safety is proved;
* `ProbesReachAll` of Dict, which is assumed and evaluated on the instance;
* the five violations, of course: what is false has no proof.

## 5. What is not modelled

Section 1 lists every part. Left out for good: what is data rather than control
(bytecode, arithmetic, text, parsing, protocols), thin layers over system calls, and
third-party code. Left out for now: see the plan. Also outside the models: memory
exhaustion, the failure of a system call where the code calls `Py_FatalError` or only
reports it, destruction of locks in use, and the printing of debug notes.

## 6. Plan

The order is by importance; what is written is marked.

1. (written) PyLock, NRMutex, PThreadLock; proofs.
2. (written) Condition, Queue over BlockingQueue; Semaphore, Event, RLock; proofs.
3. (written) ThreadLife with exit, fork and dummy threads; proofs.
4. (written) CallQueue, PendingCalls, Signals; proofs.
5. (written) GC with weak references and finalizers; proofs.
6. (written) Dictionary lookups with comparisons that change the table; proofs.
7. (written) multiprocessing: the condition variable; the queue with its feeder;
   the pool; proofs.
8. Extensions: timers and timed joins in ThreadLife; counters, thresholds and untracking in GC;
   the interpreter lock with fork; the import lock; thread states; `imap_unordered`,
   callbacks and failing initializers in Pool; managers.
9. Containers: `list.sort` and its detection of changes, the heap operations of `heapq`
   against a reference, the arenas of `obmalloc`.
10. Library: (written) the server loop and its shutdown; the commit of `dumbdbm` with crashes.
11. Proofs: (written) Semaphore, Event, Server, Queue, PendingCalls and Signals, MPQueue, Pool,
   all of GC, Dict. Left: `ProbesReachAll` for tables that are powers of two.

An extension of a component extends its run rather than adding one, and an invariant
that is proved and implied by others leaves its run, so that the set of runs stays
small enough to repeat after every change: a module of the import lock joins RLock's
run as a second user of the same scheme, thresholds join GC.
