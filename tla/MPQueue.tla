------------------------------ MODULE MPQueue -------------------------------
(***************************************************************************)
(* multiprocessing.JoinableQueue.  put() fills a buffer of the process; a  *)
(* feeder thread, started by the first put(), moves the items into a pipe  *)
(* that all processes share.  Permits bound the items outstanding and a    *)
(* semaphore counts those unfinished.  At exit a process tells its feeder  *)
(* to stop and waits for it, unless cancel_join_thread() was called; then  *)
(* the feeder dies with the process, wherever it is.                       *)
(***************************************************************************)
EXTENDS Integers, Sequences, SequencesExt, FiniteSets

CONSTANTS
  Procs,        \* processes; a client thread and a feeder thread each
  Root,         \* the process that creates the queue
  None,         \* a lock is free
  MaxSize,      \* the argument of the constructor
  PipeSize,     \* bound of the model on what the pipe holds
  MaxPuts,      \* bound of the model on the items put altogether
  Cancellers,   \* those that may call cancel_join_thread()
  Failers       \* those that may put an item that cannot be pickled

\* What a client may rely on when it gives values to the constants.
MPQueueAssumption ==
  /\ IsFiniteSet(Procs) /\ Root \in Procs /\ None \notin Procs
  /\ MaxSize \in Nat \ {0} /\ PipeSize \in Nat \ {0} /\ MaxPuts \in Nat
  /\ Cancellers \subseteq Procs /\ Failers \subseteq Procs

VARIABLES
  sem,          \* _sem: permits to put
  rlock,        \* who reads from the pipe
  wlock,        \* whose feeder writes to it
  cond,         \* who holds the lock of _cond
  pipe,         \* items in the pipe: <<process, number>>
  unfinished,   \* _unfinished_tasks
  q             \* each process: its threads and its copy of the queue object

shared == <<sem, rlock, wlock, cond, pipe, unfinished>>
vars == <<shared, q>>

Sentinel == 0
ClientPlaces == {"unborn", "out", "enter", "append", "count", "receive", "got",
                 "joining", "joined", "flushing", "exiting", "dead"}
FeederStopped == {"none", "done", "failed", "killed"}
FeederPlaces == FeederStopped \cup
                {"check", "waiting", "notified", "pop", "lock", "send", "unlock"}

\* What a forked process starts from: _after_fork() gives it an empty buffer
\* and no feeder.
Fresh(parent) ==
  [pc |-> "out", parent |-> parent, feeder |-> "none", buffer |-> <<>>, hand |-> <<>>,
   told |-> FALSE, closed |-> FALSE, cancelled |-> FALSE, owed |-> 0, puts |-> 0]

Init ==
  /\ sem = MaxSize /\ unfinished = 0
  /\ rlock = None /\ wlock = None /\ cond = None
  /\ pipe = <<>>
  /\ q = [p \in Procs |->
            IF p = Root THEN Fresh(None) ELSE [Fresh(None) EXCEPT !.pc = "unborn"]]

\* Type invariant of the pipe, the locks and the processes.
TypeOK ==
  /\ sem \in 0 .. MaxSize /\ unfinished \in Nat
  /\ {rlock, wlock, cond} \subseteq Procs \cup {None}
  /\ pipe \in Seq(Procs \X (1 .. MaxPuts)) /\ Len(pipe) <= PipeSize
  /\ \A p \in Procs :
       /\ q[p].pc \in ClientPlaces /\ q[p].feeder \in FeederPlaces
       /\ q[p].parent \in Procs \cup {None}
       /\ q[p].buffer \in Seq(0 .. MaxPuts) /\ q[p].hand \in Seq(1 .. MaxPuts)
       /\ {q[p].told, q[p].closed, q[p].cancelled} \subseteq BOOLEAN
       /\ q[p].owed \in Nat /\ q[p].puts \in 0 .. MaxPuts

At(p, place) == q[p].pc = place
FeederAt(p, place) == q[p].feeder = place

\* _notempty is held by the client of p, who is appending.
Appending(p) == q[p].pc \in {"append", "count"}

\* _notempty.notify()
Notified(feeder) == IF feeder = "waiting" THEN "notified" ELSE feeder

-------------------------------------------------------------------------------
\* Faulty: the child keeps the buffer and the feeder it inherits.
ForkKeepsBuffer(p, child) ==
  /\ At(p, "out") /\ At(child, "unborn")
  /\ q' = [q EXCEPT ![child] = [Fresh(p) EXCEPT !.buffer = q[p].buffer,
                                  !.feeder = IF q[p].feeder = "none" THEN "none" ELSE "check"]]
  /\ UNCHANGED shared

Fork(p, child) ==
  /\ At(p, "out") /\ At(child, "unborn")
  /\ q' = [q EXCEPT ![child] = Fresh(p)]
  /\ UNCHANGED shared

\* put(): a permit; without one, Full or a wait.
PutAcquire(p) ==
  /\ At(p, "out") /\ ~q[p].closed
  /\ SumFunction([r \in Procs |-> q[r].puts]) < MaxPuts
  /\ sem > 0
  /\ sem' = sem - 1
  /\ q' = [q EXCEPT ![p].pc = "enter"]
  /\ UNCHANGED <<rlock, wlock, cond, pipe, unfinished>>

\* _notempty.acquire(); the feeder holds it for a moment only.
PutEnter(p) ==
  /\ At(p, "enter")
  /\ q' = [q EXCEPT ![p].pc = "append"]
  /\ UNCHANGED shared

\* Faulty: without the lock of _cond.
PutAppendUnlocked(p) ==
  /\ At(p, "append")
  /\ q' = [q EXCEPT ![p].pc = "count", ![p].puts = @ + 1,
             ![p].feeder = IF @ = "none" THEN "check" ELSE @,
             ![p].buffer = Append(@, q[p].puts + 1)]
  /\ UNCHANGED shared

\* _cond.acquire(); _start_thread() unless there is a feeder, on a cleared
\* buffer; append the item.
PutAppend(p) ==
  /\ At(p, "append") /\ cond = None
  /\ cond' = p
  /\ q' = [q EXCEPT ![p].pc = "count", ![p].puts = @ + 1,
             ![p].feeder = IF @ = "none" THEN "check" ELSE @,
             ![p].buffer = Append(IF FeederAt(p, "none") THEN <<>> ELSE @, q[p].puts + 1)]
  /\ UNCHANGED <<sem, rlock, wlock, pipe, unfinished>>

\* _unfinished_tasks.release(), _notempty.notify(), and release both locks.
PutCount(p) ==
  /\ At(p, "count")
  /\ unfinished' = unfinished + 1
  /\ cond' = None
  /\ q' = [q EXCEPT ![p].pc = "out", ![p].feeder = Notified(@)]
  /\ UNCHANGED <<sem, rlock, wlock, pipe>>

Get(p) ==
  /\ At(p, "out") /\ ~q[p].closed /\ rlock = None
  /\ rlock' = p
  /\ q' = [q EXCEPT ![p].pc = "receive"]
  /\ UNCHANGED <<sem, wlock, cond, pipe, unfinished>>

\* poll() finds nothing until the timeout: Empty.
GetEmpty(p) ==
  /\ At(p, "receive") /\ pipe = <<>>
  /\ rlock' = None
  /\ q' = [q EXCEPT ![p].pc = "out"]
  /\ UNCHANGED <<sem, wlock, cond, pipe, unfinished>>

Receive(p) ==
  /\ At(p, "receive") /\ pipe # <<>>
  /\ pipe' = Tail(pipe)
  /\ q' = [q EXCEPT ![p].pc = "got", ![p].owed = @ + 1]
  /\ UNCHANGED <<sem, rlock, wlock, cond, unfinished>>

\* Give the permit back and let others read.
GetReturn(p) ==
  /\ At(p, "got")
  /\ sem' = sem + 1
  /\ rlock' = None
  /\ q' = [q EXCEPT ![p].pc = "out"]
  /\ UNCHANGED <<wlock, cond, pipe, unfinished>>

\* _cond.notify_all()
JoinersNotified ==
  [r \in Procs |-> IF At(r, "joining") THEN [q[r] EXCEPT !.pc = "joined"] ELSE q[r]]

\* task_done(), once for each item received; it raises ValueError if nothing
\* is counted as unfinished, which CountCovers excludes.
TaskDone(p) ==
  /\ At(p, "out") /\ q[p].owed > 0 /\ cond = None
  /\ unfinished' = unfinished - 1
  /\ q' = [(IF unfinished' = 0 THEN JoinersNotified ELSE q) EXCEPT ![p].owed = @ - 1]
  /\ UNCHANGED <<sem, rlock, wlock, cond, pipe>>

\* join() waits once; with nothing unfinished it returns at once.
Join(p) ==
  /\ At(p, "out") /\ cond = None /\ unfinished > 0
  /\ q' = [q EXCEPT ![p].pc = "joining"]
  /\ UNCHANGED shared

JoinReturn(p) ==
  /\ At(p, "joined") /\ cond = None
  /\ q' = [q EXCEPT ![p].pc = "out"]
  /\ UNCHANGED shared

\* _finalize_close(): the sentinel, once, if there is a feeder to read it.
Tell(r) ==
  IF r.told \/ r.feeder = "none" THEN r
  ELSE [r EXCEPT !.told = TRUE, !.buffer = Append(@, Sentinel), !.feeder = Notified(@)]

Close(p) ==
  /\ At(p, "out") /\ ~q[p].closed
  /\ q' = [q EXCEPT ![p] = [Tell(@) EXCEPT !.closed = TRUE]]
  /\ UNCHANGED shared

\* join_thread(), and what the exit of the process waits for.
Flushed(p) == q[p].cancelled \/ q[p].feeder \in FeederStopped

JoinThread(p) ==
  /\ At(p, "out") /\ q[p].closed /\ ~Flushed(p)
  /\ q' = [q EXCEPT ![p].pc = "flushing"]
  /\ UNCHANGED shared

\* Faulty: does not wait for what the feeder holds.
JoinThreadReturnEarly(p) ==
  /\ At(p, "flushing") /\ q[p].buffer = <<Sentinel>>
  /\ q' = [q EXCEPT ![p].pc = "out"]
  /\ UNCHANGED shared

JoinThreadReturn(p) ==
  /\ At(p, "flushing") /\ Flushed(p)
  /\ q' = [q EXCEPT ![p].pc = "out"]
  /\ UNCHANGED shared

CancelJoinThread(p) ==
  /\ p \in Cancellers /\ At(p, "out") /\ ~q[p].cancelled
  /\ q' = [q EXCEPT ![p].cancelled = TRUE]
  /\ UNCHANGED shared

\* Faulty: the feeder is not told.
ExitUntold(p) ==
  /\ At(p, "out")
  /\ q' = [q EXCEPT ![p].pc = "exiting"]
  /\ UNCHANGED shared

\* _exit_function(): finalizers of priority 0 and more, ...
Exit(p) ==
  /\ At(p, "out")
  /\ q' = [q EXCEPT ![p] = [Tell(@) EXCEPT !.pc = "exiting"]]
  /\ UNCHANGED shared

ChildrenDead(p) == \A r \in Procs : q[r].parent = p => At(r, "dead")

\* ... join the children, the other finalizers; then the process ends, and its
\* feeder with it.
ExitEnd(p) ==
  /\ At(p, "exiting") /\ ChildrenDead(p) /\ Flushed(p)
  /\ q' = [q EXCEPT ![p] =
             [@ EXCEPT !.pc = "dead", !.buffer = <<>>, !.hand = <<>>,
                       !.told = FALSE, !.closed = FALSE, !.cancelled = FALSE,
                       !.feeder = IF q[p].feeder \in FeederStopped THEN q[p].feeder
                                   ELSE "killed"]]
  /\ UNCHANGED shared

-------------------------------------------------------------------------------
FeedCheck(p) ==
  /\ FeederAt(p, "check") /\ ~Appending(p)
  /\ q' = [q EXCEPT ![p].feeder = IF q[p].buffer = <<>> THEN "waiting" ELSE "pop"]
  /\ UNCHANGED shared

FeedWake(p) ==
  /\ FeederAt(p, "notified") /\ ~Appending(p)
  /\ q' = [q EXCEPT ![p].feeder = "pop"]
  /\ UNCHANGED shared

\* popleft(), without _notempty; IndexError if there is nothing, the end at the sentinel.
FeedPop(p) ==
  /\ FeederAt(p, "pop")
  /\ LET r == q[p] IN
     q' = [q EXCEPT ![p] =
             IF r.buffer = <<>> THEN [r EXCEPT !.feeder = "check"]
             ELSE IF Head(r.buffer) = Sentinel
               THEN [r EXCEPT !.feeder = "done", !.buffer = Tail(r.buffer)]
               ELSE [r EXCEPT !.feeder = "lock", !.buffer = Tail(r.buffer),
                              !.hand = <<Head(r.buffer)>>]]
  /\ UNCHANGED shared

FeedLock(p) ==
  /\ FeederAt(p, "lock") /\ wlock = None
  /\ wlock' = p
  /\ q' = [q EXCEPT ![p].feeder = "send"]
  /\ UNCHANGED <<sem, rlock, cond, pipe, unfinished>>

\* send() blocks while the pipe is full.
FeedSend(p) ==
  /\ FeederAt(p, "send") /\ Len(pipe) < PipeSize
  /\ pipe' = Append(pipe, <<p, q[p].hand[1]>>)
  /\ q' = [q EXCEPT ![p].feeder = "unlock", ![p].hand = <<>>]
  /\ UNCHANGED <<sem, rlock, wlock, cond, unfinished>>

\* send() raises: the lock is released and the thread ends.
FeedFail(p) ==
  /\ p \in Failers /\ FeederAt(p, "send")
  /\ wlock' = None
  /\ q' = [q EXCEPT ![p].feeder = "failed", ![p].hand = <<>>]
  /\ UNCHANGED <<sem, rlock, cond, pipe, unfinished>>

FeedUnlock(p) ==
  /\ FeederAt(p, "unlock")
  /\ wlock' = None
  /\ q' = [q EXCEPT ![p].feeder = "pop"]
  /\ UNCHANGED <<sem, rlock, cond, pipe, unfinished>>

Feed(p) ==
  \/ FeedCheck(p) \/ FeedWake(p) \/ FeedPop(p) \/ FeedLock(p) \/ FeedSend(p)
  \/ FeedUnlock(p)

Proceed(p) ==
  \/ PutEnter(p) \/ PutAppend(p) \/ PutCount(p) \/ GetReturn(p)
  \/ JoinThreadReturn(p) \/ ExitEnd(p)

Call(p) ==
  \/ \E child \in Procs : Fork(p, child)
  \/ PutAcquire(p) \/ Get(p) \/ GetEmpty(p) \/ Receive(p) \/ TaskDone(p)
  \/ Join(p) \/ JoinReturn(p) \/ Close(p) \/ JoinThread(p) \/ CancelJoinThread(p) \/ Exit(p)

Next == \E p \in Procs : Call(p) \/ Proceed(p) \/ Feed(p) \/ FeedFail(p)

\* Feeders run, and so do clients inside put(), the end of get(), join_thread() and
\* exit.  Nobody need receive or put, and no send need fail.
Fairness == \A p \in Procs : WF_vars(Proceed(p)) /\ WF_vars(Feed(p))

Spec == Init /\ [][Next]_vars /\ Fairness

-------------------------------------------------------------------------------
\* The processes whose feeder has failed, or was killed by the end of the process.
Broken == {p \in Procs : q[p].feeder \in {"failed", "killed"}}

\* What the feeder of p will yet send, if it is not broken.
Unsent(p) == IF p \in Broken THEN <<>> ELSE q[p].hand \o q[p].buffer

\* The numbers of the items of p in s.
OwnIn(p, s) ==
  LET own[i \in 0 .. Len(s)] ==
        IF i = 0 THEN <<>>
        ELSE IF s[i][1] = p THEN Append(own[i - 1], s[i][2]) ELSE own[i - 1]
  IN  own[Len(s)]

\* The numbers in s, which ends with the sentinel if that was put.
NumbersIn(s) == IF s # <<>> /\ s[Len(s)] = Sentinel THEN Front(s) ELSE s

\* What of the items of p is on its way: in the pipe, or behind it.
Pending(p) == OwnIn(p, pipe) \o NumbersIn(Unsent(p))

Promise == INSTANCE ProcessQueue WITH
  puts <- [p \in Procs |-> q[p].puts],
  outstanding <- [p \in Procs |-> Pending(p)],
  broken <- Broken

\* Buffers, feeders and the pipe deliver the items of each process once, in order, and
\* never more than maxsize at a time, whatever the processes' forks, closes and exits.
Implements == Promise!Spec

\* The items that feeders will yet send, and those received and not done, numbered for
\* each process.
Behind == UNION {{p} \X {i \in DOMAIN Unsent(p) : Unsent(p)[i] # Sentinel} : p \in Procs}
Owed == UNION {{p} \X (1 .. q[p].owed) : p \in Procs}

\* While nobody is inside put() with the lock of _cond, every item on its way and every
\* item received and not done is counted as unfinished: task_done() for an item never
\* fails, and join() does not return past a task.
CountCovers ==
  cond = None => Len(pipe) + Cardinality(Behind) + Cardinality(Owed) <= unfinished

FlushReturns(p) == At(p, "flushing") /\ q'[p].pc = "out" /\ ~q[p].cancelled

\* join_thread() returns when all that was put is in the pipe, unless the feeder failed:
\* it ends at the first item that cannot be pickled, and leaves what is behind it.
FlushedAtReturn ==
  [][\A p \in Procs : FlushReturns(p) =>
       FeederAt(p, "failed") \/ (q[p].buffer = <<>> /\ q[p].hand = <<>>)]_vars

\* Those that wait for nothing but their feeder, and stop being here when they die.
Leaving == {p \in Procs : At(p, "exiting") /\ ChildrenDead(p)}

\* Every exiting process whose children are dead ends, if there is room in the pipe
\* again and again and no process has died with the lock of the writers.
ExitEnds ==
  []<>(Len(pipe) < PipeSize /\ (wlock # None => ~At(wlock, "dead")))
    => []<>(Leaving = {})
===============================================================================
