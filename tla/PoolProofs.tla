----------------------------- MODULE PoolProofs ------------------------------
(***************************************************************************)
(* Proofs about Pool, for any finite sets of jobs and workers and tasks of *)
(* any number: no task is at two places at a time, and until the pool is   *)
(* terminated every job waits for exactly the results of its tasks that    *)
(* are underway.                                                           *)
(***************************************************************************)
EXTENDS Pool, FiniteSetTheorems, SequenceTheorems, TLAPS

-------------------------------------------------------------------------------
\* The numbers of the tasks of j among these.
Numbers(items, j) == {items[x][2] : x \in Held(items, j)}

\* The number of this task or result if it is one of j.
Own(x, j) == IF x # None /\ x[1] = j THEN {x[2]} ELSE {}

\* A pipe s becomes t when x is put into it, and when x is taken from it; places f of workers
\* become g when w gets x.
PutIn(t, s, x) == t = Append(s, x)
TakenFrom(t, s, x) == s # <<>> /\ t = Tail(s) /\ x = Head(s)
Given(g, f, w, x) == DOMAIN f = Workers /\ g = [f EXCEPT ![w] = x]

\* No task of j is there twice.
Once(items, j) == \A x, y \in Held(items, j) : items[x][2] = items[y][2] => x = y

Live(j) == Numbers(inq, j) \cup Numbers(outq, j) \cup Numbers(Items, j)

\* How many tasks of j have been put.
Begun(j) == IF ~job[j].asked \/ j \in Range(taskq) THEN 0
            ELSE IF th.job = j THEN th.put ELSE Length

Entries == Jobs \cup {None}
Tasks == Jobs \X Nat
Results == Jobs \X Nat \X BOOLEAN

JobStates == [asked : BOOLEAN, left : Int, failed : BOOLEAN, index : Nat,
              unsorted : SUBSET Nat, length : {None, Length}]
WorkerStates == [at : {"get", "receive", "put", "send", "exited", "killed"},
                 item : Results \cup {None}, completed : Nat]
TaskHandlerStates ==
  [at : {"get", "next", "put", "end", "tell", "stop", "exited"}, job : Entries, put : Nat]
ResultHandlerStates == [at : {"get", "rest", "more", "drain", "exited"}, drain : Nat]

PoolTypeOK ==
  /\ taskq \in Seq(Entries) /\ cache \subseteq Jobs
  /\ job \in [Jobs -> JobStates] /\ worker \in [Workers -> WorkerStates]
  /\ inq \in Seq(Tasks \cup {None}) /\ outq \in Seq(Results \cup {None})
  /\ handlers \in [wh : {"RUN", "CLOSE", "TERMINATE"}, th : {"RUN", "TERMINATE"},
                   rh : {"RUN", "TERMINATE"}]
  /\ wh \in BOOLEAN
  /\ th \in TaskHandlerStates /\ rh \in ResultHandlerStates

\* A worker has a task, or its result, between receive() and send() only.
WorkerHolds == \A w \in Workers : worker[w].item # None <=> worker[w].at \in {"put", "send"}

\* The pool is closed when sentinels are about, and jobs are done with when the result
\* handler ends, unless the pool is terminated.
Stopped ==
  /\ handlers.wh = "RUN" <=> main = "run"
  /\ main \notin {"run", "joining", "joined"} => Terminating
  /\ handlers.th = "TERMINATE" \/ handlers.rh = "TERMINATE" => Terminating
  /\ main = "run" => /\ wh /\ None \notin Range(taskq) \cup Range(outq)
                     /\ th.at \in {"get", "next", "put"} /\ rh.at = "get"
  /\ rh.at \in {"drain", "exited"} => cache = {} \/ Terminating

\* A job is in the queue of the task handler once, from when it is asked for until the
\* task handler takes it.
Queued ==
  /\ \A i, k \in DOMAIN taskq : taskq[i] = taskq[k] /\ taskq[i] # None => i = k
  /\ \A j \in Jobs : j \in Range(taskq) => job[j].asked /\ th.job # j
  /\ \A j \in Jobs : th.job = j => job[j].asked
  /\ \A j \in cache : job[j].asked
  /\ \A j \in Jobs : ~job[j].asked => job[j].left = Length /\ job[j].index = 0 /\ job[j].unsorted = {}
  /\ th.at \in {"next", "put"} => th.job \in Jobs /\ th.put <= Length
  /\ th.at = "put" => th.put < Length
  /\ th.job \in Jobs => th.at \in {"next", "put"} \/ (Terminating /\ th.at \in {"end", "tell"})
  /\ th.job \in Jobs => th.put <= Length

\* Every task is at one place.
Apart(j) ==
  /\ Once(inq, j) /\ Once(outq, j) /\ Once(Items, j)
  /\ Numbers(inq, j) \cap Numbers(outq, j) = {}
  /\ Numbers(inq, j) \cap Numbers(Items, j) = {}
  /\ Numbers(outq, j) \cap Numbers(Items, j) = {}

\* Only tasks that have been put are underway.
Put(j) == Live(j) \subseteq 0 .. Begun(j) - 1

\* The results that an imap() keeps are those after the one it waits for.
Sorted(j) == /\ job[j].index <= Begun(j)
             /\ job[j].unsorted \subseteq job[j].index .. Begun(j) - 1

\* The tasks of an imap() whose results have come.
Done(j) == (0 .. job[j].index - 1) \cup job[j].unsorted

\* What a job waits for is underway.
Accounted(j) ==
  /\ j \in Maps => job[j].left = Cardinality(Live(j)) + (Length - Begun(j))
  /\ j \in IMaps => /\ Done(j) \cup Live(j) = 0 .. Begun(j) - 1
                    /\ Done(j) \cap Live(j) = {}

IInv ==
  /\ PoolTypeOK /\ WorkerHolds /\ Stopped /\ Queued
  /\ \A j \in Jobs : Apart(j) /\ Put(j) /\ Sorted(j)
  /\ ~Terminating => \A j \in cache : Accounted(j)

-------------------------------------------------------------------------------
\* The constants: None is neither a job nor a task.
LEMMA Constants ==
  /\ IsFiniteSet(Workers) /\ Maps \cap IMaps = {} /\ Length \in Nat \ {0} /\ MayFail \in BOOLEAN
  /\ None \notin Jobs /\ None \notin Tasks /\ None \notin Results
  BY PoolAssumption DEF Tasks, Results

\* The tasks of j in a pipe when something is put into it, ...
LEMMA NumbersAppended ==
  ASSUME NEW E, NEW s \in Seq(E), NEW x, NEW t, PutIn(t, s, x), NEW j
  PROVE  /\ Numbers(t, j) = Numbers(s, j) \cup Own(x, j)
         /\ Once(s, j) /\ Own(x, j) \cap Numbers(s, j) = {} => Once(t, j)
<1> DEFINE n == Len(s)
<1>1. /\ n \in Nat /\ DOMAIN s = 1 .. n /\ DOMAIN t = 1 .. n + 1
      /\ t[n + 1] = x /\ \A i \in 1 .. n : t[i] = s[i]
  <2> DEFINE F == E \cup {x}
  <2>1. x \in F /\ E \subseteq F
    OBVIOUS
  <2> HIDE DEF F
  <2>2. s \in Seq(F)
    BY <2>1, SeqMonotonic
  <2> QED BY <2>1, <2>2, AppendProperties, LenProperties DEF PutIn
<1> HIDE DEF n
<1>2. /\ \A i \in Held(s, j) : i \in Held(t, j) /\ t[i] = s[i] /\ i # n + 1
      /\ \A i \in Held(t, j) : i = n + 1 \/ (i \in Held(s, j) /\ t[i] = s[i])
      /\ n + 1 \in Held(t, j) <=> x # None /\ x[1] = j
  BY <1>1 DEF Held
<1>3. Numbers(t, j) = Numbers(s, j) \cup (IF x # None /\ x[1] = j THEN {x[2]} ELSE {})
  <2>1. ASSUME NEW m \in Numbers(s, j) PROVE m \in Numbers(t, j)
    <3>1. PICK i \in Held(s, j) : m = s[i][2]
      BY DEF Numbers
    <3>2. i \in Held(t, j) /\ m = t[i][2]
      BY <1>2, <3>1
    <3> QED BY <3>2 DEF Numbers
  <2>2. ASSUME NEW m \in Numbers(t, j) PROVE m \in Numbers(s, j) \/ (x # None /\ x[1] = j /\ m = x[2])
    <3>1. PICK i \in Held(t, j) : m = t[i][2]
      BY DEF Numbers
    <3>2. CASE i = n + 1
      BY <1>1, <1>2, <3>1, <3>2
    <3>3. CASE i # n + 1
      <4>1. i \in Held(s, j) /\ m = s[i][2]
        BY <1>2, <3>1, <3>3
      <4> QED BY <4>1 DEF Numbers
    <3> QED BY <3>2, <3>3
  <2>3. ASSUME x # None, x[1] = j PROVE x[2] \in Numbers(t, j)
    <3>1. n + 1 \in Held(t, j) /\ t[n + 1] = x
      BY <1>1, <1>2, <2>3
    <3> QED BY <3>1 DEF Numbers
  <2> QED BY <2>1, <2>2, <2>3
<1>4. ASSUME Once(s, j), x # None /\ x[1] = j => x[2] \notin Numbers(s, j) PROVE Once(t, j)
  <2>1. ASSUME NEW i \in Held(s, j) PROVE s[i][2] \in Numbers(s, j)
    BY DEF Numbers
  <2>2. ASSUME NEW i \in Held(t, j), NEW k \in Held(t, j), t[i][2] = t[k][2], i = n + 1 PROVE k = n + 1
    <3> SUFFICES ASSUME k # n + 1 PROVE FALSE
      OBVIOUS
    <3>1. k \in Held(s, j) /\ t[k] = s[k] /\ t[i] = x /\ x # None /\ x[1] = j
      BY <1>1, <1>2, <2>2
    <3>2. s[k][2] \in Numbers(s, j) /\ s[k][2] = x[2]
      BY <2>1, <2>2, <3>1
    <3> QED BY <1>4, <3>1, <3>2
  <2> SUFFICES ASSUME NEW i \in Held(t, j), NEW k \in Held(t, j), t[i][2] = t[k][2] PROVE i = k
    BY DEF Once
  <2>3. CASE i = n + 1 \/ k = n + 1
    BY <2>2, <2>3
  <2>4. CASE i # n + 1 /\ k # n + 1
    <3>1. i \in Held(s, j) /\ k \in Held(s, j) /\ s[i][2] = s[k][2]
      BY <1>2, <2>4
    <3> QED BY <1>4, <3>1 DEF Once
  <2> QED BY <2>3, <2>4
<1> QED BY <1>3, <1>4 DEF Own

\* ... and when something is taken from it.
LEMMA NumbersOfTail ==
  ASSUME NEW E, NEW s \in Seq(E), NEW t, NEW x, TakenFrom(t, s, x), NEW j, Once(s, j)
  PROVE  /\ Numbers(t, j) = Numbers(s, j) \ Own(x, j)
         /\ Own(x, j) \subseteq Numbers(s, j)
         /\ Once(t, j)
<1> DEFINE n == Len(s)
<1>1. /\ n \in Nat \ {0} /\ DOMAIN s = 1 .. n /\ DOMAIN t = 1 .. n - 1 /\ s[1] = x
      /\ \A i \in 1 .. n - 1 : t[i] = s[i + 1]
  BY HeadTailProperties, LenProperties, EmptySeq DEF TakenFrom
<1> HIDE DEF n
<1>2. /\ \A i \in Held(t, j) : i \in 1 .. n - 1 /\ i + 1 \in Held(s, j) /\ t[i] = s[i + 1]
      /\ \A i \in Held(s, j) : i = 1 \/ (i - 1 \in Held(t, j) /\ t[i - 1] = s[i] /\ i \in 2 .. n)
      /\ 1 \in Held(s, j) <=> x # None /\ x[1] = j
  <2>1. ASSUME NEW i \in Held(t, j)
        PROVE  i \in 1 .. n - 1 /\ i + 1 \in Held(s, j) /\ t[i] = s[i + 1]
    <3>1. i \in 1 .. n - 1 /\ i + 1 \in 1 .. n
      BY <1>1 DEF Held
    <3> QED BY <1>1, <3>1 DEF Held
  <2>2. ASSUME NEW i \in Held(s, j), i # 1
        PROVE  i - 1 \in Held(t, j) /\ t[i - 1] = s[i] /\ i \in 2 .. n
    <3>1. i \in 2 .. n /\ i - 1 \in 1 .. n - 1 /\ (i - 1) + 1 = i
      BY <1>1, <2>2 DEF Held
    <3>2. t[i - 1] = s[i]
      BY <1>1, <3>1
    <3> QED BY <1>1, <3>1, <3>2 DEF Held
  <2>3. 1 \in Held(s, j) <=> x # None /\ x[1] = j
    BY <1>1 DEF Held
  <2> QED BY <2>1, <2>2, <2>3
<1>3. Once(t, j)
  <2> SUFFICES ASSUME NEW i \in Held(t, j), NEW k \in Held(t, j), t[i][2] = t[k][2] PROVE i = k
    BY DEF Once
  <2>1. /\ i + 1 \in Held(s, j) /\ t[i] = s[i + 1] /\ i \in Int
        /\ k + 1 \in Held(s, j) /\ t[k] = s[k + 1] /\ k \in Int
    BY <1>1, <1>2
  <2>2. s[i + 1][2] = s[k + 1][2]
    BY <2>1
  <2>3. i + 1 = k + 1
    BY <2>1, <2>2 DEF Once
  <2> QED BY <2>1, <2>3
<1>4. x # None /\ x[1] = j => x[2] \in Numbers(s, j)
  BY <1>1, <1>2 DEF Numbers
<1>5. ASSUME NEW m \in Numbers(t, j) PROVE m \in Numbers(s, j) /\ (x # None /\ x[1] = j => m # x[2])
  <2>1. PICK i \in Held(t, j) : m = t[i][2]
    BY DEF Numbers
  <2>2. i + 1 \in Held(s, j) /\ m = s[i + 1][2] /\ i + 1 # 1
    <3>1. i \in 1 .. n - 1 /\ i + 1 \in Held(s, j) /\ t[i] = s[i + 1]
      BY <1>2
    <3>2. i + 1 # 1
      BY <1>1, <3>1
    <3>3. m = s[i + 1][2]
      BY <2>1, <3>1
    <3> QED BY <3>1, <3>2, <3>3
  <2>3. x # None /\ x[1] = j => s[i + 1][2] # s[1][2]
    BY <1>2, <2>2 DEF Once
  <2> QED BY <1>1, <2>2, <2>3 DEF Numbers
<1>6. ASSUME NEW m \in Numbers(s, j), ~(x # None /\ x[1] = j /\ m = x[2]) PROVE m \in Numbers(t, j)
  <2>1. PICK i \in Held(s, j) : m = s[i][2]
    BY DEF Numbers
  <2>2. i # 1
    BY <1>1, <1>2, <1>6, <2>1
  <2> QED BY <1>2, <2>1, <2>2 DEF Numbers
<1> QED BY <1>3, <1>4, <1>5, <1>6 DEF Own

\* The tasks of j with workers when w gets one, ...
LEMMA NumbersGiven ==
  ASSUME NEW f, NEW w \in Workers, f[w] = None, NEW x, NEW g, Given(g, f, w, x), NEW j
  PROVE  /\ Numbers(g, j) = Numbers(f, j) \cup Own(x, j)
         /\ Once(f, j) /\ Own(x, j) \cap Numbers(f, j) = {} => Once(g, j)
<1>1. DOMAIN f = Workers /\ DOMAIN g = Workers /\ g[w] = x /\ \A v \in Workers \ {w} : g[v] = f[v]
  BY DEF Given
<1>2. /\ \A v \in Held(f, j) : v \in Held(g, j) /\ g[v] = f[v] /\ v # w
      /\ \A v \in Held(g, j) : v = w \/ (v \in Held(f, j) /\ g[v] = f[v])
      /\ w \in Held(g, j) <=> x # None /\ x[1] = j
  BY <1>1 DEF Held
<1>3. Numbers(g, j) = Numbers(f, j) \cup (IF x # None /\ x[1] = j THEN {x[2]} ELSE {})
  <2>1. ASSUME NEW m \in Numbers(f, j) PROVE m \in Numbers(g, j)
    <3>1. PICK i \in Held(f, j) : m = f[i][2]
      BY DEF Numbers
    <3>2. i \in Held(g, j) /\ m = g[i][2]
      BY <1>2, <3>1
    <3> QED BY <3>2 DEF Numbers
  <2>2. ASSUME NEW m \in Numbers(g, j) PROVE m \in Numbers(f, j) \/ (x # None /\ x[1] = j /\ m = x[2])
    <3>1. PICK i \in Held(g, j) : m = g[i][2]
      BY DEF Numbers
    <3>2. CASE i = w
      BY <1>1, <1>2, <3>1, <3>2
    <3>3. CASE i # w
      <4>1. i \in Held(f, j) /\ m = f[i][2]
        BY <1>2, <3>1, <3>3
      <4> QED BY <4>1 DEF Numbers
    <3> QED BY <3>2, <3>3
  <2>3. ASSUME x # None, x[1] = j PROVE x[2] \in Numbers(g, j)
    <3>1. w \in Held(g, j) /\ g[w] = x
      BY <1>1, <1>2, <2>3
    <3> QED BY <3>1 DEF Numbers
  <2> QED BY <2>1, <2>2, <2>3
<1>4. ASSUME Once(f, j), x # None /\ x[1] = j => x[2] \notin Numbers(f, j) PROVE Once(g, j)
  <2>1. ASSUME NEW i \in Held(f, j) PROVE f[i][2] \in Numbers(f, j)
    BY DEF Numbers
  <2>2. ASSUME NEW i \in Held(g, j), NEW k \in Held(g, j), g[i][2] = g[k][2], i = w PROVE k = w
    <3> SUFFICES ASSUME k # w PROVE FALSE
      OBVIOUS
    <3>1. k \in Held(f, j) /\ g[k] = f[k] /\ g[i] = x /\ x # None /\ x[1] = j
      BY <1>1, <1>2, <2>2
    <3>2. f[k][2] \in Numbers(f, j) /\ f[k][2] = x[2]
      BY <2>1, <2>2, <3>1
    <3> QED BY <1>4, <3>1, <3>2
  <2> SUFFICES ASSUME NEW i \in Held(g, j), NEW k \in Held(g, j), g[i][2] = g[k][2] PROVE i = k
    BY DEF Once
  <2>3. CASE i = w \/ k = w
    BY <2>2, <2>3
  <2>4. CASE i # w /\ k # w
    <3>1. i \in Held(f, j) /\ k \in Held(f, j) /\ f[i][2] = f[k][2]
      BY <1>2, <2>4
    <3> QED BY <1>4, <3>1 DEF Once
  <2> QED BY <2>3, <2>4
<1> QED BY <1>3, <1>4 DEF Own

\* ... and when it has none any more.
LEMMA NumbersSent ==
  ASSUME NEW f, NEW w \in Workers, NEW x, f[w] = x, NEW g, Given(g, f, w, None), NEW j, Once(f, j)
  PROVE  /\ Numbers(g, j) = Numbers(f, j) \ Own(x, j)
         /\ Own(x, j) \subseteq Numbers(f, j)
         /\ Once(g, j)
<1>1. DOMAIN f = Workers /\ DOMAIN g = Workers /\ g[w] = None
      /\ \A v \in Workers \ {w} : g[v] = f[v]
  BY DEF Given
<1>2. /\ \A v \in Held(g, j) : v \in Held(f, j) /\ g[v] = f[v] /\ v # w
      /\ \A v \in Held(f, j) : v = w \/ (v \in Held(g, j) /\ g[v] = f[v])
      /\ w \in Held(f, j) <=> x # None /\ x[1] = j
  BY <1>1 DEF Held
<1>3. Once(g, j)
  BY <1>2 DEF Once
<1>4. x # None /\ x[1] = j => x[2] \in Numbers(f, j)
  BY <1>2 DEF Numbers
<1>5. ASSUME NEW m \in Numbers(g, j) PROVE m \in Numbers(f, j) /\ (x # None /\ x[1] = j => m # x[2])
  <2>1. PICK i \in Held(g, j) : m = g[i][2]
    BY DEF Numbers
  <2>2. i \in Held(f, j) /\ m = f[i][2] /\ i # w
    BY <1>2, <2>1
  <2>3. x # None /\ x[1] = j => f[i][2] # f[w][2]
    BY <1>2, <2>2 DEF Once
  <2> QED BY <2>2, <2>3 DEF Numbers
<1>6. ASSUME NEW m \in Numbers(f, j), ~(x # None /\ x[1] = j /\ m = x[2]) PROVE m \in Numbers(g, j)
  <2>1. PICK i \in Held(f, j) : m = f[i][2]
    BY DEF Numbers
  <2> QED BY <1>2, <1>6, <2>1 DEF Numbers
<1> QED BY <1>3, <1>4, <1>5, <1>6 DEF Own

\* As many places as numbers.
LEMMA NumbersCounted ==
  ASSUME NEW items, NEW j, Once(items, j), IsFiniteSet(DOMAIN items)
  PROVE  /\ IsFiniteSet(Numbers(items, j)) /\ Cardinality(Numbers(items, j)) \in Nat
         /\ Cardinality(Held(items, j)) = Cardinality(Numbers(items, j))
<1> DEFINE f == [x \in Held(items, j) |-> items[x][2]]
<1>1. IsFiniteSet(Held(items, j))
  <2>1. Held(items, j) \subseteq DOMAIN items
    BY DEF Held
  <2> QED BY <2>1, FS_Subset
<1>2. f \in Bijection(Held(items, j), Numbers(items, j))
  BY DEF Once, Numbers, Bijection, Injection, Surjection, IsInjective
<1>3. ExistsBijection(Held(items, j), Numbers(items, j))
  BY <1>2 DEF ExistsBijection
<1> QED BY <1>1, <1>3, FS_Bijection, FS_CardinalityType

-------------------------------------------------------------------------------
\* The sets of states are sets of records wherever they are used.
USE DEF JobStates, WorkerStates, TaskHandlerStates, ResultHandlerStates

\* No more tasks of a job are put than it has.
LEMMA BegunBounds == ASSUME IInv, NEW j \in Jobs PROVE Begun(j) \in 0 .. Length
  BY Constants DEF IInv, PoolTypeOK, Queued, Begun, Entries

\* There is a first result missing.
LEMMA FirstMissing ==
  ASSUME NEW a \in Nat, NEW b \in Nat, a <= b, NEW E, b \notin E
  PROVE  \E n \in a .. b : n \notin E /\ (a .. n - 1) \subseteq E
<1> DEFINE T == {n \in a .. b : n \notin E}
           R == OpToRel(<, Nat)
<1>1. T \subseteq Nat /\ b \in T
  OBVIOUS
<1> HIDE DEF R
<1>2. PICK n \in T : \A m \in T : <<m, n>> \notin R
  <2>1. IsWellFoundedOn(R, Nat)
    BY NatLessThanWellFounded DEF R
  <2> HIDE DEF T
  <2> QED BY <1>1, <2>1, WFMin
<1>3. \A m \in T : ~(m < n)
  <2> SUFFICES ASSUME NEW m \in T, m < n PROVE FALSE
    OBVIOUS
  <2>1. m \in Nat /\ n \in Nat
    OBVIOUS
  <2>2. <<m, n>> \in R
    BY <2>1 DEF R, OpToRel
  <2> QED BY <1>2, <2>2
<1>4. (a .. n - 1) \subseteq E
  BY <1>3
<1> QED BY <1>4

\* What a result does to the job it belongs to, and to no other.
LEMMA SetEffect ==
  ASSUME IInv, NEW m \in Results, m[2] \in Live(m[1]), Set(m)
  PROVE  /\ job' \in [Jobs -> JobStates]
         /\ cache' \subseteq cache /\ cache \ {m[1]} \subseteq cache'
         /\ \A j \in Jobs : job'[j].asked = job[j].asked
         /\ \A j \in Jobs \ {m[1]} : job'[j] = job[j]
         /\ m[1] \notin cache => UNCHANGED objects
         /\ m[1] \in cache \cap Maps =>
              /\ m[1] \in cache' => job'[m[1]].left = job[m[1]].left - 1
              /\ job'[m[1]].index = job[m[1]].index /\ job'[m[1]].unsorted = job[m[1]].unsorted
         /\ m[1] \in cache \cap IMaps =>
              \E n \in job[m[1]].index .. Length :
                LET early == job[m[1]].unsorted \cup {m[2]} IN
                  /\ n \notin early /\ (job[m[1]].index .. n - 1) \subseteq early
                  /\ job'[m[1]].index = n /\ job'[m[1]].unsorted = early \ (0 .. n - 1)
<1> DEFINE j == m[1]
           i == m[2]
           k == job[j].index
           early == job[j].unsorted \cup {i}
<1>1. /\ j \in Jobs /\ i \in Nat /\ m[3] \in BOOLEAN /\ cache \subseteq Jobs
      /\ job \in [Jobs -> JobStates]
  BY DEF Results, IInv, PoolTypeOK
<1>2. CASE j \notin cache
  BY <1>1, <1>2 DEF Set, objects
<1>3. CASE j \in cache \cap Maps
  <2>1. SetMap(j, m[3]) /\ j \notin IMaps
    BY <1>3, Constants DEF Set
  <2> HIDE DEF j
  <2>2. /\ job' = [job EXCEPT ![j].left = IF m[3] THEN @ - 1 ELSE @, ![j].failed = ~m[3]]
        /\ cache' = IF m[3] /\ job[j].left > 1 THEN cache ELSE cache \ {j}
    BY <2>1 DEF SetMap
  <2> DEFINE s == job[j]
             n == IF m[3] THEN s.left - 1 ELSE s.left
             r == [s EXCEPT !.left = n, !.failed = ~m[3]]
  <2>3. s \in JobStates /\ s = job[j]
    BY <1>1 DEF j
  <2>4. job' = [job EXCEPT ![j] = r]
    BY <1>1, <2>2
  <2> HIDE DEF s
  <2>5. n \in Int /\ (m[3] => n = s.left - 1)
    BY <2>3
  <2> HIDE DEF n
  <2>6. /\ r \in JobStates
        /\ r.asked = s.asked /\ r.left = n /\ r.index = s.index /\ r.unsorted = s.unsorted
    BY <1>1, <2>3, <2>5
  <2> HIDE DEF r
  <2>7. /\ job' \in [Jobs -> JobStates]
        /\ job'[j] = r /\ \A o \in Jobs \ {j} : job'[o] = job[o]
    BY <1>1, <2>4, <2>6 DEF j
  <2>8. j \in cache' => m[3]
    BY <2>2
  <2>9. cache' \subseteq cache /\ cache \ {j} \subseteq cache'
    BY <2>2
  <2> QED BY <1>3, <2>1, <2>3, <2>5, <2>6, <2>7, <2>8, <2>9 DEF j
<1>4. CASE j \in cache /\ j \notin Maps
  <2>1. j \in IMaps /\ SetIMap(j, i)
    BY <1>1, <1>4 DEF Set, Jobs
  <2>2. /\ k \in Nat /\ k <= Length /\ Length \notin early /\ Length \in Nat
    <3>1. /\ k \in Nat /\ job[j].unsorted \subseteq k .. Begun(j) - 1 /\ k <= Begun(j)
          /\ i \in 0 .. Begun(j) - 1
      BY <1>1 DEF IInv, Put, Sorted
    <3>2. Begun(j) \in 0 .. Length
      BY <1>1, BegunBounds
    <3> QED BY <3>1, <3>2, Constants
  <2> DEFINE n == CHOOSE n \in k .. Length : n \notin early /\ (k .. n - 1) \subseteq early
  <2>3. n \in k .. Length /\ n \notin early /\ (k .. n - 1) \subseteq early
    <3> HIDE DEF early, k
    <3>1. \E x \in k .. Length : x \notin early /\ (k .. x - 1) \subseteq early
      BY <2>2, FirstMissing
    <3> QED BY <3>1
  <2>4. /\ job' = [job EXCEPT ![j].index = n, ![j].unsorted = early \ (0 .. n - 1)]
        /\ cache' = IF n = job[j].length THEN cache \ {j} ELSE cache
    BY <2>1 DEF SetIMap
  <2> HIDE DEF n
  <2> DEFINE s == job[j]
             u == early \ (0 .. n - 1)
             r == [s EXCEPT !.index = n, !.unsorted = u]
  <2>5. s \in JobStates
    BY <1>1
  <2>6. job' = [job EXCEPT ![j] = r]
    BY <1>1, <2>4
  <2>7. n \in Nat /\ u \in SUBSET Nat
    BY <1>1, <2>2, <2>3, <2>5
  <2> HIDE DEF s, u
  <2>8. /\ r \in JobStates
        /\ r.asked = s.asked /\ r.index = n /\ r.unsorted = u
    BY <2>5, <2>7
  <2> HIDE DEF r
  <2>9. /\ job' \in [Jobs -> JobStates]
        /\ job'[j] = r /\ \A o \in Jobs \ {j} : job'[o] = job[o]
    BY <1>1, <2>6, <2>8
  <2>10. cache' \subseteq cache /\ cache \ {j} \subseteq cache'
    BY <2>4
  <2> QED BY <1>4, <2>3, <2>8, <2>9, <2>10 DEF s, u
<1> QED BY <1>1, <1>2, <1>3, <1>4

\* What is at the head of the pipe of results, and of the pipe of tasks.
LEMMA HeadsLive ==
  ASSUME IInv
  PROVE  /\ outq # <<>> => /\ Head(outq) \in Results \cup {None}
                           /\ Head(outq) # None => Head(outq)[2] \in Live(Head(outq)[1])
         /\ inq # <<>> => Head(inq) \in Tasks \cup {None}
<1>1. inq # <<>> => Head(inq) \in Tasks \cup {None}
  BY HeadTailProperties DEF IInv, PoolTypeOK
<1>2. ASSUME outq # <<>>
      PROVE  /\ Head(outq) \in Results \cup {None}
             /\ Head(outq) # None => Head(outq)[2] \in Live(Head(outq)[1])
  <2> DEFINE x == Head(outq)
  <2>1. outq \in Seq(Results \cup {None}) /\ x \in Results \cup {None}
    BY <1>2, HeadTailProperties DEF IInv, PoolTypeOK
  <2>2. ASSUME x # None PROVE x[2] \in Live(x[1])
    <3>1. x[1] \in Jobs
      BY <2>1, <2>2 DEF Results
    <3>2. Once(outq, x[1])
      BY <3>1 DEF IInv, Apart
    <3>3. x[2] \in Numbers(outq, x[1])
      <4>1. TakenFrom(Tail(outq), outq, x)
        BY <1>2 DEF TakenFrom
      <4>2. Own(x, x[1]) \subseteq Numbers(outq, x[1])
        BY <2>1, <3>2, <4>1, NumbersOfTail
      <4> QED BY <2>2, <4>2 DEF Own
    <3> QED BY <3>3 DEF Live
  <2> QED BY <2>1, <2>2
<1> QED BY <1>1, <1>2

\* What the result handler does with a result.
LEMMA ResultTaken ==
  ASSUME IInv, ResultGet \/ ResultMore
  PROVE  /\ outq # <<>> /\ outq' = Tail(outq)
         /\ UNCHANGED <<taskq, inq, rlock, wlock, worker, handlers, wh, th, main>>
         /\ \/ UNCHANGED objects /\ (Head(outq) = None \/ Terminating)
            \/ /\ Head(outq) \in Results /\ Head(outq)[2] \in Live(Head(outq)[1])
               /\ Set(Head(outq))
         /\ rh' \in ResultHandlerStates
         /\ rh'.at = "drain" => Terminating
         /\ rh'.at # "exited" /\ (rh'.at # "get" => main # "run")
<1>1. rh \in ResultHandlerStates
  BY DEF IInv, PoolTypeOK
<1>2. handlers.rh = "TERMINATE" => Terminating /\ main # "run"
  BY DEF IInv, Stopped, Terminating
<1>3. outq # <<>> /\ Head(outq) = None => main # "run"
  <2> SUFFICES ASSUME outq # <<>>, Head(outq) = None PROVE None \in Range(outq)
    BY DEF IInv, Stopped
  <2>1. outq \in Seq(Results \cup {None})
    BY DEF IInv, PoolTypeOK
  <2>2. Len(outq) \in Nat \ {0} /\ DOMAIN outq = 1 .. Len(outq) /\ outq[1] = Head(outq)
    BY <2>1, HeadTailProperties, LenProperties, EmptySeq
  <2> QED BY <2>2 DEF Range
<1>4. CASE ResultGet
  <2>1. /\ outq # <<>> /\ outq' = Tail(outq) /\ rh.at = "get"
        /\ UNCHANGED <<taskq, inq, rlock, wlock, worker, handlers, wh, th, main>>
    BY <1>4 DEF ResultGet
  <2>2. CASE handlers.rh = "TERMINATE" \/ Head(outq) = None
    <3>1. /\ rh' = [rh EXCEPT !.at = IF handlers.rh = "TERMINATE" THEN "drain" ELSE "rest"]
          /\ UNCHANGED objects
      BY <1>4, <2>2 DEF ResultGet
    <3> QED BY <1>1, <1>2, <1>3, <2>1, <2>2, <3>1
  <2>3. CASE ~(handlers.rh = "TERMINATE" \/ Head(outq) = None)
    <3>1. Set(Head(outq)) /\ UNCHANGED rh
      BY <1>4, <2>3 DEF ResultGet
    <3> QED BY <1>1, <2>1, <2>3, <3>1, HeadsLive
  <2> QED BY <2>2, <2>3
<1>5. CASE ResultMore
  <2>1. /\ outq # <<>> /\ outq' = Tail(outq) /\ rh.at = "more"
        /\ rh' = [rh EXCEPT !.at = "rest"]
        /\ UNCHANGED <<taskq, inq, rlock, wlock, worker, handlers, wh, th, main>>
        /\ IF Head(outq) = None THEN UNCHANGED objects ELSE Set(Head(outq))
    BY <1>5 DEF ResultMore
  <2>2. main # "run"
    BY <2>1 DEF IInv, Stopped
  <2> QED BY <1>1, <2>1, <2>2, HeadsLive
<1> QED BY <1>4, <1>5

-------------------------------------------------------------------------------
\* A pipe from which something may have been taken.
LEMMA TailTyped ==
  ASSUME NEW E, NEW s \in Seq(E), NEW t, t = s \/ (s # <<>> /\ t = Tail(s))
  PROVE  t \in Seq(E)
<1>1. CASE t = s
  BY <1>1
<1>2. CASE s # <<>> /\ t = Tail(s)
  BY <1>2, HeadTailProperties
<1> QED BY <1>1, <1>2

\* The result of a task.
LEMMA ResultOf ==
  ASSUME NEW o \in Jobs, NEW n \in Nat, NEW b \in BOOLEAN
  PROVE  Append(<<o, n>>, b) = <<o, n, b>> /\ <<o, n, b>> \in Results
<1> DEFINE E == Jobs \cup Nat \cup BOOLEAN
           s == <<o, n>>
           x == Append(s, b)
           y == <<o, n, b>>
<1>1. s \in Seq(E) /\ b \in E /\ Len(s) = 2 /\ s[1] = o /\ s[2] = n
  OBVIOUS
<1>2. y \in Seq(E) /\ Len(y) = 3 /\ y[1] = o /\ y[2] = n /\ y[3] = b
  OBVIOUS
<1> HIDE DEF s, y, E
<1>3. x \in Seq(E) /\ Len(x) = 3 /\ x[1] = o /\ x[2] = n /\ x[3] = b
  <2>1. /\ x \in Seq(E) /\ Len(x) = Len(s) + 1
        /\ \A i \in 1 .. Len(s) : x[i] = s[i]
        /\ x[Len(s) + 1] = b
    <3>1. s \in Seq(E) /\ b \in E /\ x = Append(s, b)
      BY <1>1
    <3> HIDE DEF x
    <3> QED BY <3>1, AppendProperties
  <2> HIDE DEF x
  <2> QED BY <1>1, <2>1
<1> HIDE DEF x
<1>4. x = y
  BY <1>2, <1>3, SeqEqual
<1> QED BY <1>4 DEF x, y, s, Results

\* A worker that goes on to a state of its own changes what is with workers at its place only.
LEMMA WorkerStep ==
  ASSUME PoolTypeOK, WorkerHolds, NEW w \in Workers, NEW r \in WorkerStates,
         r.item # None <=> r.at \in {"put", "send"}, worker' = [worker EXCEPT ![w] = r]
  PROVE  /\ worker' \in [Workers -> WorkerStates] /\ WorkerHolds'
         /\ Items' = [Items EXCEPT ![w] = r.item]
         /\ DOMAIN Items = Workers /\ Items[w] = worker[w].item
<1>1. worker \in [Workers -> WorkerStates]
  BY DEF PoolTypeOK
<1>2. /\ worker' \in [Workers -> WorkerStates]
      /\ worker'[w] = r /\ \A v \in Workers \ {w} : worker'[v] = worker[v]
  BY <1>1
<1>3. WorkerHolds'
  BY <1>2 DEF WorkerHolds
<1>4. \A v \in Workers : worker'[v].item = IF v = w THEN r.item ELSE worker[v].item
  BY <1>2
<1> QED BY <1>2, <1>3, <1>4 DEF Items

\* What the steps of a worker change.
LEMMA WorkerSteps ==
  ASSUME IInv, NEW w \in Workers, Work(w)
  PROVE  \E r \in WorkerStates :
           /\ r.item # None <=> r.at \in {"put", "send"}
           /\ worker' = [worker EXCEPT ![w] = r]
           /\ WorkerGet(w) \/ WorkerLock(w) => r.item = worker[w].item
           /\ WorkerReceive(w) =>
                /\ worker[w].item = None /\ inq # <<>> /\ Head(inq) \in Tasks \cup {None}
                /\ IF Head(inq) = None THEN r.item = None
                   ELSE r.item # None /\ r.item[1] = Head(inq)[1] /\ r.item[2] = Head(inq)[2]
           /\ WorkerSend(w) => worker[w].item \in Results /\ r.item = None
<1> DEFINE s == worker[w]
<1>1. /\ s \in WorkerStates /\ s.item # None <=> s.at \in {"put", "send"}
      /\ worker \in [Workers -> WorkerStates] /\ s = worker[w]
  BY DEF IInv, PoolTypeOK, WorkerHolds
<1> HIDE DEF s
<1>2. CASE WorkerGet(w) \/ WorkerLock(w)
  <2> DEFINE a == IF s.at = "get" THEN "receive" ELSE "send"
             r == [s EXCEPT !.at = a]
  <2>1. worker' = [worker EXCEPT ![w] = r] /\ s.at \in {"get", "put"}
    BY <1>1, <1>2 DEF WorkerGet, WorkerLock
  <2>2. r \in WorkerStates /\ r.item = s.item /\ r.at = a /\ a \in {"receive", "send"}
    BY <1>1
  <2>3. r.item # None <=> r.at \in {"put", "send"}
    BY <1>1, <2>1, <2>2
  <2>4. ~WorkerReceive(w) /\ ~WorkerSend(w)
    BY <1>1, <2>1 DEF WorkerReceive, WorkerSend
  <2> HIDE DEF r
  <2> QED BY <1>1, <2>1, <2>2, <2>3, <2>4
<1>3. CASE WorkerReceive(w)
  <2>1. /\ s.at = "receive" /\ s.item = None /\ inq # <<>> /\ Head(inq) \in Tasks \cup {None}
    BY <1>1, <1>3, HeadsLive DEF WorkerReceive
  <2>2. ~WorkerGet(w) /\ ~WorkerLock(w) /\ ~WorkerSend(w)
    BY <1>1, <2>1 DEF WorkerGet, WorkerLock, WorkerSend
  <2>3. CASE Head(inq) = None
    <3> DEFINE r == [New EXCEPT !.at = "exited"]
    <3>1. r \in WorkerStates /\ r.item = None /\ r.at = "exited"
      BY DEF New
    <3>2. worker' = [worker EXCEPT ![w] = r]
      BY <1>3, <2>3 DEF WorkerReceive
    <3> HIDE DEF r
    <3> QED BY <1>1, <2>1, <2>2, <2>3, <3>1, <3>2
  <2>4. CASE Head(inq) # None
    <3>1. PICK b \in BOOLEAN :
            worker' = [worker EXCEPT ![w].at = "put", ![w].item = Append(Head(inq), b)]
      BY <1>3, <2>4 DEF WorkerReceive
    <3> DEFINE x == Append(Head(inq), b)
               r == [s EXCEPT !.at = "put", !.item = x]
    <3>2. x \in Results /\ x # None /\ x[1] = Head(inq)[1] /\ x[2] = Head(inq)[2]
      <4>1. PICK o \in Jobs, n \in Nat : Head(inq) = <<o, n>>
        BY <2>1, <2>4 DEF Tasks
      <4>2. x = <<o, n, b>>
        BY <4>1, ResultOf
      <4>3. x \in Results
        BY <4>2, ResultOf
      <4>4. x # None
        BY <4>3, Constants
      <4> HIDE DEF x
      <4> QED BY <4>1, <4>2, <4>3, <4>4
    <3>3. worker' = [worker EXCEPT ![w] = r]
      BY <1>1, <3>1
    <3> HIDE DEF x
    <3>4. r \in WorkerStates /\ r.item = x /\ r.at = "put"
      BY <1>1, <3>2
    <3> HIDE DEF r
    <3> QED BY <1>1, <2>1, <2>2, <2>4, <3>2, <3>3, <3>4
  <2> QED BY <2>3, <2>4
<1>4. CASE WorkerSend(w)
  <2>1. s.at = "send" /\ s.item \in Results
    BY <1>1, <1>4 DEF WorkerSend
  <2>2. ~WorkerGet(w) /\ ~WorkerLock(w) /\ ~WorkerReceive(w)
    BY <1>1, <2>1 DEF WorkerGet, WorkerLock, WorkerReceive
  <2> DEFINE r == IF s.completed + 1 = MaxTasks THEN [New EXCEPT !.at = "exited"]
                  ELSE [New EXCEPT !.completed = s.completed + 1]
  <2>3. worker' = [worker EXCEPT ![w] = r]
    BY <1>1, <1>4 DEF WorkerSend
  <2>4. r \in WorkerStates /\ r.item = None /\ r.at \in {"exited", "get"}
    BY <1>1 DEF New
  <2> HIDE DEF r
  <2> QED BY <1>1, <2>1, <2>2, <2>3, <2>4
<1> QED BY <1>2, <1>3, <1>4 DEF Work

\* The variables keep their types, and workers hold what they work at.
LEMMA TypeKept == ASSUME IInv, Next PROVE PoolTypeOK' /\ WorkerHolds'
<1> USE DEF objects, pipes, threads
<1>1. PoolTypeOK /\ WorkerHolds
  BY DEF IInv
<1>2. ASSUME NEW j \in Jobs, Submit(j) PROVE PoolTypeOK' /\ WorkerHolds'
  <2>1. taskq' \in Seq(Entries) /\ cache' \subseteq Jobs
    BY <1>1, <1>2, AppendProperties DEF PoolTypeOK, Entries, Submit
  <2> DEFINE s == job[j]
             r == [s EXCEPT !.asked = TRUE]
  <2>2. s \in JobStates /\ job' = [job EXCEPT ![j] = r] /\ job \in [Jobs -> JobStates]
    BY <1>1, <1>2 DEF PoolTypeOK, Submit
  <2> HIDE DEF s
  <2>3. r \in JobStates
    BY <2>2
  <2> HIDE DEF r
  <2>4. job' \in [Jobs -> JobStates]
    BY <2>2, <2>3
  <2> QED BY ZenonT(60), <1>1, <1>2, <2>1, <2>4 DEF PoolTypeOK, WorkerHolds, Submit
<1>3. CASE Close \/ Terminate \/ JoinReturn \/ TerminateLock \/ TerminateSentinel \/ TerminateReturn
  BY ZenonT(60), <1>1, <1>3 DEF PoolTypeOK, WorkerHolds, Close, Terminate, JoinReturn, TerminateLock,
     TerminateSentinel, TerminateReturn, LockOut
<1>4. CASE TerminateHelp
  <2>1. inq' \in Seq(Tasks \cup {None})
    <3>1. inq' = inq \/ (inq # <<>> /\ inq' = Tail(inq))
      BY <1>4 DEF TerminateHelp
    <3>2. inq \in Seq(Tasks \cup {None})
      BY <1>1 DEF PoolTypeOK
    <3> QED BY <3>1, <3>2, TailTyped
  <2>2. handlers' \in [wh : {"RUN", "CLOSE", "TERMINATE"}, th : {"RUN", "TERMINATE"},
                       rh : {"RUN", "TERMINATE"}]
    BY <1>1, <1>4 DEF PoolTypeOK, TerminateHelp
  <2> QED BY <1>1, <1>4, <2>1, <2>2 DEF PoolTypeOK, WorkerHolds, TerminateHelp
<1>5. CASE TerminateTell
  BY <1>1, <1>5, AppendProperties DEF PoolTypeOK, WorkerHolds, TerminateTell, SendOut
<1>6. CASE TerminateKill
  BY <1>1, <1>6 DEF PoolTypeOK, WorkerHolds, TerminateKill, Over, New
<1>7. CASE Maintain
  BY <1>1, <1>7 DEF PoolTypeOK, WorkerHolds, Maintain, New
<1>8. CASE WorkerHandlerEnd
  BY ZenonT(60), <1>1, <1>8, AppendProperties DEF PoolTypeOK, WorkerHolds, WorkerHandlerEnd, Entries
<1>9. CASE TaskGet
  <2>1. taskq' \in Seq(Entries) /\ Head(taskq) \in Entries
    BY <1>1, <1>9, HeadTailProperties DEF PoolTypeOK, TaskGet
  <2>2. th' \in TaskHandlerStates
    BY <1>9, <2>1 DEF TaskGet
  <2> QED BY <1>1, <1>9, <2>1, <2>2 DEF PoolTypeOK, WorkerHolds, TaskGet
<1>10. CASE TaskNext \/ TaskEndLock
  <2>1. th' \in TaskHandlerStates
    BY <1>1, <1>10 DEF PoolTypeOK, TaskNext, TaskEndLock
  <2> QED BY <1>1, <1>10, <2>1 DEF PoolTypeOK, WorkerHolds, TaskNext, TaskEndLock, LockOut
<1>11. CASE TaskPut
  <2>1. th.job \in Jobs /\ th \in TaskHandlerStates
    BY <1>1, <1>11 DEF IInv, Queued, TaskPut, PoolTypeOK
  <2>2. inq' \in Seq(Tasks \cup {None})
    BY <1>1, <1>11, <2>1, AppendProperties DEF PoolTypeOK, TaskPut, Tasks
  <2> DEFINE n == th.put + 1
             r == [th EXCEPT !.at = "next", !.put = n]
  <2>3. n \in Nat /\ th' = r
    BY <1>11, <2>1 DEF TaskPut
  <2> HIDE DEF n
  <2>4. th' \in TaskHandlerStates
    BY <2>1, <2>3
  <2> HIDE DEF r
  <2> QED BY <1>1, <1>11, <2>2, <2>4 DEF PoolTypeOK, WorkerHolds, TaskPut
<1>12. CASE TaskLength
  <2>1. th' \in TaskHandlerStates
    BY <1>12 DEF TaskLength, Entries
  <2>2. cache' \subseteq Jobs
    BY <1>1, <1>12 DEF PoolTypeOK, TaskLength
  <2>3. job' \in [Jobs -> JobStates]
    <3>1. CASE th.job \notin IMaps
      BY <1>1, <1>12, <3>1 DEF PoolTypeOK, TaskLength
    <3>2. CASE th.job \in IMaps
      <4> DEFINE o == th.job
      <4>1. o \in Jobs /\ job' = [job EXCEPT ![o].length = Length] /\ job \in [Jobs -> JobStates]
        BY <1>1, <1>12, <3>2 DEF PoolTypeOK, TaskLength, Jobs
      <4> HIDE DEF o
      <4> DEFINE s == job[o]
                 r == [s EXCEPT !.length = Length]
      <4>2. s \in JobStates /\ job' = [job EXCEPT ![o] = r]
        BY <4>1
      <4> HIDE DEF s
      <4>3. r \in JobStates
        BY <4>2
      <4> HIDE DEF r
      <4> QED BY <4>1, <4>2, <4>3
    <3> QED BY <3>1, <3>2
  <2> QED BY <1>1, <1>12, <2>1, <2>2, <2>3 DEF PoolTypeOK, WorkerHolds, TaskLength
<1>13. CASE TaskEndSend
  <2>1. th' \in TaskHandlerStates
    BY <1>1, <1>13 DEF PoolTypeOK, TaskEndSend, Entries
  <2>2. outq' \in Seq(Results \cup {None})
    BY <1>1, <1>13, AppendProperties DEF PoolTypeOK, TaskEndSend, SendOut
  <2> QED BY <1>1, <1>13, <2>1, <2>2 DEF PoolTypeOK, WorkerHolds, TaskEndSend
<1>14. CASE TaskStop
  <2>1. th' \in TaskHandlerStates
    <3> DEFINE n == th.put + 1
               a == IF n = Cardinality(Workers) THEN "exited" ELSE "stop"
    <3>1. n \in Nat /\ th' = [th EXCEPT !.put = n, !.at = a] /\ th \in TaskHandlerStates
      BY <1>1, <1>14 DEF PoolTypeOK, TaskStop
    <3>2. a \in {"exited", "stop"}
      OBVIOUS
    <3> HIDE DEF n, a
    <3> QED BY <3>1, <3>2
  <2>2. inq' \in Seq(Tasks \cup {None})
    BY <1>1, <1>14, AppendProperties DEF PoolTypeOK, TaskStop
  <2> QED BY <1>1, <1>14, <2>1, <2>2 DEF PoolTypeOK, WorkerHolds, TaskStop
<1>15. ASSUME NEW w \in Workers, Work(w) PROVE PoolTypeOK' /\ WorkerHolds'
  <2>1. worker' \in [Workers -> WorkerStates] /\ WorkerHolds'
    BY <1>1, <1>15, WorkerSteps, WorkerStep
  <2>2. UNCHANGED <<taskq, cache, job, handlers, wh, th, rh, main>>
    BY <1>15 DEF Work, WorkerGet, WorkerReceive, WorkerLock, WorkerSend
  <2>3. inq' \in Seq(Tasks \cup {None})
    <3>1. inq' = inq \/ (inq # <<>> /\ inq' = Tail(inq))
      BY <1>15 DEF Work, WorkerGet, WorkerReceive, WorkerLock, WorkerSend
    <3>2. inq \in Seq(Tasks \cup {None})
      BY <1>1 DEF PoolTypeOK
    <3> QED BY <3>1, <3>2, TailTyped
  <2>4. outq' \in Seq(Results \cup {None})
    <3>1. CASE WorkerSend(w)
      <4>1. worker[w].item \in Results \cup {None} /\ outq' = Append(outq, worker[w].item)
        BY <1>1, <3>1 DEF PoolTypeOK, WorkerSend, SendOut
      <4> HIDE DEF WorkerSend
      <4> QED BY <1>1, <4>1, AppendProperties DEF PoolTypeOK
    <3>2. CASE ~WorkerSend(w)
      BY <1>1, <1>15, <3>2 DEF PoolTypeOK, Work, WorkerGet, WorkerReceive, WorkerLock
    <3> QED BY <3>1, <3>2
  <2> QED BY <1>1, <2>1, <2>2, <2>3, <2>4 DEF PoolTypeOK
<1>16. CASE ResultGet \/ ResultMore
  <2>1. /\ job' \in [Jobs -> JobStates]
        /\ cache' \subseteq Jobs
    <3>1. UNCHANGED objects \/ (Head(outq) \in Results /\ Head(outq)[2] \in Live(Head(outq)[1])
                               /\ Set(Head(outq)))
      BY <1>16, ResultTaken
    <3>2. CASE UNCHANGED objects
      BY <1>1, <3>2 DEF PoolTypeOK
    <3>3. CASE ~UNCHANGED objects
      <4>1. job' \in [Jobs -> JobStates] /\ cache' \subseteq cache
        BY <3>1, <3>3, SetEffect
      <4> QED BY <1>1, <4>1 DEF PoolTypeOK
    <3> QED BY <3>2, <3>3
  <2>2. outq' \in Seq(Results \cup {None})
    <3>1. outq # <<>> /\ outq' = Tail(outq)
      BY <1>16, ResultTaken
    <3>2. outq \in Seq(Results \cup {None})
      BY <1>1 DEF PoolTypeOK
    <3> QED BY <3>1, <3>2, TailTyped
  <2>3. /\ UNCHANGED <<taskq, inq, worker, handlers, wh, th>> /\ rh' \in ResultHandlerStates
    BY <1>16, ResultTaken
  <2> QED BY <1>1, <2>1, <2>2, <2>3 DEF PoolTypeOK, WorkerHolds
<1>17. CASE ResultRest
  BY <1>1, <1>17 DEF PoolTypeOK, WorkerHolds, ResultRest
<1>18. CASE ResultDrain
  <2>1. rh' \in ResultHandlerStates
    <3>1. rh \in ResultHandlerStates
      BY <1>1 DEF PoolTypeOK
    <3>2. CASE outq = <<>> \/ rh.drain = 0
      BY <1>18, <3>2 DEF ResultDrain
    <3>3. CASE ~(outq = <<>> \/ rh.drain = 0)
      <4>1. rh' = [rh EXCEPT !.drain = @ - 1] /\ rh.drain - 1 \in Nat
        BY <1>18, <3>1, <3>3 DEF ResultDrain
      <4> QED BY <3>1, <4>1
    <3> QED BY <3>2, <3>3
  <2>2. outq' \in Seq(Results \cup {None})
    <3>1. outq' = outq \/ (outq # <<>> /\ outq' = Tail(outq))
      BY <1>18 DEF ResultDrain
    <3>2. outq \in Seq(Results \cup {None})
      BY <1>1 DEF PoolTypeOK
    <3> QED BY <3>1, <3>2, TailTyped
  <2> QED BY <1>1, <1>18, <2>1, <2>2 DEF PoolTypeOK, WorkerHolds, ResultDrain
<1> QED BY <1>2, <1>3, <1>4, <1>5, <1>6, <1>7, <1>8, <1>9, <1>10, <1>11, <1>12, <1>13, <1>14,
          <1>15, <1>16, <1>17, <1>18
       DEF Next, WorkerHandler, TaskHandle, ResultHandler, Stopping

\* What is in a sequence when something is appended or taken.
LEMMA RangeChanges ==
  ASSUME NEW E, NEW s \in Seq(E)
  PROVE  /\ \A x \in E : Range(Append(s, x)) = Range(s) \cup {x}
         /\ s # <<>> => /\ Range(s) = Range(Tail(s)) \cup {Head(s)} /\ Head(s) \in E
                        /\ Range(Tail(s)) \subseteq Range(s)
<1> DEFINE n == Len(s)
<1>1. n \in Nat /\ DOMAIN s = 1 .. n
  BY LenProperties
<1>2. ASSUME NEW x \in E PROVE Range(Append(s, x)) = Range(s) \cup {x}
  <2> DEFINE t == Append(s, x)
  <2>1. DOMAIN t = 1 .. n + 1 /\ t[n + 1] = x /\ \A i \in 1 .. n : t[i] = s[i]
    BY <1>1, AppendProperties, LenProperties
  <2> HIDE DEF t, n
  <2>2. 1 .. n + 1 = (1 .. n) \cup {n + 1}
    BY <1>1
  <2> QED BY <1>1, <2>1, <2>2 DEF Range, t
<1>3. ASSUME s # <<>>
      PROVE /\ Range(s) = Range(Tail(s)) \cup {Head(s)} /\ Head(s) \in E
            /\ Range(Tail(s)) \subseteq Range(s)
  <2> DEFINE t == Tail(s)
             h == Head(s)
  <2>1. /\ n \in Nat \ {0} /\ DOMAIN t = 1 .. n - 1 /\ s[1] = h /\ h \in E
        /\ \A i \in 1 .. n - 1 : t[i] = s[i + 1]
    BY <1>1, <1>3, HeadTailProperties, LenProperties, EmptySeq
  <2> HIDE DEF t, n, h
  <2>2. ASSUME NEW y \in Range(s) PROVE y \in Range(t) \cup {h}
    <3>1. PICK i \in 1 .. n : y = s[i]
      BY <1>1 DEF Range
    <3>2. CASE i = 1
      BY <2>1, <3>1, <3>2
    <3>3. CASE i # 1
      <4>1. i - 1 \in 1 .. n - 1 /\ (i - 1) + 1 = i
        BY <1>1, <3>3
      <4>2. t[i - 1] = y
        BY <2>1, <3>1, <4>1
      <4> QED BY <2>1, <4>1, <4>2 DEF Range
    <3> QED BY <3>2, <3>3
  <2>3. ASSUME NEW y \in Range(t) PROVE y \in Range(s)
    <3>1. PICK i \in 1 .. n - 1 : y = t[i]
      BY <2>1 DEF Range
    <3>2. i + 1 \in 1 .. n
      BY <1>1
    <3>3. s[i + 1] = y
      BY <2>1, <3>1
    <3> QED BY <1>1, <3>2, <3>3 DEF Range
  <2>4. h \in Range(s)
    BY <1>1, <2>1 DEF Range
  <2> QED BY <2>1, <2>2, <2>3, <2>4 DEF t, h
<1> QED BY <1>2, <1>3

\* The handlers are stopped in order at every step.
LEMMA StoppedKept == ASSUME IInv, Next PROVE Stopped'
<1> USE DEF Stopped, Terminating, objects, pipes, threads
<1>1. PoolTypeOK /\ Stopped /\ WorkerHolds
  BY DEF IInv
<1>2. ASSUME NEW j \in Jobs, Submit(j) PROVE Stopped'
  <2>1. None \notin Range(taskq') \/ None \in Range(taskq)
    <3>1. taskq \in Seq(Entries) /\ taskq' = Append(taskq, j) /\ j \in Entries /\ j # None
      BY <1>1, <1>2, Constants DEF PoolTypeOK, Submit, Entries
    <3> QED BY <3>1, RangeChanges
  <2> QED BY <1>1, <1>2, <2>1 DEF Submit
<1>3. CASE Close \/ Terminate
  BY <1>1, <1>3 DEF Close, Terminate, PoolTypeOK
<1>4. CASE JoinReturn \/ TerminateLock \/ TerminateSentinel \/ TerminateKill \/ TerminateReturn
  BY <1>1, <1>4 DEF JoinReturn, TerminateLock, TerminateSentinel, TerminateKill, TerminateReturn,
     LockOut
<1>5. CASE TerminateHelp
  BY <1>1, <1>5 DEF TerminateHelp, PoolTypeOK
<1>6. CASE TerminateTell
  BY <1>1, <1>6 DEF TerminateTell
<1>7. CASE Maintain
  BY <1>1, <1>7 DEF Maintain
<1>8. CASE WorkerHandlerEnd
  BY <1>1, <1>8 DEF WorkerHandlerEnd, Needed
<1>9. CASE TaskGet
  <2>1. taskq \in Seq(Entries) /\ taskq # <<>> /\ taskq' = Tail(taskq)
    BY <1>1, <1>9 DEF PoolTypeOK, TaskGet
  <2>2. Range(taskq') \subseteq Range(taskq) /\ Head(taskq) \in Range(taskq)
    BY <2>1, RangeChanges
  <2>3. th'.at = IF Head(taskq) = None THEN "end" ELSE "next"
    BY <1>9 DEF TaskGet
  <2> QED BY <1>1, <1>9, <2>2, <2>3 DEF TaskGet
<1>10. CASE TaskNext \/ TaskPut \/ TaskEndLock \/ TaskEndSend \/ TaskStop
  <2>1. UNCHANGED <<taskq, cache, wh, rh, main, handlers>>
    BY <1>10 DEF TaskNext, TaskPut, TaskEndLock, TaskEndSend, TaskStop
  <2>2. main = "run" => th'.at \in {"put", "next"} /\ UNCHANGED outq
    BY <1>1, <1>10 DEF TaskNext, TaskPut, TaskEndLock, TaskEndSend, TaskStop, PoolTypeOK
  <2> QED BY <1>1, <2>1, <2>2
<1>11. CASE TaskLength
  <2>1. UNCHANGED <<taskq, outq, wh, rh, main, handlers>> /\ th'.at = "get" /\ cache' \subseteq cache
    BY <1>11 DEF TaskLength
  <2> QED BY <1>1, <2>1
<1>12. ASSUME NEW w \in Workers, Work(w) PROVE Stopped'
  <2>1. UNCHANGED <<taskq, cache, wh, rh, th, main, handlers>>
    BY <1>12 DEF Work, WorkerGet, WorkerReceive, WorkerLock, WorkerSend
  <2>2. None \in Range(outq') => None \in Range(outq)
    <3>1. CASE WorkerSend(w)
      <4>1. /\ outq \in Seq(Results \cup {None}) /\ outq' = Append(outq, worker[w].item)
            /\ worker[w].item \in Results
        <5>1. worker[w].item \in Results
          BY <1>12, <3>1, WorkerSteps
        <5> QED BY <1>1, <3>1, <5>1 DEF PoolTypeOK, WorkerSend, SendOut
      <4> QED BY <4>1, RangeChanges, Constants
    <3>2. CASE ~WorkerSend(w)
      BY <1>12, <3>2 DEF Work, WorkerGet, WorkerReceive, WorkerLock
    <3> QED BY <3>1, <3>2
  <2> QED BY <1>1, <2>1, <2>2
<1>13. CASE ResultGet \/ ResultMore
  <2>1. /\ outq \in Seq(Results \cup {None}) /\ outq # <<>> /\ outq' = Tail(outq)
        /\ UNCHANGED <<taskq, handlers, wh, th, main>>
        /\ rh'.at = "drain" => Terminating
        /\ rh'.at # "exited" /\ (rh'.at # "get" => main # "run")
    BY <1>1, <1>13, ResultTaken DEF PoolTypeOK
  <2>2. Range(outq') \subseteq Range(outq)
    BY <2>1, RangeChanges
  <2> QED BY <1>1, <2>1, <2>2
<1>14. CASE ResultRest
  BY <1>1, <1>14 DEF ResultRest, PoolTypeOK
<1>15. CASE ResultDrain
  <2>1. UNCHANGED <<taskq, cache, handlers, wh, th, main>> /\ rh.at = "drain"
    BY <1>15 DEF ResultDrain
  <2> QED BY <1>1, <2>1
<1> QED BY <1>2, <1>3, <1>4, <1>5, <1>6, <1>7, <1>8, <1>9, <1>10, <1>11, <1>12, <1>13, <1>14, <1>15
       DEF Next, WorkerHandler, TaskHandle, ResultHandler, Stopping

\* Jobs are queued once at every step.
LEMMA QueuedKept == ASSUME IInv, Next PROVE Queued'
<1> USE DEF Terminating, objects, pipes, threads
<1>1. PoolTypeOK /\ Stopped /\ Queued
  BY DEF IInv
<1>2. ASSUME NEW j \in Jobs, Submit(j) PROVE Queued'
  <2>1. taskq \in Seq(Entries) /\ taskq' = Append(taskq, j) /\ j \in Entries /\ j # None
    BY <1>1, <1>2, Constants DEF PoolTypeOK, Submit, Entries
  <2>2. j \notin Range(taskq) /\ j \notin cache /\ th.job # j
    BY <1>1, <1>2 DEF Queued, Submit
  <2>3. Range(taskq') = Range(taskq) \cup {j}
    BY <2>1, RangeChanges
  <2>4. ASSUME NEW i \in DOMAIN taskq', NEW k \in DOMAIN taskq', taskq'[i] = taskq'[k], taskq'[i] # None
        PROVE  i = k
    <3> DEFINE n == Len(taskq)
    <3>1. /\ n \in Nat /\ DOMAIN taskq = 1 .. n /\ DOMAIN taskq' = 1 .. n + 1
          /\ taskq'[n + 1] = j /\ \A l \in 1 .. n : taskq'[l] = taskq[l]
      BY <2>1, AppendProperties, LenProperties
    <3> HIDE DEF n
    <3>2. \A l \in 1 .. n : taskq[l] # j
      BY <2>2, <3>1 DEF Range
    <3>3. i \in 1 .. n \/ i = n + 1
      BY <3>1
    <3>4. k \in 1 .. n \/ k = n + 1
      BY <3>1
    <3> QED BY <1>1, <2>4, <3>1, <3>2, <3>3, <3>4 DEF Queued
  <2>5. job \in [Jobs -> JobStates] /\ job' = [job EXCEPT ![j].asked = TRUE]
    BY <1>1, <1>2 DEF PoolTypeOK, Submit
  <2>6. /\ \A o \in Jobs \ {j} : job'[o] = job[o]
        /\ job'[j].asked
    BY <2>5
  <2>7. UNCHANGED <<th, handlers>> /\ cache' = cache \cup {j}
    BY <1>2 DEF Submit
  <2>8. \A o \in Jobs : o \in Range(taskq') => job'[o].asked /\ th'.job # o
    BY <1>1, <2>2, <2>3, <2>6, <2>7 DEF Queued
  <2>9. \A o \in Jobs : /\ th'.job = o \/ o \in cache' => job'[o].asked
                        /\ ~job'[o].asked => job'[o].left = Length /\ job'[o].index = 0
                                              /\ job'[o].unsorted = {}
    BY <1>1, <2>6, <2>7 DEF Queued
  <2>10. cache' \subseteq Jobs
    BY <1>1, <2>7 DEF PoolTypeOK
  <2> QED BY <1>1, <2>4, <2>7, <2>8, <2>9, <2>10 DEF Queued
<1>3. CASE Close \/ Terminate
  <2>1. UNCHANGED <<taskq, cache, job, th>> /\ (Terminating => Terminating')
    BY <1>1, <1>3 DEF Close, Terminate, PoolTypeOK, Stopped
  <2> QED BY <1>1, <2>1 DEF Queued
<1>4. CASE JoinReturn \/ TerminateLock \/ TerminateSentinel \/ TerminateKill \/ TerminateReturn
  BY <1>1, <1>4 DEF JoinReturn, TerminateLock, TerminateSentinel, TerminateKill, TerminateReturn,
     LockOut, Queued
<1>5. CASE TerminateHelp
  BY <1>1, <1>5 DEF TerminateHelp, PoolTypeOK, Queued
<1>6. CASE TerminateTell
  BY <1>1, <1>6 DEF TerminateTell, Queued
<1>7. CASE Maintain
  BY <1>1, <1>7 DEF Maintain, Queued
<1>8. CASE WorkerHandlerEnd
  <2>1. /\ taskq \in Seq(Entries) /\ taskq' = Append(taskq, None) /\ None \in Entries
        /\ UNCHANGED <<cache, job, th, handlers>>
    BY <1>1, <1>8 DEF PoolTypeOK, WorkerHandlerEnd, Entries
  <2>2. Range(taskq') = Range(taskq) \cup {None}
    BY <2>1, RangeChanges
  <2>3. ASSUME NEW i \in DOMAIN taskq', NEW k \in DOMAIN taskq', taskq'[i] = taskq'[k], taskq'[i] # None
        PROVE  i = k
    <3> DEFINE n == Len(taskq)
    <3>1. /\ n \in Nat /\ DOMAIN taskq = 1 .. n /\ DOMAIN taskq' = 1 .. n + 1
          /\ taskq'[n + 1] = None /\ \A l \in 1 .. n : taskq'[l] = taskq[l]
      BY <2>1, AppendProperties, LenProperties
    <3> HIDE DEF n
    <3>2. i \in 1 .. n /\ k \in 1 .. n
      BY <2>3, <3>1
    <3> QED BY <1>1, <2>3, <3>1, <3>2 DEF Queued
  <2> QED BY <1>1, <2>1, <2>2, <2>3, Constants DEF Queued
<1>9. CASE TaskGet
  <2> DEFINE h == Head(taskq)
  <2>1. /\ taskq \in Seq(Entries) /\ taskq # <<>> /\ taskq' = Tail(taskq)
        /\ th' = [at |-> IF h = None THEN "end" ELSE "next", job |-> h, put |-> 0]
        /\ UNCHANGED <<cache, job, handlers>>
    BY <1>1, <1>9 DEF PoolTypeOK, TaskGet
  <2>2. Range(taskq') \subseteq Range(taskq) /\ h \in Range(taskq) /\ h \in Entries
    BY <2>1, RangeChanges
  <2> DEFINE n == Len(taskq)
  <2>3. /\ n \in Nat \ {0} /\ DOMAIN taskq = 1 .. n /\ DOMAIN taskq' = 1 .. n - 1 /\ taskq[1] = h
        /\ \A l \in 1 .. n - 1 : taskq'[l] = taskq[l + 1]
    BY <2>1, HeadTailProperties, LenProperties, EmptySeq
  <2> HIDE DEF n, h
  <2>4. ASSUME NEW i \in DOMAIN taskq', NEW k \in DOMAIN taskq', taskq'[i] = taskq'[k], taskq'[i] # None
        PROVE  i = k
    <3>1. /\ i + 1 \in DOMAIN taskq /\ k + 1 \in DOMAIN taskq /\ i \in Int /\ k \in Int
          /\ taskq'[i] = taskq[i + 1] /\ taskq'[k] = taskq[k + 1]
      BY <2>3
    <3>2. i + 1 = k + 1
      BY <1>1, <2>4, <3>1 DEF Queued
    <3> QED BY <3>1, <3>2
  <2>5. h # None => h \notin Range(taskq')
    <3> SUFFICES ASSUME h # None, h \in Range(taskq') PROVE FALSE
      OBVIOUS
    <3>1. PICK i \in DOMAIN taskq' : taskq'[i] = h
      BY DEF Range
    <3>2. i + 1 \in DOMAIN taskq /\ taskq[i + 1] = h /\ 1 \in DOMAIN taskq /\ i + 1 # 1
      BY <2>3, <3>1
    <3> QED BY <1>1, <2>3, <3>2 DEF Queued
  <2>6. th'.job = h /\ th'.put = 0 /\ th'.at = IF h = None THEN "end" ELSE "next"
    BY <2>1
  <2>7. h # None => h \in Jobs
    BY <2>2 DEF Entries
  <2> QED BY <1>1, <2>1, <2>2, <2>4, <2>5, <2>6, <2>7, Constants DEF Queued
<1>10. CASE TaskNext \/ TaskPut \/ TaskEndLock \/ TaskEndSend \/ TaskStop
  <2>1. UNCHANGED <<taskq, cache, job, handlers>>
    BY <1>10 DEF TaskNext, TaskPut, TaskEndLock, TaskEndSend, TaskStop
  <2>2. th \in TaskHandlerStates /\ Length \in Nat
    BY <1>1, Constants DEF PoolTypeOK
  <2>3. /\ th'.job = th.job \/ th'.job = None
        /\ th'.at \in {"next", "put"} => th'.job \in Jobs /\ th'.put <= Length
        /\ th'.at = "put" => th'.put < Length
        /\ th'.job \in Jobs => th'.at \in {"next", "put"} \/ (Terminating /\ th'.at \in {"end", "tell"})
        /\ th'.job \in Jobs => th'.put <= Length
    <3>1. CASE TaskNext
      BY <1>1, <2>2, <3>1 DEF TaskNext, Queued, Stopped, PoolTypeOK
    <3>2. CASE TaskPut
      <4> DEFINE n == th.put + 1
      <4>1. th' = [th EXCEPT !.at = "next", !.put = n] /\ n \in Nat /\ n <= Length /\ th.job \in Jobs
        BY <1>1, <2>2, <3>2 DEF TaskPut, Queued
      <4> HIDE DEF n
      <4>2. th'.at = "next" /\ th'.put = n /\ th'.job = th.job
        BY <2>2, <4>1
      <4> QED BY <4>1, <4>2
    <3>3. CASE TaskEndLock
      BY <1>1, <2>2, <3>3, Constants DEF TaskEndLock, Queued
    <3>4. CASE TaskEndSend
      <4>1. th'.at = "stop" /\ th'.job = None
        BY <2>2, <3>4 DEF TaskEndSend
      <4> QED BY <4>1, Constants
    <3>5. CASE TaskStop
      <4>1. th'.at \in {"stop", "exited"} /\ th'.job = th.job /\ th.at = "stop"
        BY <2>2, <3>5 DEF TaskStop
      <4>2. th.job \notin Jobs
        BY <1>1, <4>1 DEF Queued
      <4> QED BY <4>1, <4>2
    <3> QED BY <1>10, <3>1, <3>2, <3>3, <3>4, <3>5
  <2> QED BY <1>1, <2>1, <2>3, Constants DEF Queued
<1>11. CASE TaskLength
  <2>1. /\ UNCHANGED <<taskq, handlers>> /\ th'.at = "get" /\ th'.job = None /\ cache' \subseteq cache
    BY <1>11 DEF TaskLength
  <2>2. \A j \in Jobs : /\ job'[j].asked = job[j].asked /\ job'[j].left = job[j].left
                        /\ job'[j].index = job[j].index /\ job'[j].unsorted = job[j].unsorted
    <3>1. job \in [Jobs -> JobStates]
      BY <1>1 DEF PoolTypeOK
    <3>2. job' = job \/ job' = [job EXCEPT ![th.job].length = Length]
      BY <1>11 DEF TaskLength
    <3> QED BY <3>1, <3>2
  <2>3. \A j \in Jobs : /\ j \in Range(taskq') => job'[j].asked
                        /\ th'.job # j /\ (j \in cache' => job'[j].asked)
                        /\ ~job'[j].asked => job'[j].left = Length /\ job'[j].index = 0
                                              /\ job'[j].unsorted = {}
    BY <1>1, <2>1, <2>2, Constants DEF Queued
  <2>4. cache' \subseteq Jobs
    BY <1>1, <2>1 DEF PoolTypeOK
  <2>5. th'.at \notin {"next", "put"} /\ th'.job \notin Jobs
    BY <2>1, Constants
  <2> QED BY <1>1, <2>1, <2>3, <2>4, <2>5 DEF Queued
<1>12. ASSUME NEW w \in Workers, Work(w) PROVE Queued'
  <2>1. UNCHANGED <<taskq, cache, job, th, handlers>>
    BY <1>12 DEF Work, WorkerGet, WorkerReceive, WorkerLock, WorkerSend
  <2> QED BY <1>1, <2>1 DEF Queued
<1>13. CASE ResultGet \/ ResultMore
  <2>1. UNCHANGED <<taskq, th, handlers>>
    BY <1>13, ResultTaken
  <2>2. /\ \A j \in Jobs : job'[j].asked = job[j].asked
        /\ cache' \subseteq cache /\ cache \subseteq Jobs
        /\ \A j \in Jobs \ cache : job'[j] = job[j]
    <3>1. UNCHANGED objects \/ (/\ Head(outq) \in Results /\ Head(outq)[2] \in Live(Head(outq)[1])
                               /\ Set(Head(outq)))
      BY <1>13, ResultTaken
    <3>2. CASE UNCHANGED objects
      BY <1>1, <3>2 DEF PoolTypeOK
    <3>3. CASE ~UNCHANGED objects
      <4> DEFINE m == Head(outq)
      <4>1. m \in Results /\ m[2] \in Live(m[1]) /\ Set(m)
        BY <3>1, <3>3
      <4> HIDE DEF m
      <4>2. /\ \A j \in Jobs : job'[j].asked = job[j].asked
            /\ cache' \subseteq cache
            /\ \A j \in Jobs \ {m[1]} : job'[j] = job[j]
            /\ m[1] \notin cache => UNCHANGED objects
        BY <4>1, SetEffect
      <4> QED BY <1>1, <3>3, <4>2 DEF PoolTypeOK
    <3> QED BY <3>2, <3>3
  <2> QED BY <1>1, <2>1, <2>2 DEF Queued
<1>14. CASE ResultRest \/ ResultDrain
  <2>1. UNCHANGED <<taskq, cache, job, th, handlers>>
    BY <1>14 DEF ResultRest, ResultDrain
  <2> QED BY <1>1, <2>1 DEF Queued
<1> QED BY <1>2, <1>3, <1>4, <1>5, <1>6, <1>7, <1>8, <1>9, <1>10, <1>11, <1>12, <1>13, <1>14
       DEF Next, WorkerHandler, TaskHandle, ResultHandler, Stopping

\* No step but one of the task handler changes how many tasks of a job have been put; one that
\* stops it in the midst of a job does so when the pool is terminated only.
LEMMA BegunKept ==
  ASSUME IInv, Next, NEW j \in Jobs
  PROVE  /\ TaskPut => Begun(j)' = IF th.job = j THEN Begun(j) + 1 ELSE Begun(j)
         /\ TaskPut /\ th.job = j => Begun(j) = th.put
         /\ TaskEndSend => Begun(j)' \in Begun(j) .. Length /\ (Begun(j)' # Begun(j) => Terminating)
         /\ ~TaskPut /\ ~TaskEndSend => Begun(j)' = Begun(j)
<1> USE DEF objects, pipes, threads
<1>1. PoolTypeOK /\ Stopped /\ Queued
  BY DEF IInv
<1>2. Begun(j) \in 0 .. Length /\ Length \in Nat
  BY BegunBounds, Constants
<1>3. ASSUME UNCHANGED <<taskq, job, th>> PROVE Begun(j)' = Begun(j)
  BY <1>3 DEF Begun
<1>4. CASE TaskPut
  <2> DEFINE n == th.put + 1
  <2>1. UNCHANGED <<taskq, job>> /\ th' = [th EXCEPT !.at = "next", !.put = n] /\ th.at = "put"
    BY <1>4 DEF TaskPut
  <2>2. th \in TaskHandlerStates
    BY <1>1 DEF PoolTypeOK
  <2> HIDE DEF n
  <2>3. th'.job = th.job /\ th'.put = n
    BY <2>1, <2>2
  <2>4. CASE th.job = j
    <3>1. job[j].asked /\ j \notin Range(taskq)
      BY <1>1, <2>4 DEF Queued
    <3>2. Begun(j) = th.put
      BY <2>4, <3>1 DEF Begun
    <3>3. Begun(j)' = n
      BY <2>1, <2>3, <2>4, <3>1 DEF Begun
    <3>4. ~TaskEndSend
      BY <2>1 DEF TaskEndSend
    <3> QED BY <1>4, <2>4, <3>2, <3>3, <3>4 DEF n
  <2>5. CASE th.job # j
    <3>1. Begun(j)' = Begun(j)
      BY <2>1, <2>3, <2>5 DEF Begun
    <3>2. ~TaskEndSend
      BY <2>1 DEF TaskEndSend
    <3> QED BY <1>4, <2>5, <3>1, <3>2
  <2> QED BY <2>4, <2>5
<1>5. CASE TaskEndSend
  <2>1. UNCHANGED <<taskq, job>> /\ th.at = "tell" /\ th'.job = None /\ ~TaskPut
    BY <1>1, <1>5 DEF TaskEndSend, TaskPut, PoolTypeOK
  <2>2. None # j
    BY Constants
  <2>3. CASE th.job = j
    <3>1. Terminating
      BY <1>1, <2>1, <2>3 DEF Queued
    <3>2. Begun(j)' \in {Begun(j), Length}
      BY <1>1, <2>1, <2>2, <2>3 DEF Queued, Begun
    <3>3. Begun(j)' \in Begun(j) .. Length
      BY <1>2, <3>2
    <3> QED BY <1>5, <2>1, <3>1, <3>3
  <2>4. CASE th.job # j
    <3>1. Begun(j)' = Begun(j)
      BY <2>1, <2>2, <2>4 DEF Begun
    <3> QED BY <1>2, <1>5, <2>1, <3>1
  <2> QED BY <2>3, <2>4
<1>6. ASSUME ~TaskPut, ~TaskEndSend PROVE Begun(j)' = Begun(j)
  <2>1. ASSUME NEW o \in Jobs, Submit(o) PROVE Begun(j)' = Begun(j)
    <3>1. /\ taskq \in Seq(Entries) /\ o \in Entries /\ taskq' = Append(taskq, o) /\ UNCHANGED th
          /\ job' = [job EXCEPT ![o].asked = TRUE] /\ job \in [Jobs -> JobStates] /\ ~job[o].asked
      BY <1>1, <2>1 DEF Submit, PoolTypeOK, Entries
    <3>2. Range(taskq') = Range(taskq) \cup {o}
      BY <3>1, RangeChanges
    <3>3. job'[j].asked <=> job[j].asked \/ j = o
      BY <3>1
    <3> QED BY <3>1, <3>2, <3>3 DEF Begun
  <2>2. CASE Close \/ Terminate \/ JoinReturn \/ TerminateLock \/ TerminateHelp
             \/ TerminateSentinel \/ TerminateTell \/ TerminateKill \/ TerminateReturn
    BY <1>3, <2>2 DEF Close, Terminate, JoinReturn, TerminateLock, TerminateHelp,
       TerminateSentinel, TerminateTell, TerminateKill, TerminateReturn
  <2>3. CASE Maintain
    BY <1>3, <2>3 DEF Maintain
  <2>4. CASE WorkerHandlerEnd
    <3>1. /\ taskq \in Seq(Entries) /\ None \in Entries /\ taskq' = Append(taskq, None)
          /\ UNCHANGED <<th, job>>
      BY <1>1, <2>4 DEF WorkerHandlerEnd, PoolTypeOK, Entries
    <3>2. Range(taskq') = Range(taskq) \cup {None}
      BY <3>1, RangeChanges
    <3> QED BY <3>1, <3>2, Constants DEF Begun
  <2>5. CASE TaskGet
    <3>1. /\ taskq \in Seq(Entries) /\ taskq # <<>> /\ taskq' = Tail(taskq) /\ UNCHANGED job
          /\ th'.job = Head(taskq) /\ th'.put = 0 /\ th.at = "get"
      BY <1>1, <2>5 DEF TaskGet, PoolTypeOK
    <3>2. Range(taskq) = Range(taskq') \cup {Head(taskq)}
      BY <3>1, RangeChanges
    <3>3. Queued'
      BY QueuedKept
    <3>4. th.job # j /\ (th'.job = j => j \notin Range(taskq') /\ job'[j].asked)
      BY <1>1, <3>1, <3>3 DEF Queued
    <3> QED BY <3>1, <3>2, <3>4 DEF Begun
  <2>6. CASE TaskNext \/ TaskEndLock \/ TaskStop
    <3>1. UNCHANGED <<taskq, job>> /\ th'.job = th.job
      BY <1>1, <2>6 DEF TaskNext, TaskEndLock, TaskStop, PoolTypeOK
    <3>2. th.job = j => th'.put = th.put
      <4>1. CASE TaskStop
        BY <1>1, <4>1 DEF TaskStop, Queued
      <4>2. CASE TaskNext \/ TaskEndLock
        BY <1>1, <4>2 DEF TaskNext, TaskEndLock, PoolTypeOK
      <4> QED BY <2>6, <4>1, <4>2
    <3> QED BY <3>1, <3>2 DEF Begun
  <2>7. CASE TaskLength
    <3>1. UNCHANGED taskq /\ th'.job = None /\ th.put = Length
      BY <2>7 DEF TaskLength
    <3>2. job'[j].asked = job[j].asked
      <4>1. job \in [Jobs -> JobStates]
        BY <1>1 DEF PoolTypeOK
      <4>2. job' = job \/ job' = [job EXCEPT ![th.job].length = Length]
        BY <2>7 DEF TaskLength
      <4> QED BY <4>1, <4>2
    <3> QED BY <3>1, <3>2, Constants DEF Begun
  <2>8. ASSUME NEW w \in Workers, Work(w) PROVE Begun(j)' = Begun(j)
    BY <1>3, <2>8 DEF Work, WorkerGet, WorkerReceive, WorkerLock, WorkerSend
  <2>9. CASE ResultGet \/ ResultMore
    <3>1. UNCHANGED <<taskq, th>>
      BY <2>9, ResultTaken
    <3>2. job'[j].asked = job[j].asked
      <4>1. UNCHANGED objects \/ (/\ Head(outq) \in Results /\ Head(outq)[2] \in Live(Head(outq)[1])
                                 /\ Set(Head(outq)))
        BY <2>9, ResultTaken
      <4> HIDE DEF objects
      <4>2. CASE UNCHANGED objects
        BY <4>2 DEF objects
      <4>3. CASE ~UNCHANGED objects
        BY <4>1, <4>3, SetEffect
      <4> QED BY <4>2, <4>3
    <3> QED BY <3>1, <3>2 DEF Begun
  <2>10. CASE ResultRest \/ ResultDrain
    BY <1>3, <2>10 DEF ResultRest, ResultDrain
  <2> QED BY <1>6, <2>1, <2>2, <2>3, <2>4, <2>5, <2>6, <2>7, <2>8, <2>9, <2>10
          DEF Next, WorkerHandler, TaskHandle, ResultHandler, Stopping
<1> QED BY <1>4, <1>5, <1>6

\* Pipes and workers that nothing was put into or taken from.
LEMMA NothingMoved ==
  ASSUME IInv, NEW j \in Jobs, UNCHANGED <<inq, outq, Items>>
  PROVE  Apart(j)' /\ Live(j)' = Live(j)
<1>1. Apart(j)
  BY DEF IInv
<1> QED BY <1>1 DEF Apart, Live

\* A sentinel is no task.
LEMMA SentinelPut ==
  ASSUME IInv, NEW j \in Jobs, UNCHANGED Items,
         \/ inq' = Append(inq, None) /\ UNCHANGED outq
         \/ outq' = Append(outq, None) /\ UNCHANGED inq
  PROVE  Apart(j)' /\ Live(j)' = Live(j)
<1>1. Apart(j) /\ Once(inq, j) /\ Once(outq, j)
      /\ inq \in Seq(Tasks \cup {None}) /\ outq \in Seq(Results \cup {None})
  BY DEF IInv, PoolTypeOK, Apart
<1> DEFINE x == None
<1>2. Own(x, j) = {}
  BY DEF Own
<1>5. Own(x, j) \cap Numbers(inq, j) = {} /\ Own(x, j) \cap Numbers(outq, j) = {}
  BY <1>2
<1>3. CASE inq' = Append(inq, None) /\ UNCHANGED outq
  <2>1. PutIn(inq', inq, x)
    BY <1>3 DEF PutIn
  <2> HIDE DEF x
  <2>2. Numbers(inq', j) = Numbers(inq, j) \cup Own(x, j) /\ Once(inq', j)
    BY <1>1, <1>5, <2>1, NumbersAppended
  <2> QED BY <1>1, <1>2, <1>3, <2>2 DEF Apart, Live
<1>4. CASE outq' = Append(outq, None) /\ UNCHANGED inq
  <2>1. PutIn(outq', outq, x)
    BY <1>4 DEF PutIn
  <2> HIDE DEF x
  <2>2. Numbers(outq', j) = Numbers(outq, j) \cup Own(x, j) /\ Once(outq', j)
    BY <1>1, <1>5, <2>1, NumbersAppended
  <2> QED BY <1>1, <1>2, <1>4, <2>2 DEF Apart, Live
<1> QED BY <1>3, <1>4

\* The task that is put is a new one.
LEMMA TaskMoved ==
  ASSUME IInv, TaskPut, NEW j \in Jobs
  PROVE  /\ Apart(j)'
         /\ Live(j)' = Live(j) \cup (IF th.job = j THEN {th.put} ELSE {})
<1>1. /\ Apart(j) /\ Put(j) /\ inq \in Seq(Tasks \cup {None}) /\ th.job \in Jobs /\ th.put \in Nat
      /\ inq' = Append(inq, <<th.job, th.put>>) /\ UNCHANGED <<outq, worker>>
  BY DEF IInv, PoolTypeOK, Queued, TaskPut
<1> DEFINE x == <<th.job, th.put>>
<1>2. x \in Tasks /\ x \in Tasks \cup {None} /\ x # None /\ PutIn(inq', inq, x)
  BY <1>1, Constants DEF Tasks, PutIn
<1>3. Own(x, j) = IF th.job = j THEN {th.put} ELSE {}
  BY <1>2 DEF Own
<1> HIDE DEF x
<1>4. Own(x, j) \cap Live(j) = {}
  <2> SUFFICES ASSUME th.job = j, th.put \in Live(j) PROVE FALSE
    BY <1>3
  <2>1. Begun(j) = th.put
    <3>1. job[j].asked /\ j \notin Range(taskq)
      BY DEF IInv, Queued
    <3> QED BY <3>1 DEF Begun
  <2> QED BY <1>1, <2>1 DEF Put
<1>5. Numbers(inq', j) = Numbers(inq, j) \cup Own(x, j)
  BY <1>1, <1>2, NumbersAppended
<1>6. Once(inq', j)
  <2>1. Once(inq, j) /\ Own(x, j) \cap Numbers(inq, j) = {}
    BY <1>1, <1>4 DEF Apart, Live
  <2> QED BY <1>1, <1>2, <2>1, NumbersAppended
<1>7. Items' = Items
  BY <1>1 DEF Items
<1>8. Apart(j)' /\ Live(j)' = Live(j) \cup Own(x, j)
  BY <1>1, <1>4, <1>5, <1>6, <1>7 DEF Apart, Live
<1> QED BY <1>3, <1>8

\* A worker moves a task from one pipe to the other.
LEMMA WorkMoved ==
  ASSUME IInv, NEW w \in Workers, Work(w), NEW j \in Jobs
  PROVE  Apart(j)' /\ Live(j)' = Live(j)
<1>1. /\ PoolTypeOK /\ WorkerHolds
      /\ inq \in Seq(Tasks \cup {None}) /\ outq \in Seq(Results \cup {None})
      /\ Once(inq, j) /\ Once(outq, j) /\ Once(Items, j)
      /\ Numbers(inq, j) \cap Numbers(outq, j) = {}
      /\ Numbers(inq, j) \cap Numbers(Items, j) = {}
      /\ Numbers(outq, j) \cap Numbers(Items, j) = {}
  BY DEF IInv, PoolTypeOK, Apart
<1>2. PICK r \in WorkerStates :
        /\ r.item # None <=> r.at \in {"put", "send"}
        /\ worker' = [worker EXCEPT ![w] = r]
        /\ WorkerGet(w) \/ WorkerLock(w) => r.item = worker[w].item
        /\ WorkerReceive(w) =>
             /\ worker[w].item = None /\ inq # <<>> /\ Head(inq) \in Tasks \cup {None}
             /\ IF Head(inq) = None THEN r.item = None
                ELSE r.item # None /\ r.item[1] = Head(inq)[1] /\ r.item[2] = Head(inq)[2]
        /\ WorkerSend(w) => worker[w].item \in Results /\ r.item = None
  BY WorkerSteps
<1> DEFINE x == r.item
<1>3. Given(Items', Items, w, x) /\ Items[w] = worker[w].item
  BY <1>1, <1>2, WorkerStep DEF Given
<1>4. CASE WorkerGet(w) \/ WorkerLock(w)
  <2>1. Items' = Items
    <3>1. x = Items[w]
      BY <1>2, <1>3, <1>4
    <3> HIDE DEF x
    <3> QED BY <1>3, <3>1 DEF Items, Given
  <2>2. UNCHANGED <<inq, outq>>
    BY <1>4 DEF WorkerGet, WorkerLock
  <2> QED BY <2>1, <2>2, NothingMoved
<1>5. CASE WorkerReceive(w)
  <2> DEFINE h == Head(inq)
  <2>1. /\ TakenFrom(inq', inq, h) /\ UNCHANGED outq /\ Items[w] = None
        /\ IF h = None THEN x = None ELSE x # None /\ x[1] = h[1] /\ x[2] = h[2]
    BY <1>2, <1>3, <1>5 DEF WorkerReceive, TakenFrom
  <2> HIDE DEF x, h
  <2>2. Own(x, j) = Own(h, j)
    BY <2>1 DEF Own
  <2>3. /\ Numbers(inq', j) = Numbers(inq, j) \ Own(h, j) /\ Once(inq', j)
        /\ Own(h, j) \subseteq Numbers(inq, j)
    BY <1>1, <2>1, NumbersOfTail
  <2>4. Own(x, j) \cap Numbers(Items, j) = {}
    BY <1>1, <2>2, <2>3
  <2>5. Numbers(Items', j) = Numbers(Items, j) \cup Own(x, j) /\ Once(Items', j)
    BY <1>1, <1>3, <2>1, <2>4, NumbersGiven
  <2> QED BY <1>1, <2>1, <2>2, <2>3, <2>5 DEF Apart, Live
<1>6. CASE WorkerSend(w)
  <2> DEFINE y == worker[w].item
  <2>1. /\ PutIn(outq', outq, y) /\ UNCHANGED inq /\ y \in Results \cup {None}
        /\ Items[w] = y /\ Given(Items', Items, w, None)
    BY <1>2, <1>3, <1>6 DEF WorkerSend, SendOut, PutIn
  <2> HIDE DEF y
  <2>2. /\ Numbers(Items', j) = Numbers(Items, j) \ Own(y, j) /\ Once(Items', j)
        /\ Own(y, j) \subseteq Numbers(Items, j)
    BY <1>1, <2>1, NumbersSent
  <2>3. Own(y, j) \cap Numbers(outq, j) = {}
    BY <1>1, <2>2
  <2>4. Numbers(outq', j) = Numbers(outq, j) \cup Own(y, j) /\ Once(outq', j)
    BY <1>1, <2>1, <2>3, NumbersAppended
  <2> QED BY <1>1, <2>1, <2>2, <2>4 DEF Apart, Live
<1> QED BY <1>4, <1>5, <1>6 DEF Work

\* What is taken from the pipe of results is underway no more.
LEMMA ResultMoved ==
  ASSUME IInv, outq # <<>>, outq' = Tail(outq), UNCHANGED <<inq, worker>>, NEW j \in Jobs
  PROVE  /\ Apart(j)'
         /\ Live(j)' = Live(j) \ Own(Head(outq), j)
         /\ Own(Head(outq), j) \subseteq Live(j)
<1> DEFINE h == Head(outq)
<1>1. /\ Once(inq, j) /\ Once(outq, j) /\ Once(Items, j)
      /\ Numbers(inq, j) \cap Numbers(outq, j) = {}
      /\ Numbers(inq, j) \cap Numbers(Items, j) = {}
      /\ Numbers(outq, j) \cap Numbers(Items, j) = {}
      /\ outq \in Seq(Results \cup {None}) /\ TakenFrom(outq', outq, h)
  BY DEF IInv, Apart, PoolTypeOK, TakenFrom
<1> HIDE DEF h
<1>2. /\ Numbers(outq', j) = Numbers(outq, j) \ Own(h, j) /\ Once(outq', j)
      /\ Own(h, j) \subseteq Numbers(outq, j)
  BY <1>1, NumbersOfTail
<1>3. Items' = Items
  BY DEF Items
<1>4. Apart(j)' /\ Live(j)' = Live(j) \ Own(h, j) /\ Own(h, j) \subseteq Live(j)
  BY <1>1, <1>2, <1>3 DEF Apart, Live
<1> QED BY <1>4 DEF h

\* terminate() only takes tasks away.
LEMMA TasksDropped ==
  ASSUME IInv, TerminateHelp \/ TerminateKill, NEW j \in Jobs
  PROVE  Apart(j)' /\ Live(j)' \subseteq Live(j)
<1>1. /\ Once(inq, j) /\ Once(outq, j) /\ Once(Items, j)
      /\ Numbers(inq, j) \cap Numbers(outq, j) = {}
      /\ Numbers(inq, j) \cap Numbers(Items, j) = {}
      /\ Numbers(outq, j) \cap Numbers(Items, j) = {}
      /\ inq \in Seq(Tasks \cup {None})
  BY DEF IInv, Apart, PoolTypeOK
<1>2. CASE TerminateHelp
  <2>1. UNCHANGED <<outq, worker>> /\ (inq' = inq \/ (inq # <<>> /\ inq' = Tail(inq)))
    BY <1>2 DEF TerminateHelp
  <2>2. Items' = Items
    BY <2>1 DEF Items
  <2>3. CASE inq' = inq
    BY <2>1, <2>2, <2>3, NothingMoved
  <2>4. CASE inq # <<>> /\ inq' = Tail(inq)
    <3>1. TakenFrom(inq', inq, Head(inq))
      BY <2>4 DEF TakenFrom
    <3>2. Numbers(inq', j) = Numbers(inq, j) \ Own(Head(inq), j) /\ Once(inq', j)
      BY <1>1, <3>1, NumbersOfTail
    <3> QED BY <1>1, <2>1, <2>2, <3>2 DEF Apart, Live
  <2> QED BY <2>1, <2>3, <2>4
<1>3. CASE TerminateKill
  <2>1. /\ UNCHANGED <<inq, outq>>
        /\ worker' = [w \in Workers |-> IF Over(w) THEN worker[w] ELSE [New EXCEPT !.at = "killed"]]
    BY <1>3 DEF TerminateKill, pipes
  <2>2. \A w \in Workers : worker'[w].item = worker[w].item \/ worker'[w].item = None
    BY <2>1 DEF New
  <2>3. \A w \in Workers : Items'[w] = Items[w] \/ Items'[w] = None
    BY <2>2 DEF Items
  <2>4. DOMAIN Items = Workers /\ DOMAIN Items' = Workers
    BY DEF Items
  <2> DEFINE f == Items
             g == Items'
  <2>5. \A v \in Held(g, j) : v \in Held(f, j) /\ g[v] = f[v]
    BY <2>3, <2>4 DEF Held
  <2> HIDE DEF f, g
  <2>6. Numbers(g, j) \subseteq Numbers(f, j) /\ (Once(f, j) => Once(g, j))
    BY <2>5 DEF Numbers, Once
  <2>7. Numbers(Items', j) \subseteq Numbers(Items, j) /\ Once(Items', j)
    BY <1>1, <2>6 DEF f, g
  <2> QED BY <1>1, <2>1, <2>7 DEF Apart, Live
<1> QED BY <1>2, <1>3

-------------------------------------------------------------------------------
\* What is underway of a job is finite.
LEMMA LiveFinite ==
  ASSUME IInv, NEW j \in Jobs
  PROVE  IsFiniteSet(Live(j)) /\ Cardinality(Live(j)) \in Nat
<1>1. Begun(j) \in Nat /\ Live(j) \subseteq 0 .. Begun(j) - 1
  BY BegunBounds, Constants DEF IInv, Put
<1>2. IsFiniteSet(0 .. Begun(j) - 1)
  BY <1>1, FS_Interval
<1> QED BY <1>1, <1>2, FS_Subset, FS_CardinalityType

\* A step that neither moves a task nor counts a result; the job may be a new one.
LEMMA Steady ==
  ASSUME IInv, NEW j \in Jobs, Live(j)' = Live(j), Begun(j)' = Begun(j),
         job'[j].left = job[j].left, job'[j].index = job[j].index,
         job'[j].unsorted = job[j].unsorted, j \in cache' => j \in cache \/ ~job[j].asked,
         Terminating => Terminating'
  PROVE  Put(j)' /\ Sorted(j)' /\ (~Terminating' /\ j \in cache' => Accounted(j)')
<1>1. Put(j) /\ Sorted(j) /\ (~Terminating /\ j \in cache => Accounted(j)) /\ Queued
  BY DEF IInv
<1>2. Put(j)' /\ Sorted(j)'
  BY <1>1 DEF Put, Sorted
<1>3. ASSUME ~Terminating', j \in cache' PROVE Accounted(j)
  <2>1. CASE j \in cache
    BY <1>1, <1>3, <2>1
  <2>2. CASE ~job[j].asked
    <3>1. job[j].left = Length /\ job[j].index = 0 /\ job[j].unsorted = {} /\ Begun(j) = 0
      BY <1>1, <2>2 DEF Queued, Begun
    <3>2. Live(j) = {}
      BY <1>1, <3>1 DEF Put
    <3>3. Cardinality(Live(j)) = 0
      BY <3>2, FS_EmptySet
    <3> QED BY <3>1, <3>2, <3>3, Constants DEF Accounted, Done
  <2> QED BY <1>3, <2>1, <2>2
<1>4. Accounted(j) => Accounted(j)'
  BY DEF Accounted, Done
<1> QED BY <1>2, <1>3, <1>4

\* A step that only loses tasks, as terminate() does.
LEMMA Fewer ==
  ASSUME IInv, NEW j \in Jobs, Live(j)' \subseteq Live(j), Begun(j)' \in Begun(j) .. Length,
         UNCHANGED job
  PROVE  Put(j)' /\ Sorted(j)'
<1>1. Put(j) /\ Sorted(j) /\ job[j].index \in Nat /\ Begun(j) \in Nat /\ Length \in Nat
  BY BegunBounds, Constants DEF IInv, PoolTypeOK
<1> DEFINE b == Begun(j)
           c == Begun(j)'
<1>2. b \in Nat /\ c \in Nat /\ b <= c
  BY <1>1
<1>3. Live(j) \subseteq 0 .. b - 1 /\ job[j].unsorted \subseteq job[j].index .. b - 1 /\ job[j].index <= b
  BY <1>1 DEF Put, Sorted
<1> HIDE DEF b, c
<1>4. /\ Live(j)' \subseteq 0 .. c - 1 /\ job[j].unsorted \subseteq job[j].index .. c - 1
      /\ job[j].index <= c
  BY <1>1, <1>2, <1>3
<1> QED BY <1>4 DEF Put, Sorted, c

\* Another task is put.
LEMMA OneMore ==
  ASSUME IInv, TaskPut, Next, NEW j \in Jobs, th.job = j
  PROVE  Put(j)' /\ Sorted(j)' /\ (~Terminating' /\ j \in cache' => Accounted(j)')
<1> DEFINE b == Begun(j)
<1>1. /\ Put(j) /\ Sorted(j) /\ job \in [Jobs -> JobStates] /\ b \in 0 .. Length /\ Length \in Nat
      /\ (~Terminating /\ j \in cache => Accounted(j))
  BY BegunBounds, Constants DEF IInv, PoolTypeOK
<1>2. Begun(j)' = b + 1 /\ b = th.put
  BY BegunKept
<1>3. Live(j)' = Live(j) \cup {b}
  BY <1>2, TaskMoved
<1>4. UNCHANGED <<job, cache, handlers>>
  BY DEF TaskPut, objects
<1>5. Live(j) \subseteq 0 .. b - 1 /\ job[j].unsorted \subseteq job[j].index .. b - 1
      /\ job[j].index <= b /\ job[j].index \in Nat
  BY <1>1 DEF Put, Sorted
<1> HIDE DEF b
<1>6. /\ Live(j)' \subseteq 0 .. b /\ job[j].unsorted \subseteq job[j].index .. b
      /\ job[j].index <= b + 1 /\ b \in Nat /\ (b + 1) - 1 = b
  BY <1>1, <1>3, <1>5
<1>7. Put(j)' /\ Sorted(j)'
  BY <1>2, <1>4, <1>6 DEF Put, Sorted
<1>8. ASSUME Accounted(j) PROVE Accounted(j)'
  <2>1. CASE j \in Maps
    <3> DEFINE c == Cardinality(Live(j))
    <3>1. b \notin Live(j) /\ IsFiniteSet(Live(j)) /\ c \in Nat
      BY <1>5, <1>6, LiveFinite
    <3>2. Cardinality(Live(j)') = c + 1
      BY <1>3, <3>1, FS_AddElement
    <3>3. job[j].left = c + (Length - b)
      BY <1>8, <2>1 DEF Accounted, b
    <3> HIDE DEF c
    <3>4. job[j].left = (c + 1) + (Length - (b + 1))
      BY <1>1, <1>6, <3>1, <3>3
    <3> QED BY <1>2, <1>4, <2>1, <3>2, <3>4, Constants DEF Accounted
  <2>2. CASE j \in IMaps
    <3>1. Done(j) \cup Live(j) = 0 .. b - 1 /\ Done(j) \cap Live(j) = {}
      BY <1>8, <2>2 DEF Accounted, b
    <3>2. Done(j)' = Done(j)
      BY <1>4 DEF Done
    <3>3. 0 .. b = (0 .. b - 1) \cup {b} /\ b \notin 0 .. b - 1
      BY <1>6
    <3>4. Done(j)' \cup Live(j)' = 0 .. b /\ Done(j)' \cap Live(j)' = {}
      BY <1>3, <3>1, <3>2, <3>3
    <3> QED BY <1>2, <1>6, <2>2, <3>4, Constants DEF Accounted
  <2> QED BY <2>1, <2>2 DEF Jobs
<1>9. Terminating' = Terminating
  BY <1>4 DEF Terminating
<1> QED BY <1>1, <1>4, <1>7, <1>8, <1>9

\* A result of the job is taken out of the pipe.
LEMMA ResultCounted ==
  ASSUME IInv, NEW j \in Jobs, NEW m \in Results, m[1] = j, m[2] \in Live(j), Set(m),
         Live(j)' = Live(j) \ {m[2]}, Begun(j)' = Begun(j), UNCHANGED handlers
  PROVE  Put(j)' /\ Sorted(j)' /\ (~Terminating' /\ j \in cache' => Accounted(j)')
<1> DEFINE b == Begun(j)
           i == m[2]
<1>1. /\ Put(j) /\ Sorted(j) /\ job \in [Jobs -> JobStates] /\ b \in 0 .. Length /\ Length \in Nat
      /\ (~Terminating /\ j \in cache => Accounted(j))
  BY BegunBounds, Constants DEF IInv, PoolTypeOK
<1>2. Terminating' = Terminating
  BY DEF Terminating
<1>3. /\ cache' \subseteq cache
      /\ j \notin cache => UNCHANGED objects
      /\ j \in cache \cap Maps =>
           /\ j \in cache' => job'[j].left = job[j].left - 1
           /\ job'[j].index = job[j].index /\ job'[j].unsorted = job[j].unsorted
      /\ j \in cache \cap IMaps =>
           \E n \in job[j].index .. Length :
             LET early == job[j].unsorted \cup {i} IN
               /\ n \notin early /\ (job[j].index .. n - 1) \subseteq early
               /\ job'[j].index = n /\ job'[j].unsorted = early \ (0 .. n - 1)
  BY SetEffect
<1>4. Put(j)'
  BY <1>1 DEF Put
<1>5. CASE j \notin cache
  <2>1. Sorted(j)' /\ j \notin cache'
    BY <1>1, <1>3, <1>5 DEF Sorted, objects
  <2> QED BY <1>4, <2>1
<1>6. CASE j \in cache \cap Maps
  <2>1. Sorted(j)'
    BY <1>1, <1>3, <1>6 DEF Sorted
  <2>2. ASSUME ~Terminating', j \in cache' PROVE Accounted(j)'
    <3> DEFINE c == Cardinality(Live(j))
    <3>1. IsFiniteSet(Live(j)) /\ c \in Nat
      BY LiveFinite
    <3>2. Cardinality(Live(j)') = c - 1
      <4> DEFINE L == Live(j)
      <4>1. IsFiniteSet(L) /\ i \in L
        BY <3>1
      <4> HIDE DEF L, i
      <4>2. Cardinality(L \ {i}) = Cardinality(L) - 1
        BY <4>1, FS_RemoveElement
      <4> QED BY <4>2 DEF L, i
    <3>3. job[j].left = c + (Length - b) /\ job'[j].left = job[j].left - 1
      BY <1>1, <1>2, <1>3, <1>6, <2>2 DEF Accounted
    <3> HIDE DEF c, b
    <3>4. job'[j].left = (c - 1) + (Length - b)
      BY <1>1, <3>1, <3>3
    <3> QED BY <1>6, <3>2, <3>4, Constants DEF Accounted, b
  <2> QED BY <1>4, <2>1, <2>2
<1>7. CASE j \in cache /\ j \notin Maps
  <2>1. j \in IMaps
    BY <1>7 DEF Jobs
  <2> DEFINE k == job[j].index
             u == job[j].unsorted
             early == u \cup {i}
  <2>2. PICK n \in k .. Length :
          /\ n \notin early /\ (k .. n - 1) \subseteq early
          /\ job'[j].index = n /\ job'[j].unsorted = early \ (0 .. n - 1)
    BY <1>3, <1>7, <2>1
  <2>3. k \in Nat /\ n \in Nat /\ k <= n /\ b \in Nat /\ k <= b /\ u \subseteq k .. b - 1 /\ i \in 0 .. b - 1
    BY <1>1 DEF Sorted, Put
  <2>4. Done(j) = (0 .. k - 1) \cup u /\ Done(j)' = (0 .. n - 1) \cup (early \ (0 .. n - 1))
    BY <2>2 DEF Done
  <2> HIDE DEF k, u, b, i
  <2>5. n <= b
    <3> SUFFICES ASSUME n > b PROVE FALSE
      BY <2>3
    <3>1. b \in k .. n - 1
      BY <2>3
    <3>2. b \in u \cup {i}
      BY <2>2, <3>1
    <3> QED BY <2>3, <3>2
  <2>6. early \ (0 .. n - 1) \subseteq n .. b - 1
    BY <2>3
  <2>7. Sorted(j)'
    BY <2>2, <2>5, <2>6 DEF Sorted, b
  <2>8. ASSUME ~Terminating' PROVE Accounted(j)'
    <3>1. Done(j) \cup Live(j) = 0 .. b - 1 /\ Done(j) \cap Live(j) = {}
      BY <1>1, <1>2, <1>7, <2>1, <2>8 DEF Accounted, b
    <3>2. Done(j)' = Done(j) \cup {i}
      <4>1. 0 .. n - 1 = (0 .. k - 1) \cup (k .. n - 1)
        BY <2>3
      <4> HIDE DEF early
      <4>2. (0 .. n - 1) \cup (early \ (0 .. n - 1)) = (0 .. k - 1) \cup early
        BY <2>2, <4>1
      <4> QED BY <2>4, <4>2 DEF early
    <3>3. Live(j)' = Live(j) \ {i} /\ i \in Live(j)
      BY DEF i
    <3>4. Done(j)' \cup Live(j)' = 0 .. b - 1 /\ Done(j)' \cap Live(j)' = {}
      BY <3>1, <3>2, <3>3
    <3> QED BY <2>1, <3>4, Constants DEF Accounted, b
  <2> QED BY <1>4, <2>7, <2>8
<1> QED BY <1>5, <1>6, <1>7

\* A pool that is terminated stays so.
LEMMA StaysTerminating == ASSUME IInv, Next, Terminating PROVE Terminating'
<1>1. handlers.wh = "TERMINATE" /\ main # "run"
  BY DEF IInv, Stopped, Terminating
<1>2. handlers \in [wh : {"RUN", "CLOSE", "TERMINATE"}, th : {"RUN", "TERMINATE"},
                    rh : {"RUN", "TERMINATE"}]
  BY DEF IInv, PoolTypeOK
<1>3. UNCHANGED handlers \/ Terminate \/ TerminateHelp
  <2>1. ASSUME NEW j \in Jobs, Submit(j) PROVE UNCHANGED handlers
    BY <2>1 DEF Submit
  <2>2. ASSUME NEW w \in Workers, Work(w) PROVE UNCHANGED handlers
    BY <2>2 DEF Work, WorkerGet, WorkerReceive, WorkerLock, WorkerSend
  <2>3. ~Close
    BY <1>1 DEF Close
  <2>4. CASE WorkerHandler \/ TaskHandle \/ ResultHandler
    BY <2>4 DEF WorkerHandler, TaskHandle, ResultHandler, Maintain, WorkerHandlerEnd, TaskGet,
       TaskNext, TaskPut, TaskLength, TaskEndLock, TaskEndSend, TaskStop, ResultGet, ResultRest,
       ResultMore, ResultDrain
  <2>5. CASE Stopping
    BY <2>5 DEF Stopping, JoinReturn, TerminateLock, TerminateSentinel, TerminateTell,
       TerminateKill, TerminateReturn
  <2> QED BY <2>1, <2>2, <2>3, <2>4, <2>5 DEF Next
<1> QED BY <1>1, <1>2, <1>3 DEF Terminating, Terminate, TerminateHelp

\* The steps that take nothing out of the pipe of results and put no task.
LEMMA OthersMoved ==
  ASSUME IInv, Next, NEW j \in Jobs, ~TaskPut, ~ResultGet, ~ResultMore, ~ResultDrain
  PROVE  /\ Apart(j)' /\ Live(j)' \subseteq Live(j)
         /\ ~TerminateHelp /\ ~TerminateKill => Live(j)' = Live(j)
<1> USE DEF pipes
<1>1. CASE TerminateHelp \/ TerminateKill
  BY <1>1, TasksDropped
<1>2. ASSUME NEW w \in Workers, Work(w) PROVE Apart(j)' /\ Live(j)' = Live(j)
  BY <1>2, WorkMoved
<1>3. CASE UNCHANGED <<inq, outq, Items>>
  BY <1>3, NothingMoved
<1>4. ASSUME UNCHANGED worker PROVE UNCHANGED Items
  BY <1>4 DEF Items
<1>5. CASE \/ \E o \in Jobs : Submit(o)
           \/ Close \/ Terminate \/ JoinReturn \/ TerminateLock \/ TerminateSentinel
           \/ TerminateReturn \/ WorkerHandlerEnd
           \/ TaskGet \/ TaskNext \/ TaskLength \/ TaskEndLock \/ ResultRest
  <2>1. UNCHANGED <<inq, outq, worker>>
    BY <1>5 DEF Submit, Close, Terminate, JoinReturn, TerminateLock, TerminateSentinel,
       TerminateReturn, WorkerHandlerEnd, TaskGet, TaskNext, TaskLength, TaskEndLock, ResultRest
  <2> QED BY <1>3, <1>4, <2>1
<1>6. CASE Maintain
  <2>1. \A w \in Workers : worker'[w].item = worker[w].item
    BY <1>6 DEF Maintain, New, IInv, WorkerHolds
  <2>2. UNCHANGED <<inq, outq, Items>>
    BY <1>6, <2>1 DEF Maintain, Items
  <2> QED BY <1>3, <2>2
<1>7. CASE TaskEndSend \/ TerminateTell \/ TaskStop
  <2>1. /\ UNCHANGED worker
        /\ \/ inq' = Append(inq, None) /\ UNCHANGED outq
           \/ outq' = Append(outq, None) /\ UNCHANGED inq
    BY <1>7 DEF TaskEndSend, TerminateTell, TaskStop, SendOut
  <2> QED BY <1>4, <2>1, SentinelPut
<1> QED BY <1>1, <1>2, <1>5, <1>6, <1>7
        DEF Next, WorkerHandler, TaskHandle, ResultHandler, Stopping

\* What a job has counted changes at the steps of the result handler only.
LEMMA CountsKept ==
  ASSUME IInv, Next, NEW j \in Jobs, ~ResultGet, ~ResultMore
  PROVE  /\ job'[j].left = job[j].left /\ job'[j].index = job[j].index
         /\ job'[j].unsorted = job[j].unsorted
         /\ j \in cache' => j \in cache \/ ~job[j].asked
<1> USE DEF objects
<1>1. job \in [Jobs -> JobStates]
  BY DEF IInv, PoolTypeOK
<1>2. ASSUME NEW o \in Jobs, Submit(o)
      PROVE  /\ job' = [job EXCEPT ![o].asked = TRUE] /\ cache' = cache \cup {o} /\ ~job[o].asked
  BY <1>2 DEF Submit
<1>3. CASE TaskLength
  <2>1. (job' = job \/ job' = [job EXCEPT ![th.job].length = Length]) /\ cache' \subseteq cache
    BY <1>3 DEF TaskLength
  <2> QED BY <1>1, <2>1
<1>4. CASE UNCHANGED objects
  BY <1>4
<1>5. ASSUME NEW w \in Workers, Work(w) PROVE UNCHANGED objects
  BY <1>5 DEF Work, WorkerGet, WorkerReceive, WorkerLock, WorkerSend
<1>6. CASE Close \/ Terminate \/ Stopping
  BY <1>6 DEF Close, Terminate, Stopping, JoinReturn, TerminateLock, TerminateHelp,
     TerminateSentinel, TerminateTell, TerminateKill, TerminateReturn
<1>7. CASE WorkerHandler \/ (TaskHandle /\ ~TaskLength) \/ ResultHandler
  BY <1>7 DEF WorkerHandler, TaskHandle, ResultHandler, Maintain, WorkerHandlerEnd, TaskGet,
     TaskNext, TaskPut, TaskEndLock, TaskEndSend, TaskStop, ResultRest, ResultDrain
<1>8. ASSUME NEW o \in Jobs, Submit(o)
      PROVE  /\ job'[j].left = job[j].left /\ job'[j].index = job[j].index
             /\ job'[j].unsorted = job[j].unsorted
             /\ j \in cache' => j \in cache \/ ~job[j].asked
  BY <1>1, <1>2, <1>8
<1> QED BY <1>3, <1>4, <1>5, <1>6, <1>7, <1>8 DEF Next

\* What becomes of the tasks of a job at every step.
LEMMA TasksKept ==
  ASSUME IInv, Next, NEW j \in Jobs
  PROVE  /\ Apart(j)' /\ Put(j)' /\ Sorted(j)'
         /\ ~Terminating' /\ j \in cache' => Accounted(j)'
<1>1. /\ Stopped /\ Begun(j) \in 0 .. Length /\ Length \in Nat
      /\ Apart(j) /\ Put(j) /\ Sorted(j)
  BY BegunBounds, Constants DEF IInv
<1>2. Terminating => Terminating'
  BY StaysTerminating
<1>3. UNCHANGED th => ~TaskPut /\ ~TaskEndSend
  BY DEF TaskPut, TaskEndSend, IInv, PoolTypeOK
<1>4. CASE TaskPut
  <2>1. Apart(j)' /\ (th.job # j => Live(j)' = Live(j))
    BY <1>4, TaskMoved
  <2>2. CASE th.job = j
    BY <1>4, <2>1, <2>2, OneMore
  <2>3. CASE th.job # j
    <3>1. UNCHANGED <<job, cache>>
      BY <1>4 DEF TaskPut, objects
    <3>2. Begun(j)' = Begun(j)
      BY <1>4, <2>3, BegunKept
    <3> QED BY <1>2, <2>1, <2>3, <3>1, <3>2, Steady
  <2> QED BY <2>2, <2>3
<1>5. CASE ResultGet \/ ResultMore
  <2> DEFINE m == Head(outq)
  <2>1. /\ outq # <<>> /\ outq' = Tail(outq) /\ UNCHANGED <<inq, worker, th, handlers>>
        /\ \/ UNCHANGED objects /\ (m = None \/ Terminating)
           \/ m \in Results /\ m[2] \in Live(m[1]) /\ Set(m)
    BY <1>5, ResultTaken
  <2>2. Begun(j)' = Begun(j)
    BY <1>3, <2>1, BegunKept
  <2>3. Apart(j)' /\ Live(j)' = Live(j) \ Own(m, j)
    BY <2>1, ResultMoved
  <2> HIDE DEF m
  <2>4. CASE UNCHANGED objects /\ m = None
    <3>1. Own(m, j) = {} /\ UNCHANGED <<cache, job>>
      BY <2>4 DEF Own, objects
    <3>2. Live(j)' = Live(j)
      BY <2>3, <3>1
    <3> QED BY <1>2, <2>2, <2>3, <3>1, <3>2, Steady
  <2>5. CASE UNCHANGED objects /\ Terminating
    <3>1. Live(j)' \subseteq Live(j) /\ Begun(j)' \in Begun(j) .. Length /\ UNCHANGED job
      BY <1>1, <2>2, <2>3, <2>5 DEF objects
    <3> QED BY <1>2, <2>3, <2>5, <3>1, Fewer
  <2>6. CASE m \in Results /\ m[2] \in Live(m[1]) /\ Set(m)
    <3>1. m # None
      BY <2>6, Constants
    <3>2. CASE m[1] = j
      <4>1. Live(j)' = Live(j) \ {m[2]}
        BY <2>3, <3>1, <3>2 DEF Own
      <4>2. m[2] \in Live(j)
        BY <2>6, <3>2
      <4> QED BY <2>1, <2>2, <2>3, <2>6, <3>2, <4>1, <4>2, ResultCounted
    <3>3. CASE m[1] # j
      <4>1. Own(m, j) = {}
        BY <3>3 DEF Own
      <4>2. Live(j)' = Live(j)
        BY <2>3, <4>1
      <4>3. job'[j] = job[j] /\ cache' \subseteq cache
        BY <2>6, <3>3, SetEffect
      <4> QED BY <1>2, <2>2, <2>3, <4>2, <4>3, Steady
    <3> QED BY <3>2, <3>3
  <2> QED BY <2>1, <2>4, <2>5, <2>6
<1>6. CASE ResultDrain
  <2>1. /\ UNCHANGED <<cache, job, inq, worker, th>> /\ rh.at = "drain"
        /\ outq' = outq \/ (outq # <<>> /\ outq' = Tail(outq))
    BY <1>6 DEF ResultDrain, objects
  <2>2. Begun(j)' \in Begun(j) .. Length
    <3>1. Begun(j)' = Begun(j)
      BY <1>3, <2>1, BegunKept
    <3> QED BY <1>1, <3>1
  <2>3. Apart(j)' /\ Live(j)' \subseteq Live(j)
    <3>1. CASE outq' = outq
      <4>1. UNCHANGED Items
        BY <2>1 DEF Items
      <4> QED BY <2>1, <3>1, <4>1, NothingMoved
    <3>2. CASE outq # <<>> /\ outq' = Tail(outq)
      BY <2>1, <3>2, ResultMoved
    <3> QED BY <2>1, <3>1, <3>2
  <2>4. cache = {} \/ Terminating
    BY <1>1, <2>1 DEF Stopped
  <2> QED BY <1>2, <2>1, <2>2, <2>3, <2>4, Fewer
<1>7. CASE ~TaskPut /\ ~ResultGet /\ ~ResultMore /\ ~ResultDrain
  <2>1. /\ Apart(j)' /\ Live(j)' \subseteq Live(j)
        /\ ~TerminateHelp /\ ~TerminateKill => Live(j)' = Live(j)
    BY <1>7, OthersMoved
  <2>2. CASE Terminating /\ (TerminateHelp \/ TerminateKill \/ TaskEndSend)
    <3>1. UNCHANGED job
      BY <2>2 DEF TerminateHelp, TerminateKill, TaskEndSend, objects
    <3>2. Begun(j)' \in Begun(j) .. Length
      BY <1>1, <1>7, BegunKept
    <3> QED BY <1>2, <2>1, <2>2, <3>1, <3>2, Fewer
  <2>3. CASE ~(Terminating /\ (TerminateHelp \/ TerminateKill \/ TaskEndSend))
    <3>1. ~TerminateHelp /\ ~TerminateKill
      BY <1>1, <2>3 DEF Stopped, TerminateHelp, TerminateKill
    <3>2. Begun(j)' = Begun(j)
      BY <1>7, <2>3, BegunKept
    <3>3. /\ job'[j].left = job[j].left /\ job'[j].index = job[j].index
          /\ job'[j].unsorted = job[j].unsorted
          /\ j \in cache' => j \in cache \/ ~job[j].asked
      BY <1>7, CountsKept
    <3> QED BY <1>2, <2>1, <3>1, <3>2, <3>3, Steady
  <2> QED BY <2>2, <2>3
<1> QED BY <1>4, <1>5, <1>6, <1>7

\* The invariant holds at first ...
LEMMA InitIInv == Init => IInv
<1> SUFFICES ASSUME Init PROVE IInv
  OBVIOUS
<1> USE DEF Init
<1>1. PoolTypeOK /\ WorkerHolds
  <2>1. taskq \in Seq(Entries) /\ inq \in Seq(Tasks \cup {None}) /\ outq \in Seq(Results \cup {None})
    BY EmptySeq
  <2>2. job \in [Jobs -> JobStates]
    BY Constants
  <2>3. worker \in [Workers -> WorkerStates] /\ WorkerHolds
    BY DEF New, WorkerHolds
  <2>4. th \in TaskHandlerStates /\ rh \in ResultHandlerStates
    BY DEF Entries
  <2> QED BY <2>1, <2>2, <2>3, <2>4 DEF PoolTypeOK
<1>2. Range(taskq) = {} /\ Range(outq) = {} /\ DOMAIN taskq = {}
  BY DEF Range
<1>3. Stopped /\ Queued
  BY <1>2, Constants DEF Stopped, Queued, Terminating
<1>4. ASSUME NEW j \in Jobs PROVE Apart(j) /\ Put(j) /\ Sorted(j)
  <2>1. Held(inq, j) = {} /\ Held(outq, j) = {} /\ Held(Items, j) = {}
    BY DEF Held, Items, New
  <2>2. Numbers(inq, j) = {} /\ Numbers(outq, j) = {} /\ Numbers(Items, j) = {}
    BY <2>1 DEF Numbers
  <2>3. Begun(j) = 0 /\ job[j].index = 0 /\ job[j].unsorted = {}
    BY DEF Begun
  <2> QED BY <2>1, <2>2, <2>3 DEF Apart, Put, Sorted, Once, Live
<1> QED BY <1>1, <1>3, <1>4 DEF IInv

\* ... and at every step.
LEMMA NextIInv == IInv /\ [Next]_vars => IInv'
<1> SUFFICES ASSUME IInv, [Next]_vars PROVE IInv'
  OBVIOUS
<1>1. CASE Next
  <2>1. PoolTypeOK' /\ WorkerHolds' /\ Stopped' /\ Queued'
    BY <1>1, TypeKept, StoppedKept, QueuedKept
  <2>2. \A j \in Jobs : /\ Apart(j)' /\ Put(j)' /\ Sorted(j)'
                        /\ ~Terminating' /\ j \in cache' => Accounted(j)'
    BY <1>1, TasksKept
  <2>3. cache' \subseteq Jobs
    BY <2>1 DEF PoolTypeOK
  <2> QED BY <2>1, <2>2, <2>3 DEF IInv
<1>2. CASE UNCHANGED vars
  <2>1. UNCHANGED <<taskq, cache, job, inq, rlock, outq, wlock, worker, handlers, wh, th, rh, main>>
    BY <1>2 DEF vars, objects, pipes, threads
  <2>2. PoolTypeOK' /\ WorkerHolds' /\ Stopped' /\ Queued' /\ Terminating' = Terminating
    BY <2>1 DEF IInv, PoolTypeOK, WorkerHolds, Stopped, Queued, Terminating
  <2>3. UNCHANGED Items
    BY <2>1 DEF Items
  <2>4. ASSUME NEW j \in Jobs
        PROVE  /\ Apart(j)' /\ Put(j)' /\ Sorted(j)'
               /\ ~Terminating' /\ j \in cache' => Accounted(j)'
    <3>1. Apart(j)' /\ Live(j)' = Live(j)
      BY <2>1, <2>3, NothingMoved
    <3>2. Begun(j)' = Begun(j)
      BY <2>1 DEF Begun
    <3> QED BY <2>1, <2>2, <3>1, <3>2, Steady
  <2>5. cache' \subseteq Jobs
    BY <2>2 DEF PoolTypeOK
  <2> QED BY <2>2, <2>4, <2>5 DEF IInv
<1> QED BY <1>1, <1>2

\* The invariant holds in every reachable state.
LEMMA InvariantHolds == Spec => []IInv
  BY InitIInv, NextIInv, PTL DEF Spec

\* No task is at two places at a time or twice at one: in the pipe of tasks, with a worker, or
\* its result in the pipe of results, however workers come and go and wherever terminate()
\* interrupts them.
THEOREM NoTaskTwice == Spec => [](PoolTypeOK /\ \A j \in Jobs : Apart(j) /\ Put(j))
<1>1. IInv => PoolTypeOK /\ \A j \in Jobs : Apart(j) /\ Put(j)
  BY DEF IInv
<1> QED BY <1>1, InvariantHolds, PTL

\* Sets that have nothing in common are counted one by one.
LEMMA DisjointUnion ==
  ASSUME NEW S, NEW T, IsFiniteSet(S), IsFiniteSet(T), S \cap T = {}
  PROVE  IsFiniteSet(S \cup T) /\ Cardinality(S \cup T) = Cardinality(S) + Cardinality(T)
<1>1. /\ IsFiniteSet(S \cup T)
      /\ Cardinality(S \cup T) = Cardinality(S) + Cardinality(T) - Cardinality(S \cap T)
  BY FS_Union
<1>2. Cardinality(S \cap T) = 0
  BY FS_EmptySet
<1>3. Cardinality(S) \in Nat /\ Cardinality(T) \in Nat
  BY FS_CardinalityType
<1> QED BY <1>1, <1>2, <1>3

\* The places where tasks of j are, counted place by place, are as many as the tasks.
LEMMA LiveCounted ==
  ASSUME IInv, NEW j \in Jobs
  PROVE  /\ Cardinality(Held(inq, j)) \in Nat /\ Cardinality(Held(outq, j)) \in Nat
         /\ Cardinality(Held(Items, j)) \in Nat
         /\ Cardinality(Live(j)) = Cardinality(Held(inq, j)) + Cardinality(Held(outq, j))
                                     + Cardinality(Held(Items, j))
<1> DEFINE P == Numbers(inq, j)
           Q == Numbers(outq, j)
           R == Numbers(Items, j)
<1>1. Apart(j) /\ inq \in Seq(Tasks \cup {None}) /\ outq \in Seq(Results \cup {None})
  BY DEF IInv, PoolTypeOK
<1>2. IsFiniteSet(DOMAIN inq) /\ IsFiniteSet(DOMAIN outq) /\ IsFiniteSet(DOMAIN Items)
  <2>1. /\ Len(inq) \in Nat /\ DOMAIN inq = 1 .. Len(inq)
        /\ Len(outq) \in Nat /\ DOMAIN outq = 1 .. Len(outq)
    BY <1>1, LenProperties
  <2>2. IsFiniteSet(1 .. Len(inq)) /\ IsFiniteSet(1 .. Len(outq))
    BY <2>1, FS_Interval
  <2>3. DOMAIN Items = Workers
    BY DEF Items
  <2> QED BY <2>1, <2>2, <2>3, Constants
<1>3. /\ IsFiniteSet(P) /\ IsFiniteSet(Q) /\ IsFiniteSet(R)
      /\ Cardinality(P) \in Nat /\ Cardinality(Q) \in Nat /\ Cardinality(R) \in Nat
      /\ Cardinality(Held(inq, j)) = Cardinality(P) /\ Cardinality(Held(outq, j)) = Cardinality(Q)
      /\ Cardinality(Held(Items, j)) = Cardinality(R)
  BY <1>1, <1>2, NumbersCounted DEF Apart
<1>4. P \cap Q = {} /\ (P \cup Q) \cap R = {} /\ Live(j) = (P \cup Q) \cup R
  BY <1>1 DEF Apart, Live
<1> HIDE DEF P, Q, R
<1>5. IsFiniteSet(P \cup Q) /\ Cardinality(P \cup Q) = Cardinality(P) + Cardinality(Q)
  BY <1>3, <1>4, DisjointUnion
<1>6. Cardinality((P \cup Q) \cup R) = Cardinality(P \cup Q) + Cardinality(R)
  <2> DEFINE S == P \cup Q
  <2>1. IsFiniteSet(S) /\ S \cap R = {}
    BY <1>4, <1>5
  <2> HIDE DEF S
  <2>2. Cardinality(S \cup R) = Cardinality(S) + Cardinality(R)
    BY <1>3, <2>1, DisjointUnion
  <2> QED BY <2>2 DEF S
<1> QED BY <1>3, <1>4, <1>5, <1>6

\* Until the pool is terminated, a job waits for exactly as many results as there are tasks to
\* be put, in the pipes or with a worker: none is lost or counted twice while workers leave
\* after their share and others take their places.
THEOREM TasksAreAccounted == Spec => []TasksAccounted
<1>1. IInv => TasksAccounted
  <2> SUFFICES ASSUME IInv, NEW j \in cache, ~Terminating
               PROVE  IF j \in Maps THEN job[j].left = Underway(j)
                      ELSE job[j].index + Cardinality(job[j].unsorted) + Underway(j) = Length
    BY DEF TasksAccounted
  <2> DEFINE b == Begun(j)
             c == Cardinality(Live(j))
             u == job[j].unsorted
             k == job[j].index
  <2>1. /\ j \in Jobs /\ job[j].asked /\ Accounted(j) /\ Put(j) /\ Sorted(j) /\ Length \in Nat
        /\ b \in 0 .. Length /\ k \in Nat /\ job[j].left \in Int
    BY BegunBounds, Constants DEF IInv, PoolTypeOK, Queued
  <2>2. th.job = j => th.put \in Nat
    BY DEF IInv, PoolTypeOK
  <2>3. (IF j \in Range(taskq) THEN Length ELSE IF th.job = j THEN Length - th.put ELSE 0) = Length - b
    BY <2>1, <2>2 DEF Begun
  <2>4. Underway(j) = (Length - b) + c
    <3> DEFINE x == Cardinality(Held(inq, j))
               y == Cardinality(Held(outq, j))
               z == Cardinality(Held(Items, j))
    <3>1. x \in Nat /\ y \in Nat /\ z \in Nat /\ c = x + y + z
      BY <2>1, LiveCounted
    <3>2. Underway(j) = (Length - b) + x + y + z
      BY <2>3 DEF Underway
    <3> HIDE DEF x, y, z, c, b
    <3> QED BY <2>1, <3>1, <3>2
  <2>5. IsFiniteSet(Live(j)) /\ c \in Nat
    BY <2>1, LiveFinite
  <2>6. CASE j \in Maps
    <3>1. job[j].left = c + (Length - b)
      BY <2>1, <2>6 DEF Accounted
    <3> HIDE DEF b, c
    <3> QED BY <2>1, <2>4, <2>5, <2>6, <3>1
  <2>7. CASE j \notin Maps
    <3>1. Done(j) \cup Live(j) = 0 .. b - 1 /\ Done(j) \cap Live(j) = {}
      BY <2>1, <2>7 DEF Accounted, Jobs
    <3>2. u \subseteq k .. b - 1
      BY <2>1 DEF Sorted
    <3>3. Done(j) = (0 .. k - 1) \cup u
      BY DEF Done
    <3> HIDE DEF b, c, u, k
    <3>4. IsFiniteSet(u) /\ Cardinality(u) \in Nat
      <4>1. k \in Int /\ b - 1 \in Int
        BY <2>1
      <4>2. IsFiniteSet(k .. b - 1)
        BY <4>1, FS_Interval
      <4> QED BY <3>2, <4>2, FS_Subset, FS_CardinalityType
    <3>5. IsFiniteSet(0 .. k - 1) /\ Cardinality(0 .. k - 1) = k
      BY <2>1, FS_Interval
    <3>6. IsFiniteSet(Done(j)) /\ Cardinality(Done(j)) = k + Cardinality(u)
      <4>1. (0 .. k - 1) \cap u = {}
        BY <2>1, <3>2
      <4> DEFINE S == 0 .. k - 1
      <4>2. IsFiniteSet(S) /\ S \cap u = {} /\ Cardinality(S) = k /\ Done(j) = S \cup u
        BY <3>3, <3>5, <4>1
      <4> HIDE DEF S
      <4>3. IsFiniteSet(S \cup u) /\ Cardinality(S \cup u) = Cardinality(S) + Cardinality(u)
        BY <3>4, <4>2, DisjointUnion
      <4> QED BY <4>2, <4>3
    <3>7. Cardinality(0 .. b - 1) = b
      BY <2>1, FS_Interval
    <3>8. Cardinality(Done(j) \cup Live(j)) = Cardinality(Done(j)) + c
      BY <2>5, <3>1, <3>6, DisjointUnion DEF c
    <3>9. b = k + Cardinality(u) + c
      BY <3>1, <3>6, <3>7, <3>8
    <3> DEFINE v == Cardinality(u)
    <3> HIDE DEF v
    <3>10. k + v + Underway(j) = Length
      BY <2>1, <2>4, <2>5, <3>4, <3>9 DEF v
    <3> QED BY <2>7, <3>10 DEF v, u, k
  <2> QED BY <2>6, <2>7
<1> QED BY <1>1, InvariantHolds, PTL
===============================================================================
