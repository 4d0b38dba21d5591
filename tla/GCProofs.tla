------------------------------- MODULE GCProofs -------------------------------
(***************************************************************************)
(* The lists of the collector agree; what move_unreachable finds is what   *)
(* is unreachable; the program never gets hold of what a collection        *)
(* clears, and all of it is freed: for every set of objects, generations,  *)
(* finalizers, weak references and callbacks.                              *)
(***************************************************************************)
EXTENDS GC, FiniteSetTheorems, TLAPS

\* What each phase has left behind it.
PhaseInv ==
  /\ wrcb # {} => phase = "weakrefs"
  /\ clearing # {} => phase = "clear"
  /\ toscan # {} \/ young # {} => phase = "scan"
  /\ phase = "idle" => unreachable = {}
  /\ phase \in {"scan", "finalizers"} => running = {} /\ Settled

\* Objects of the collection that are not known to be reachable.
Open == toscan \cup unreachable

\* The invariant of the scan: what is referred to from outside the open objects
\* is still to be scanned, with a count that is not zero; what was found
\* unreachable is marked so.
ScanInv ==
  phase = "scan" =>
    /\ toscan \cap unreachable = {}
    /\ \A o \in unreachable : gc_refs[o] = TENTATIVELY_UNREACHABLE
    /\ \A o \in Open : o \in Rooted => o \in toscan /\ gc_refs[o] # 0
    /\ \A p \in alive \ Open : \A o \in refs[p] \cap Open : o \in toscan /\ gc_refs[o] # 0

ScanIInv == TypeOK /\ PhaseInv /\ ScanInv

\* The counts of Start: an object that something outside S refers to keeps one.
LEMMA OutsideCounts ==
  ASSUME TypeOK, GCAssumption, NEW o \in Objects, NEW S,
         o \in Rooted \/ \E p \in alive \ S : o \in refs[p]
  PROVE  RefCount(o) - Cardinality(Referrers(o) \cap S) # 0
<1> DEFINE R == Referrers(o)
<1>1. IsFiniteSet(R)
  BY FS_Subset DEF TypeOK, GCAssumption, Referrers
<1>2. /\ IsFiniteSet(R \cap S) /\ Cardinality(R \cap S) <= Cardinality(R)
      /\ Cardinality(R \cap S) = Cardinality(R) => R \cap S = R
  BY <1>1, FS_Subset
<1>3. Cardinality(R) \in Nat /\ Cardinality(R \cap S) \in Nat
  BY <1>1, <1>2, FS_CardinalityType
<1>4. CASE o \in Rooted
  BY <1>2, <1>3, <1>4 DEF RefCount
<1>5. CASE o \notin Rooted
  <2>1. PICK p \in alive \ S : o \in refs[p]
    BY <1>5
  <2>2. p \in R /\ p \notin R \cap S
    BY <2>1 DEF Referrers
  <2>3. Cardinality(R \cap S) # Cardinality(R)
    BY <2>2, <1>2
  <2> QED BY <2>3, <1>3, <1>5 DEF RefCount
<1> QED BY <1>4, <1>5

\* What Start leaves in gc_refs is a number.
LEMMA CountsAreIntegers ==
  ASSUME TypeOK, GCAssumption, NEW o \in Objects, NEW S
  PROVE  RefCount(o) - Cardinality(Referrers(o) \cap S) \in Int
<1>1. IsFiniteSet(Referrers(o))
  BY FS_Subset DEF TypeOK, GCAssumption, Referrers
<1>2. IsFiniteSet(Referrers(o) \cap S)
  BY <1>1, FS_Subset
<1> QED BY <1>1, <1>2, FS_CardinalityType DEF RefCount

\* The types of the variables when the program does a step, ...
LEMMA ProgramType == TypeOK /\ Program => TypeOK'
<1> SUFFICES ASSUME TypeOK, Program PROVE TypeOK'
  OBVIOUS
<1> USE GCAssumption DEF TypeOK, control, history, lists, code, heap
<1>0. 0 \in Generations /\ REACHABLE \in Int /\ InHand \subseteq Objects
  BY DEF Generations, REACHABLE, InHand
<1>1. ASSUME NEW o \in Objects, Alloc(o), refs' \in [Objects -> SUBSET Objects],
             wr_object' \in [Weakrefs -> Objects \cup {None}]
      PROVE  TypeOK'
  BY <1>0, <1>1 DEF Alloc
<1>2. ASSUME NEW o \in Objects, New(o) PROVE TypeOK'
  BY <1>1, <1>2 DEF New
<1>3. ASSUME NEW o \in Objects, NewTuple(o) PROVE TypeOK'
  <2>1. refs' \in [Objects -> SUBSET Objects]
    BY <1>0, <1>3 DEF NewTuple
  <2> QED BY <2>1, <1>1, <1>3 DEF NewTuple
<1>4. ASSUME NEW w \in Weakrefs, NewWeakref(w) PROVE TypeOK'
  <2>1. PICK c \in {{}} \cup (IF w \in Callbacks THEN {{c} : c \in InHand} ELSE {}) :
          refs' = [refs EXCEPT ![w] = c]
    BY <1>4 DEF NewWeakref
  <2>2. c \in SUBSET Objects
    BY <1>0
  <2>3. refs' \in [Objects -> SUBSET Objects]
    BY <2>1, <2>2
  <2>4. wr_object' \in [Weakrefs -> Objects \cup {None}]
    BY <1>0, <1>4 DEF NewWeakref
  <2> QED BY <2>3, <2>4, <1>1, <1>4 DEF NewWeakref
<1>5. ASSUME NEW o \in Objects, Hold(o) \/ Release(o) \/ Leave(o) PROVE TypeOK'
  BY <1>5 DEF Hold, Release, Leave
<1>6. ASSUME NEW a \in Objects, NEW b \in Objects, Store(a, b) \/ Remove(a, b) PROVE TypeOK'
  BY <1>6 DEF Store, Remove, SetRefs
<1> QED BY <1>2, <1>3, <1>4, <1>5, <1>6 DEF Program

\* ... when an object is deallocated, ...
LEMMA DeallocateType == TypeOK /\ Deallocate => TypeOK'
<1> SUFFICES ASSUME TypeOK, NEW o \in Objects,
                    ClearWeakRefs(o) \/ Finalize(o) \/ Dealloc(o)
             PROVE TypeOK'
  BY DEF Deallocate, Dying, TypeOK
<1> USE GCAssumption DEF TypeOK, control, history, lists, code, heap
<1>0. REACHABLE \in Int /\ UNTRACKED \in Int
  BY DEF REACHABLE, UNTRACKED
<1>1. CASE ClearWeakRefs(o)
  BY <1>1 DEF ClearWeakRefs
<1>2. CASE Finalize(o)
  BY <1>0, <1>2 DEF Finalize, Untrack
<1>3. CASE Dealloc(o)
  BY <1>0, <1>3 DEF Dealloc, Untrack
<1> QED BY <1>1, <1>2, <1>3

\* ... and when the collector does a step.
LEMMA CollectType == TypeOK /\ Collect => TypeOK'
<1> SUFFICES ASSUME TypeOK, Collect PROVE TypeOK'
  OBVIOUS
<1> USE GCAssumption DEF TypeOK, control, history, lists, code, heap
<1>0. /\ REACHABLE \in Int /\ TENTATIVELY_UNREACHABLE \in Int
      /\ Old \in Generations
  BY DEF REACHABLE, TENTATIVELY_UNREACHABLE, Old, Generations
<1>1. ASSUME NEW g \in Generations, Start(g) PROVE TypeOK'
  <2>1. gc_refs' \in [Objects -> Int]
    BY CountsAreIntegers, <1>1 DEF Start
  <2>2. toscan' \subseteq Objects
    BY <1>1 DEF Start, Generations
  <2> QED BY <2>1, <2>2, <1>1 DEF Start
<1>2. ASSUME NEW o \in Objects, ScanReachable(o) \/ ScanUnreachable(o) \/ MoveReachable(o)
      PROVE  TypeOK'
  BY <1>0, <1>2 DEF ScanReachable, ScanUnreachable, MoveReachable
<1>3. CASE MoveFinalizers
  BY <1>0, <1>3 DEF MoveFinalizers, ToOld
<1>4. CASE ClearTrashRefs
  BY <1>0, <1>4 DEF ClearTrashRefs
<1>5. ASSUME NEW w \in Weakrefs, CallBack(w) PROVE TypeOK'
  BY <1>0, <1>5 DEF CallBack, ToOld
<1>6. ASSUME NEW o \in Objects, Clear(o) \/ Cleared(o) PROVE TypeOK'
  BY <1>0, <1>6 DEF Clear, Cleared, ToOld
<1>7. ASSUME NEW o \in Objects, NEW p \in Objects, ClearRef(o, p) PROVE TypeOK'
  BY <1>7 DEF ClearRef, SetRefs
<1>8. CASE Finish
  BY <1>0, <1>8 DEF Finish, ToOld
<1> QED BY <1>1, <1>2, <1>3, <1>4, <1>5, <1>6, <1>7, <1>8 DEF Collect

\* Outside collect's own steps, a collection does not move.
LEMMA Outside ==
  ASSUME PhaseInv, Program \/ Deallocate
  PROVE  /\ phase \notin {"scan", "finalizers"}
         /\ UNCHANGED <<phase, toscan, young, wrcb, clearing>>
         /\ unreachable' \subseteq unreachable
<1>1. phase \notin {"scan", "finalizers"}
  <2>1. CASE Program
    BY <2>1 DEF PhaseInv, Program, Runs, New, NewTuple, NewWeakref, Alloc, Hold, Release,
                Leave, Store, Remove
  <2>2. CASE Deallocate
    BY <2>2 DEF PhaseInv, Deallocate, ClearWeakRefs, Finalize, Dealloc, Dying, Settled
  <2> QED BY <2>1, <2>2
<1>2. /\ UNCHANGED <<phase, toscan, young, wrcb, clearing>>
      /\ unreachable' \subseteq unreachable
  <2>1. CASE Program
    BY <2>1 DEF Program, New, NewTuple, NewWeakref, Alloc, Hold, Release, Leave, Store, Remove,
                SetRefs, lists, control, history
  <2>2. CASE Deallocate
    BY <2>2 DEF Deallocate, ClearWeakRefs, Finalize, Dealloc, Untrack, lists, control, history
  <2> QED BY <2>1, <2>2
<1> QED BY <1>1, <1>2

\* The lists that a phase does not use are empty at every step.
LEMMA PhaseStep == TypeOK /\ PhaseInv /\ [Next]_vars => PhaseInv'
<1> SUFFICES ASSUME TypeOK, PhaseInv, [Next]_vars PROVE PhaseInv'
  OBVIOUS
<1> USE DEF PhaseInv
<1>1. CASE UNCHANGED vars
  BY <1>1 DEF vars, lists, control, history, code, heap, Settled, Unreferenced, Referrers, Rooted
<1>2. CASE Program \/ Deallocate
  BY <1>2, Outside
<1>3. CASE Collect
  <2> DEFINE Same == UNCHANGED <<alive, refs, held, running, wrcb, clearing>>
  <2>s. Same => (Settled <=> Settled')
    BY DEF Settled, Unreferenced, Referrers, Rooted
  <2> USE DEF lists, control, history, code, heap
  <2>1. ASSUME NEW g \in Generations, Start(g) PROVE PhaseInv'
    <3>1. Settled'
      BY <2>1 DEF Start, Settled, Unreferenced, Referrers, Rooted
    <3> QED BY <3>1, <2>1 DEF Start
  <2>2. ASSUME NEW o \in Objects, ScanReachable(o) \/ ScanUnreachable(o) \/ MoveReachable(o)
        PROVE  PhaseInv'
    <3>1. Same /\ phase' = phase /\ phase \in {"scan", "finalizers"}
      BY <2>2 DEF ScanReachable, ScanUnreachable, MoveReachable
    <3>2. toscan' # {} \/ young' # {} => phase = "scan"
      BY <2>2 DEF ScanReachable, ScanUnreachable, MoveReachable
    <3> QED BY <3>1, <3>2, <2>s
  <2>3. CASE MoveFinalizers
    BY <2>3, <2>s DEF MoveFinalizers
  <2>4. CASE ClearTrashRefs
    BY <2>4 DEF ClearTrashRefs
  <2>5. ASSUME NEW w \in Weakrefs, CallBack(w) PROVE PhaseInv'
    BY <2>5 DEF CallBack
  <2>6. ASSUME NEW o \in Objects, Clear(o) PROVE PhaseInv'
    BY <2>6 DEF Clear
  <2>7. ASSUME NEW o \in Objects, Cleared(o) PROVE PhaseInv'
    BY <2>7 DEF Cleared
  <2>8. ASSUME NEW o \in Objects, NEW p \in Objects, ClearRef(o, p) PROVE PhaseInv'
    BY <2>8 DEF ClearRef, SetRefs
  <2>9. CASE Finish
    BY <2>9 DEF Finish
  <2> QED BY <1>3, <2>1, <2>2, <2>3, <2>4, <2>5, <2>6, <2>7, <2>8, <2>9 DEF Collect
<1> QED BY <1>1, <1>2, <1>3 DEF Next

\* The scan loses nothing that is referred to from outside the objects it has open.
LEMMA ScanStep == ScanIInv /\ [Next]_vars => ScanInv'
<1> SUFFICES ASSUME ScanIInv, [Next]_vars PROVE ScanInv'
  OBVIOUS
<1> USE DEF ScanIInv
<1>1. CASE UNCHANGED vars
  BY <1>1 DEF vars, lists, control, history, code, heap, ScanInv, Open, Rooted
<1>2. CASE Program \/ Deallocate
  BY <1>2, Outside DEF ScanInv
<1>3. CASE Collect
  <2> USE DEF lists, control, history, code, heap
  <2>1. ASSUME NEW g \in Generations, Start(g) PROVE ScanInv'
    <3>1. unreachable' = {} /\ Open' = toscan'
      BY <2>1 DEF Start, PhaseInv, Open
    <3>2. toscan' \subseteq Objects /\ Rooted' = Rooted /\ alive' = alive /\ refs' = refs
      BY <2>1, CollectType, <1>3 DEF Start, Rooted, TypeOK
    <3>3. \A o \in toscan' :
            gc_refs'[o] = RefCount(o) - Cardinality(Referrers(o) \cap toscan')
      BY <2>1, <3>2 DEF Start
    <3>4. ASSUME NEW o \in toscan', o \in Rooted \/ \E p \in alive \ toscan' : o \in refs[p]
          PROVE  gc_refs'[o] # 0
      BY <3>2, <3>3, <3>4, OutsideCounts, GCAssumption
    <3> QED BY <3>1, <3>2, <3>4 DEF ScanInv
  <2>2. ASSUME NEW o \in Objects, ScanReachable(o) PROVE ScanInv'
    <3> DEFINE back == refs[o] \cap unreachable
    <3>1. /\ Open' = Open \ {o} /\ Rooted' = Rooted /\ alive' = alive /\ refs' = refs
          /\ unreachable' = unreachable \ back /\ toscan' = (toscan \ {o}) \cup back
          /\ phase = "scan" /\ o \in toscan /\ o \notin unreachable
      BY <2>2 DEF ScanReachable, Open, Rooted, ScanInv
    <3>2. gc_refs' = [p \in Objects |->
                        IF p = o THEN REACHABLE
                        ELSE IF p \in refs[o] \ {o}
                                /\ gc_refs[p] \in {0, TENTATIVELY_UNREACHABLE} THEN 1
                        ELSE gc_refs[p]]
      BY <2>2 DEF ScanReachable
    <3>3. Open \subseteq Objects /\ refs[o] \subseteq Objects
      BY DEF TypeOK, Open
    <3>4. \A q \in Open' : q \in refs[o] => q \in toscan' /\ gc_refs'[q] # 0
      <4> SUFFICES ASSUME NEW q \in Open', q \in refs[o] PROVE q \in toscan' /\ gc_refs'[q] # 0
        OBVIOUS
      <4>1. q \in Open /\ q # o /\ q \in Objects
        BY <3>1, <3>3
      <4>2. q \in toscan'
        BY <3>1, <4>1 DEF Open
      <4>3. gc_refs'[q] # 0
        BY <3>2, <4>1
      <4> QED BY <4>2, <4>3
    <3>5. \A q \in Open' : q \in toscan /\ gc_refs[q] # 0 => q \in toscan' /\ gc_refs'[q] # 0
      BY <3>1, <3>2, <3>3
    <3>6. \A q \in unreachable' : gc_refs'[q] = TENTATIVELY_UNREACHABLE
      BY <3>1, <3>2 DEF ScanInv, TypeOK
    <3>7. toscan' \cap unreachable' = {}
      BY <3>1 DEF ScanInv
    <3>8. \A q \in Open' : q \in Rooted' => q \in toscan' /\ gc_refs'[q] # 0
      BY <3>1, <3>5 DEF ScanInv
    <3>9. \A p \in alive' \ Open' : \A q \in refs'[p] \cap Open' : q \in toscan' /\ gc_refs'[q] # 0
      BY <3>1, <3>4, <3>5 DEF ScanInv
    <3> QED BY <3>6, <3>7, <3>8, <3>9 DEF ScanInv
  <2>3. ASSUME NEW o \in Objects, ScanUnreachable(o) PROVE ScanInv'
    <3>1. /\ Open' = Open /\ Rooted' = Rooted /\ alive' = alive /\ refs' = refs
          /\ unreachable' = unreachable \cup {o} /\ toscan' = toscan \ {o}
          /\ phase = "scan" /\ o \in toscan /\ gc_refs[o] = 0
          /\ gc_refs' = [gc_refs EXCEPT ![o] = TENTATIVELY_UNREACHABLE]
      BY <2>3 DEF ScanUnreachable, Open, Rooted
    <3> QED BY <3>1 DEF ScanInv, Open, TypeOK
  <2>4. ASSUME ~ \E o \in Objects : ScanReachable(o) \/ ScanUnreachable(o),
               ~ \E g \in Generations : Start(g)
        PROVE  ScanInv'
    <3>1. phase' # "scan"
      BY <1>3, <2>4 DEF Collect, MoveReachable, MoveFinalizers, ClearTrashRefs, CallBack, Clear,
                        Cleared, ClearRef, SetRefs, Finish, PhaseInv
    <3> QED BY <3>1 DEF ScanInv
  <2> QED BY <2>1, <2>2, <2>3, <2>4
<1> QED BY <1>1, <1>2, <1>3 DEF Next

\* move_finalizer_reachable has left the finalizers as the only way from outside
\* into what was found unreachable.
FinalizersInv ==
  phase = "finalizers" =>
    /\ unreachable \cap (Rooted \cup HasDel) = {}
    /\ \A p \in alive \ unreachable : refs[p] \cap unreachable # {} => p \in finalizers

\* Nothing with a finalizer, or that the program holds, is left to be cleared.
LEMMA FinalizersStep == ScanIInv /\ FinalizersInv /\ [Next]_vars => FinalizersInv'
<1> SUFFICES ASSUME ScanIInv, FinalizersInv, [Next]_vars PROVE FinalizersInv'
  OBVIOUS
<1>1. CASE UNCHANGED vars
  BY <1>1 DEF vars, lists, control, history, code, heap, FinalizersInv, Rooted
<1>2. CASE Program \/ Deallocate
  BY <1>2, Outside DEF ScanIInv, FinalizersInv
<1>3. CASE Collect
  <2> USE DEF lists, control, history, code, heap
  <2>1. CASE MoveFinalizers
    <3>1. /\ Rooted' = Rooted /\ alive' = alive /\ refs' = refs
          /\ unreachable' = unreachable \ HasDel /\ finalizers' = unreachable \cap HasDel
          /\ phase = "scan" /\ toscan = {} /\ Open = unreachable
      BY <2>1 DEF MoveFinalizers, Rooted, Open
    <3>2. unreachable \cap Rooted = {}
      BY <3>1 DEF ScanIInv, ScanInv
    <3>3. \A p \in alive \ unreachable : refs[p] \cap unreachable = {}
      BY <3>1 DEF ScanIInv, ScanInv
    <3> QED BY <3>1, <3>2, <3>3 DEF FinalizersInv
  <2>2. ASSUME NEW f \in Objects, MoveReachable(f) PROVE FinalizersInv'
    <3>1. /\ Rooted' = Rooted /\ alive' = alive /\ refs' = refs
          /\ unreachable' = unreachable \ refs[f]
          /\ finalizers' = finalizers \cup (refs[f] \cap unreachable)
          /\ phase = "finalizers"
      BY <2>2 DEF MoveReachable, Rooted
    <3> QED BY <3>1 DEF FinalizersInv
  <2>3. ASSUME ~MoveFinalizers, ~ \E f \in Objects : MoveReachable(f) PROVE FinalizersInv'
    <3>1. phase' # "finalizers"
      BY <1>3, <2>3 DEF Collect, Start, ScanReachable, ScanUnreachable, ClearTrashRefs, CallBack,
                        Clear, Cleared, ClearRef, SetRefs, Finish, ScanIInv, PhaseInv
    <3> QED BY <3>1 DEF FinalizersInv
  <2> QED BY <2>1, <2>2, <2>3
<1> QED BY <1>1, <1>2, <1>3 DEF Next

\* The invariant of the scan holds at first, ...
LEMMA InitIInv == Init => ScanIInv /\ FinalizersInv
<1> SUFFICES ASSUME Init PROVE ScanIInv /\ FinalizersInv
  OBVIOUS
<1>1. TypeOK
  <2>1. /\ gens \in [Generations -> SUBSET Objects]
        /\ gc_refs \in [Objects -> Int] /\ generation \in Generations
    BY GCAssumption DEF Init, UNTRACKED, Generations
  <2>2. /\ refs \in [Objects -> SUBSET Objects]
        /\ wr_object \in [Weakrefs -> Objects \cup {None}]
    BY DEF Init
  <2> QED BY <2>1, <2>2 DEF Init, TypeOK
<1>2. PhaseInv /\ ScanInv /\ FinalizersInv
  BY DEF Init, PhaseInv, ScanInv, FinalizersInv
<1> QED BY <1>1, <1>2 DEF ScanIInv

\* ... at every step, ...
LEMMA NextIInv == ScanIInv /\ FinalizersInv /\ [Next]_vars => (ScanIInv /\ FinalizersInv)'
<1> SUFFICES ASSUME ScanIInv, FinalizersInv, [Next]_vars PROVE (ScanIInv /\ FinalizersInv)'
  OBVIOUS
<1>1. TypeOK'
  <2>1. CASE UNCHANGED vars
    BY <2>1 DEF vars, lists, control, history, code, heap, ScanIInv, TypeOK
  <2> QED BY <2>1, ProgramType, DeallocateType, CollectType DEF Next, ScanIInv
<1> QED BY <1>1, PhaseStep, ScanStep, FinalizersStep DEF ScanIInv

\* ... and so in every reachable state.
LEMMA ScanInvariant == Spec => [](ScanIInv /\ FinalizersInv)
  BY InitIInv, NextIInv, PTL DEF Spec

\* The variables of GC keep their types.
THEOREM TypeCorrect == Spec => []TypeOK
<1>1. ScanIInv /\ FinalizersInv => TypeOK
  BY DEF ScanIInv
<1> QED BY <1>1, ScanInvariant, PTL

\* Whatever the heap, when move_unreachable ends nothing outside the objects it
\* found unreachable refers to one of them.
THEOREM UnreachableIsIsolated == Spec => []Isolated
<1>1. ScanIInv /\ FinalizersInv => Isolated
  BY DEF ScanIInv, ScanInv, Isolated, Open
<1> QED BY <1>1, ScanInvariant, PTL

-------------------------------------------------------------------------------
\* Lists, references and the trash are of live objects.
AliveInv ==
  /\ \A g \in Generations : gens[g] \subseteq alive
  /\ young \cup toscan \cup unreachable \cup finalizers \cup wrcb \cup clearing \cup trash
       \cup InHand \subseteq alive
  /\ \A p \in alive : refs[p] \subseteq alive
  /\ \A w \in Weakrefs : wr_object[w] \in alive \cup {None}
  /\ \A w \in Weakrefs \ alive : wr_object[w] = None

\* Every live object is in a list, ...
InList ==
  \A o \in alive :
    \/ \E g \in Generations : o \in gens[g]
    \/ o \in young \cup toscan \cup unreachable \cup finalizers \cup wrcb

\* ... in no two of them, and the lists that a phase builds are empty before it.
ListInv ==
  /\ InList
  /\ \A g, h \in Generations : g # h => gens[g] \cap gens[h] = {}
  /\ \A g \in Generations :
       gens[g] \cap (young \cup toscan \cup unreachable \cup finalizers \cup wrcb) = {}
  /\ young \cap (toscan \cup unreachable \cup finalizers \cup wrcb) = {}
  /\ toscan \cap (unreachable \cup finalizers \cup wrcb) = {}
  /\ unreachable \cap (finalizers \cup wrcb) = {}
  /\ finalizers \cap wrcb = {}
  /\ clearing \subseteq unreachable
  /\ phase \in {"idle", "scan"} => finalizers = {}

\* What the scan has found reachable so far, and what it has not.
Kept == young \cup {o \in toscan : gc_refs[o] # 0}
Doubtful == {o \in toscan : gc_refs[o] = 0} \cup unreachable

\* The scan keeps no object in vain: no set of objects that only they and the
\* doubtful ones refer to.
KeptInv ==
  phase = "scan" =>
    \A S \in SUBSET Kept : S # {} =>
      \/ S \cap Rooted # {}
      \/ \E p \in alive \ (S \cup Doubtful) : refs[p] \cap S # {}

\* Tuples do not refer to one another in circles.
TuplesInv ==
  \A S \in SUBSET (alive \cap NoClear) : S # {} =>
    \E o \in S : \A p \in S : o \notin refs[p]

\* Nothing but trash leads to trash, no weak reference in the trash waits to call
\* back, and what delete_garbage has done with refers to nothing, unless it cannot
\* be cleared.
TrashInv ==
  /\ trash \cap HasDel = {}
  /\ ~exposed =>
       /\ TrashUnseen
       /\ trash \cap wrcb = {}
       /\ \A w \in Weakrefs \ trash : wr_object[w] \notin trash
       /\ \A w \in Callbacks \cap trash : wr_object[w] = None
       /\ \A o \in trash \ (unreachable \cup NoClear) : refs[o] = {}
       /\ phase \in {"idle", "scan", "finalizers"} => trash = {}

\* References lead to objects that live when the program does a step, ...
LEMMA ProgramAlive == TypeOK /\ AliveInv /\ Program => AliveInv'
<1> SUFFICES ASSUME TypeOK, AliveInv, Program PROVE AliveInv'
  OBVIOUS
<1> USE GCAssumption DEF AliveInv, InHand, TypeOK, control, history, code
<1>1. ASSUME NEW o \in Objects, Alloc(o),
             \A p \in Objects \ {o} : refs'[p] = refs[p],
             refs'[o] \subseteq InHand,
             \A w \in Weakrefs \ {o} : wr_object'[w] = wr_object[w],
             o \in Weakrefs => wr_object'[o] = wr_object[o] \/ wr_object'[o] \in InHand
      PROVE  AliveInv'
  <2>1. /\ alive' = alive \cup {o} /\ held' = held \cup {o}
        /\ UNCHANGED <<running, trash, clearing, young, toscan, unreachable, finalizers, wrcb>>
        /\ \A g \in Generations : gens'[g] \subseteq gens[g] \cup {o}
    BY <1>1 DEF Alloc
  <2>2. /\ \A g \in Generations : gens'[g] \subseteq alive'
        /\ young' \cup toscan' \cup unreachable' \cup finalizers' \cup wrcb' \cup clearing'
             \cup trash' \cup InHand' \subseteq alive'
    BY <2>1
  <2>3. \A p \in alive' : refs'[p] \subseteq alive'
    BY <1>1, <2>1
  <2>4. /\ \A w \in Weakrefs : wr_object'[w] \in alive' \cup {None}
        /\ \A w \in Weakrefs \ alive' : wr_object'[w] = None
    BY <1>1, <2>1
  <2> QED BY <2>2, <2>3, <2>4
<1>2. ASSUME NEW o \in Objects, New(o) PROVE AliveInv'
  BY <1>1, <1>2 DEF New, Alloc
<1>3. ASSUME NEW o \in Objects, NewTuple(o) PROVE AliveInv'
  BY <1>1, <1>3 DEF NewTuple
<1>4. ASSUME NEW w \in Weakrefs, NewWeakref(w) PROVE AliveInv'
  <2>1. PICK c \in {{}} \cup (IF w \in Callbacks THEN {{d} : d \in InHand} ELSE {}) :
          refs' = [refs EXCEPT ![w] = c]
    BY <1>4 DEF NewWeakref
  <2>2. PICK o \in InHand : wr_object' = [wr_object EXCEPT ![w] = o]
    BY <1>4 DEF NewWeakref
  <2>3. c \subseteq InHand /\ Alloc(w)
    BY <1>4 DEF NewWeakref
  <2> QED BY <2>1, <2>2, <2>3, <1>1
<1> USE DEF lists
<1>5. ASSUME NEW b \in Objects, Hold(b) PROVE AliveInv'
  <2>1. held' = held \cup {b} /\ UNCHANGED <<alive, refs, wr_object, running, trash, lists, clearing>>
    BY <1>5 DEF Hold
  <2>2. b \in alive
    BY <1>5 DEF Hold, Obtainable
  <2> QED BY <2>1, <2>2
<1>6. ASSUME NEW o \in Objects, Release(o) \/ Leave(o) PROVE AliveInv'
  BY <1>6 DEF Release, Leave, heap
<1>7. ASSUME NEW a \in Objects, NEW b \in Objects, Store(a, b) \/ Remove(a, b) PROVE AliveInv'
  <2>1. UNCHANGED <<alive, held, running, wr_object, trash, lists, clearing>>
    BY <1>7 DEF Store, Remove, SetRefs
  <2>2. \A p \in Objects : refs'[p] \subseteq refs[p] \cup InHand
    BY <1>7 DEF Store, Remove, SetRefs
  <2> QED BY <2>1, <2>2
<1> QED BY <1>2, <1>3, <1>4, <1>5, <1>6, <1>7 DEF Program

\* ... when an object is deallocated, ...
LEMMA DeallocateAlive == TypeOK /\ PhaseInv /\ AliveInv /\ Deallocate => AliveInv'
<1> SUFFICES ASSUME TypeOK, PhaseInv, AliveInv, NEW o \in Objects, o \in Dying,
                    ClearWeakRefs(o) \/ Finalize(o) \/ Dealloc(o)
             PROVE AliveInv'
  BY DEF Deallocate, Dying, TypeOK
<1> USE GCAssumption DEF AliveInv, InHand, TypeOK, lists, control, history, code, heap
<1>0. young = {} /\ toscan = {}
  BY Outside DEF Deallocate, PhaseInv
<1>1. CASE ClearWeakRefs(o)
  <2> DEFINE called == {w \in WeakrefsTo(o) \cap Callbacks : ~Unreferenced(w)}
  <2>1. /\ running' = running \cup called \cup UNION {refs[w] : w \in called}
        /\ UNCHANGED <<alive, held, trash, lists, clearing>>
    BY <1>1 DEF ClearWeakRefs
  <2>2. \A p \in Objects : refs'[p] \subseteq refs[p]
    BY <1>1 DEF ClearWeakRefs
  <2>3. \A w \in Weakrefs : wr_object'[w] \in {wr_object[w], None}
    BY <1>1 DEF ClearWeakRefs
  <2>4. called \subseteq alive
    BY DEF WeakrefsTo
  <2>5. InHand' \subseteq alive'
    BY <2>1, <2>4
  <2> QED BY <2>1, <2>2, <2>3, <2>5
<1>2. CASE Finalize(o)
  BY <1>0, <1>2 DEF Finalize, Untrack, Dying
<1>3. CASE Dealloc(o)
  <2>1. /\ UNCHANGED <<held, running, clearing, wrcb>>
        /\ alive' = alive \ {o} /\ trash' = trash \ {o}
        /\ refs' = [refs EXCEPT ![o] = {}]
        /\ \A w \in Weakrefs : wr_object'[w] = IF w = o THEN None ELSE wr_object[w]
    BY <1>3 DEF Dealloc, Untrack
  <2>2. o \notin Rooted /\ \A p \in alive : o \notin refs[p]
    BY <1>3 DEF Dealloc, Dying, Unreferenced, Referrers
  <2>3. \A w \in Weakrefs : wr_object[w] # o
    BY <1>3 DEF Dealloc, WeakrefsTo
  <2>4. /\ \A g \in Generations : gens'[g] \subseteq alive'
        /\ young' \cup toscan' \cup unreachable' \cup finalizers' \subseteq alive'
    BY <1>0, <1>3, <2>1 DEF Dealloc, Untrack
  <2>5. wrcb' \cup clearing' \cup trash' \cup InHand' \subseteq alive'
    BY <2>1, <2>2 DEF Rooted
  <2>6. \A p \in alive' : refs'[p] \subseteq alive'
    BY <2>1, <2>2
  <2>7. /\ \A w \in Weakrefs : wr_object'[w] \in alive' \cup {None}
        /\ \A w \in Weakrefs \ alive' : wr_object'[w] = None
    BY <2>1, <2>3
  <2> QED BY <2>4, <2>5, <2>6, <2>7
<1> QED BY <1>1, <1>2, <1>3

\* ... when the collector does a step, ...
LEMMA CollectAlive == TypeOK /\ AliveInv /\ Collect => AliveInv'
<1> SUFFICES ASSUME TypeOK, AliveInv, Collect PROVE AliveInv'
  OBVIOUS
<1> USE GCAssumption DEF AliveInv, InHand, TypeOK, lists, control, history, code, heap
<1>0. Old \in Generations
  BY DEF Old, Generations
<1>1. ASSUME NEW g \in Generations, Start(g) PROVE AliveInv'
  BY <1>1 DEF Start, Generations
<1>2. ASSUME NEW o \in Objects, ScanReachable(o) \/ ScanUnreachable(o) \/ MoveReachable(o)
      PROVE  AliveInv'
  BY <1>2 DEF ScanReachable, ScanUnreachable, MoveReachable
<1>3. CASE MoveFinalizers
  BY <1>0, <1>3 DEF MoveFinalizers, ToOld
<1>4. CASE ClearTrashRefs
  <2>1. /\ trash' = trash \cup unreachable /\ UNCHANGED <<alive, refs, held, running, clearing>>
        /\ \A w \in Weakrefs : wr_object'[w] =
             IF wr_object[w] \in unreachable THEN None ELSE wr_object[w]
        /\ \A g \in Generations : gens'[g] \subseteq gens[g]
        /\ finalizers' \subseteq finalizers /\ UNCHANGED <<young, toscan, unreachable>>
        /\ \A w \in wrcb' : w \in Weakrefs /\ wr_object[w] \in unreachable
    BY <1>4 DEF ClearTrashRefs
  <2>2. wrcb' \subseteq alive
    BY <2>1
  <2> QED BY <2>1, <2>2
<1>5. ASSUME NEW w \in Weakrefs, CallBack(w) PROVE AliveInv'
  BY <1>0, <1>5 DEF CallBack, ToOld
<1>6. ASSUME NEW o \in Objects, Clear(o) PROVE AliveInv'
  BY <1>6 DEF Clear
<1>7. ASSUME NEW o \in Objects, Cleared(o) PROVE AliveInv'
  <2>1. o \in alive
    BY <1>7 DEF Cleared
  <2> QED BY <1>0, <1>7, <2>1 DEF Cleared, ToOld
<1>8. ASSUME NEW o \in Objects, NEW p \in Objects, ClearRef(o, p) PROVE AliveInv'
  BY <1>8 DEF ClearRef, SetRefs
<1>9. CASE Finish
  BY <1>0, <1>9 DEF Finish, ToOld
<1> QED BY <1>1, <1>2, <1>3, <1>4, <1>5, <1>6, <1>7, <1>8, <1>9 DEF Collect

\* ... and so at every step.
LEMMA AliveStep == TypeOK /\ PhaseInv /\ AliveInv /\ [Next]_vars => AliveInv'
<1> SUFFICES ASSUME TypeOK, PhaseInv, AliveInv, [Next]_vars PROVE AliveInv'
  OBVIOUS
<1>1. CASE UNCHANGED vars
  BY <1>1 DEF vars, lists, control, history, code, heap, AliveInv, InHand
<1> QED BY <1>1, ProgramAlive, DeallocateAlive, CollectAlive DEF Next

\* Every object is in its list, once, when the program does a step, ...
LEMMA ProgramLists == TypeOK /\ PhaseInv /\ AliveInv /\ ListInv /\ Program => ListInv'
<1> SUFFICES ASSUME TypeOK, PhaseInv, AliveInv, ListInv, Program PROVE ListInv'
  OBVIOUS
<1>1. UNCHANGED <<phase, young, toscan, unreachable, finalizers, wrcb, clearing>>
  BY DEF Program, New, NewTuple, NewWeakref, Alloc, Hold, Release, Leave, Store, Remove,
         SetRefs, lists, control
<1>2. ASSUME NEW o \in Objects, Alloc(o) PROVE ListInv'
  <2>1. /\ 0 \in Generations /\ o \notin alive /\ alive' = alive \cup {o}
        /\ gens' = [gens EXCEPT ![0] = @ \cup {o}]
    BY <1>2, GCAssumption DEF Alloc, Generations
  <2>2. /\ \A g \in Generations : o \notin gens[g]
        /\ o \notin young \cup toscan \cup unreachable \cup finalizers \cup wrcb
    BY <2>1 DEF AliveInv
  <2>3. \A g \in Generations : gens'[g] = IF g = 0 THEN gens[g] \cup {o} ELSE gens[g]
    BY <2>1 DEF TypeOK
  <2>4. InList'
    <3>1. ASSUME NEW p \in alive' PROVE (\E g \in Generations : p \in gens'[g])
               \/ p \in young' \cup toscan' \cup unreachable' \cup finalizers' \cup wrcb'
      <4>1. CASE p = o
        BY <2>1, <2>3, <4>1
      <4>2. CASE p \in alive
        BY <1>1, <2>3, <4>2 DEF ListInv, InList
      <4> QED BY <2>1, <4>1, <4>2
    <3> QED BY <3>1 DEF InList
  <2>5. \A g \in Generations : \A p \in gens'[g] : (p \in gens[g] /\ p # o) \/ (g = 0 /\ p = o)
    <3> TAKE g \in Generations
    <3>1. CASE g = 0
      BY <2>2, <2>3, <3>1
    <3>2. CASE g # 0
      BY <2>2, <2>3, <3>2
    <3> QED BY <3>1, <3>2
  <2>6. \A g, h \in Generations : g # h => gens'[g] \cap gens'[h] = {}
    <3> SUFFICES ASSUME NEW g \in Generations, NEW h \in Generations, g # h,
                        NEW p \in gens'[g], p \in gens'[h]
                 PROVE  FALSE
      OBVIOUS
    <3> QED BY <2>5 DEF ListInv
  <2>7. \A g \in Generations :
          gens'[g] \cap (young \cup toscan \cup unreachable \cup finalizers \cup wrcb) = {}
    BY <2>2, <2>5 DEF ListInv
  <2> QED BY <1>1, <2>4, <2>6, <2>7 DEF ListInv
<1>3. ASSUME UNCHANGED <<gens, alive>> PROVE ListInv'
  BY <1>1, <1>3 DEF ListInv, InList
<1>4. (\E o \in Objects : Alloc(o)) \/ UNCHANGED <<gens, alive>>
  <2>1. ASSUME NEW w \in Weakrefs, NewWeakref(w) PROVE \E o \in Objects : Alloc(o)
    BY <2>1, GCAssumption DEF NewWeakref
  <2>2. ASSUME NEW o \in Objects, New(o) \/ NewTuple(o) PROVE \E p \in Objects : Alloc(p)
    BY <2>2 DEF New, NewTuple
  <2>3. ASSUME NEW o \in Objects, Hold(o) \/ Release(o) \/ Leave(o) PROVE UNCHANGED <<gens, alive>>
    BY <2>3 DEF Hold, Release, Leave, lists, heap
  <2>4. ASSUME NEW a \in Objects, NEW b \in Objects, Store(a, b) \/ Remove(a, b)
        PROVE  UNCHANGED <<gens, alive>>
    BY <2>4 DEF Store, Remove, SetRefs, lists
  <2> QED BY <2>1, <2>2, <2>3, <2>4 DEF Program
<1> QED BY <1>2, <1>3, <1>4

\* ... when an object is deallocated, ...
LEMMA DeallocateLists == TypeOK /\ PhaseInv /\ AliveInv /\ ListInv /\ Deallocate => ListInv'
<1> SUFFICES ASSUME TypeOK, PhaseInv, AliveInv, ListInv, NEW o \in Objects, o \in Dying,
                    ClearWeakRefs(o) \/ Finalize(o) \/ Dealloc(o)
             PROVE ListInv'
  BY DEF Deallocate, Dying, TypeOK
<1>1. young = {} /\ toscan = {}
  BY Outside DEF Deallocate, PhaseInv
<1>2. o \in alive /\ o \notin wrcb \cup clearing
  BY DEF Dying, Unreferenced, Rooted
<1>3. CASE ClearWeakRefs(o)
  BY <1>3 DEF ClearWeakRefs, lists, control, ListInv, InList
<1>4. ASSUME NEW g0 \in {{}, {o}}, Untrack(o, g0),
             alive' = IF g0 = {} THEN alive \ {o} ELSE alive, UNCHANGED control
      PROVE  ListInv'
  <2>1. /\ \A g \in Generations :
             gens'[g] = IF g = 0 THEN (gens[g] \ {o}) \cup g0 ELSE gens[g] \ {o}
        /\ unreachable' = unreachable \ {o} /\ finalizers' = finalizers \ {o}
        /\ UNCHANGED <<young, toscan, wrcb, clearing, phase>>
    BY <1>4 DEF Untrack, control
  <2>2. InList'
    <3>1. ASSUME NEW p \in alive' PROVE (\E g \in Generations : p \in gens'[g])
               \/ p \in young' \cup toscan' \cup unreachable' \cup finalizers' \cup wrcb'
      <4>1. CASE p = o
        <5>1. g0 = {o} /\ 0 \in Generations
          BY <1>4, <3>1, <4>1, GCAssumption DEF Generations
        <5> QED BY <2>1, <4>1, <5>1
      <4>2. CASE p # o
        <5>1. p \in alive
          BY <1>4, <3>1
        <5>2. ASSUME NEW g \in Generations, p \in gens[g] PROVE p \in gens'[g]
          BY <2>1, <4>2, <5>2
        <5> QED BY <2>1, <4>2, <5>1, <5>2 DEF ListInv, InList
      <4> QED BY <4>1, <4>2
    <3> QED BY <3>1 DEF InList
  <2>3. \A g \in Generations : \A p \in gens'[g] : IF p = o THEN g = 0 ELSE p \in gens[g]
    BY <1>4, <2>1
  <2>4. /\ \A g, h \in Generations : g # h => gens'[g] \cap gens'[h] = {}
        /\ \A g \in Generations :
             gens'[g] \cap (young' \cup toscan' \cup unreachable' \cup finalizers' \cup wrcb') = {}
    BY <1>1, <1>2, <2>1, <2>3 DEF ListInv
  <2> QED BY <1>2, <2>1, <2>2, <2>4 DEF ListInv
<1>5. CASE Finalize(o)
  BY <1>4, <1>5 DEF Finalize, heap
<1>6. CASE Dealloc(o)
  BY <1>4, <1>6 DEF Dealloc, control
<1> QED BY <1>3, <1>5, <1>6

\* ... when the collector moves or clears objects, ...
LEMMA CollectLists == TypeOK /\ PhaseInv /\ AliveInv /\ ListInv /\ Collect => ListInv'
<1> SUFFICES ASSUME TypeOK, PhaseInv, AliveInv, ListInv, Collect PROVE ListInv'
  OBVIOUS
<1> USE DEF lists, control, code, heap
<1>0. Old \in Generations
  BY GCAssumption DEF TypeOK, Old, Generations
<1>1. ASSUME NEW g \in Generations, Start(g) PROVE ListInv'
  <2>1. /\ phase = "idle" /\ phase' = "scan"
        /\ toscan' = UNION {gens[i] : i \in 0 .. g}
        /\ \A i \in Generations : gens'[i] = IF i <= g THEN {} ELSE gens[i]
        /\ UNCHANGED <<alive, young, unreachable, finalizers, wrcb, clearing>>
    BY <1>1 DEF Start
  <2>g. 0 .. g = {i \in Generations : i <= g}
    BY GCAssumption DEF Generations
  <2>2. /\ young = {} /\ toscan = {} /\ unreachable = {} /\ finalizers = {} /\ wrcb = {}
        /\ clearing = {}
    BY <2>1 DEF PhaseInv, ListInv
  <2>3. InList'
    <3>1. ASSUME NEW p \in alive' PROVE p \in toscan' \/ \E i \in Generations : p \in gens'[i]
      <4>1. PICK i \in Generations : p \in gens[i]
        BY <2>1, <2>2, <3>1 DEF ListInv, InList
      <4>2. CASE i <= g
        BY <2>1, <2>g, <4>1, <4>2
      <4>3. CASE ~(i <= g)
        BY <2>1, <4>1, <4>3
      <4> QED BY <4>2, <4>3
    <3> QED BY <3>1 DEF InList
  <2>4. \A i \in Generations : gens'[i] \cap toscan' = {}
    BY <2>1, <2>g DEF ListInv
  <2>5. \A i, j \in Generations : i # j => gens'[i] \cap gens'[j] = {}
    BY <2>1 DEF ListInv
  <2> QED BY <2>1, <2>2, <2>3, <2>4, <2>5 DEF ListInv
<1>2. ASSUME NEW o \in Objects, ScanReachable(o) \/ ScanUnreachable(o) PROVE ListInv'
  <2>1. /\ UNCHANGED <<alive, gens, finalizers, wrcb, clearing, phase>> /\ o \in toscan
        /\ phase = "scan"
    BY <1>2 DEF ScanReachable, ScanUnreachable
  <2>2. clearing = {}
    BY <2>1 DEF PhaseInv
  <2>3. CASE ScanReachable(o)
    BY <2>1, <2>2, <2>3 DEF ScanReachable, ListInv, InList
  <2>4. CASE ScanUnreachable(o)
    BY <2>1, <2>2, <2>4 DEF ScanUnreachable, ListInv, InList
  <2> QED BY <1>2, <2>3, <2>4
<1>3. ASSUME NEW f \in Objects, MoveReachable(f) PROVE ListInv'
  <2>1. /\ UNCHANGED <<alive, gens, young, toscan, wrcb, clearing, phase>>
        /\ phase = "finalizers" /\ clearing = {}
        /\ \E moved \in SUBSET unreachable :
             finalizers' = finalizers \cup moved /\ unreachable' = unreachable \ moved
    BY <1>3 DEF MoveReachable, PhaseInv
  <2> QED BY <2>1 DEF ListInv, InList
<1>4. ASSUME NEW S, \A g \in Generations : gens'[g] = IF g = Old THEN gens[g] \cup S ELSE gens[g],
             UNCHANGED alive,
             \A o \in Objects :
               o \in young \cup toscan \cup unreachable \cup finalizers \cup wrcb <=>
                 \/ o \in young' \cup toscan' \cup unreachable' \cup finalizers' \cup wrcb'
                 \/ o \in S,
             S \subseteq young \cup toscan \cup unreachable \cup finalizers \cup wrcb,
             S \cap (young' \cup toscan' \cup unreachable' \cup finalizers' \cup wrcb') = {}
      PROVE  /\ InList'
             /\ \A g, h \in Generations : g # h => gens'[g] \cap gens'[h] = {}
             /\ \A g \in Generations : gens'[g] \cap
                  (young' \cup toscan' \cup unreachable' \cup finalizers' \cup wrcb') = {}
  <2>1. InList'
    <3>1. ASSUME NEW p \in alive' PROVE (\E g \in Generations : p \in gens'[g])
               \/ p \in young' \cup toscan' \cup unreachable' \cup finalizers' \cup wrcb'
      <4>1. CASE \E g \in Generations : p \in gens[g]
        BY <1>4, <4>1
      <4>2. CASE p \in young \cup toscan \cup unreachable \cup finalizers \cup wrcb
        BY <1>0, <1>4, <3>1, <4>2 DEF TypeOK
      <4> QED BY <1>4, <3>1, <4>1, <4>2 DEF ListInv, InList
    <3> QED BY <3>1 DEF InList
  <2>2. \A g, h \in Generations : g # h => gens'[g] \cap gens'[h] = {}
    BY <1>4 DEF ListInv
  <2>3. young' \cup toscan' \cup unreachable' \cup finalizers' \cup wrcb' \subseteq Objects =>
          \A g \in Generations : gens'[g] \cap
            (young' \cup toscan' \cup unreachable' \cup finalizers' \cup wrcb') = {}
    BY <1>4 DEF ListInv
  <2>4. young' \cup toscan' \cup unreachable' \cup finalizers' \cup wrcb' \subseteq Objects
    <3>1. TypeOK'
      BY CollectType
    <3> QED BY <3>1, GCAssumption DEF TypeOK
  <2> QED BY <2>1, <2>2, <2>3, <2>4
<1>5. CASE MoveFinalizers
  <2>1. /\ UNCHANGED <<alive, toscan, wrcb, clearing>> /\ young' = {}
        /\ \A g \in Generations :
             gens'[g] = IF g = Old THEN gens[g] \cup young ELSE gens[g]
        /\ phase = "scan" /\ phase' = "finalizers" /\ toscan = {}
        /\ finalizers' = unreachable \cap HasDel /\ unreachable' = unreachable \ HasDel
    BY <1>0, <1>5 DEF MoveFinalizers, ToOld, TypeOK
  <2>2. clearing = {} /\ wrcb = {} /\ finalizers = {}
    BY <2>1 DEF PhaseInv, ListInv
  <2>3. \A o \in Objects :
          o \in young \cup toscan \cup unreachable \cup finalizers \cup wrcb <=>
            \/ o \in young' \cup toscan' \cup unreachable' \cup finalizers' \cup wrcb'
            \/ o \in young
    BY <2>1, <2>2
  <2>4. /\ young \subseteq young \cup toscan \cup unreachable \cup finalizers \cup wrcb
        /\ young \cap (young' \cup toscan' \cup unreachable' \cup finalizers' \cup wrcb') = {}
    BY <2>1, <2>2 DEF ListInv
  <2> QED BY ZenonT(60), <1>4, <2>1, <2>2, <2>3, <2>4 DEF ListInv
<1>6. CASE ClearTrashRefs
  <2>1. /\ UNCHANGED <<alive, young, toscan, unreachable, clearing>>
        /\ \A g \in Generations : gens'[g] = gens[g] \ wrcb'
        /\ finalizers' = finalizers \ wrcb' /\ wrcb' \cap unreachable = {}
        /\ phase = "finalizers" /\ phase' = "weakrefs"
    BY <1>6 DEF ClearTrashRefs
  <2>2. wrcb = {} /\ clearing = {} /\ young = {} /\ toscan = {}
    BY <2>1 DEF PhaseInv
  <2> QED BY <2>1, <2>2 DEF ListInv, InList
<1>7. ASSUME NEW w \in Weakrefs, CallBack(w) PROVE ListInv'
  <2>1. /\ UNCHANGED <<alive, young, toscan, unreachable, finalizers, clearing, phase>>
        /\ \A g \in Generations :
             gens'[g] = IF g = Old THEN gens[g] \cup {w} ELSE gens[g]
        /\ w \in wrcb /\ wrcb' = wrcb \ {w}
    BY <1>0, <1>7 DEF CallBack, ToOld, TypeOK
  <2>2. \A o \in Objects :
          o \in young \cup toscan \cup unreachable \cup finalizers \cup wrcb <=>
            \/ o \in young' \cup toscan' \cup unreachable' \cup finalizers' \cup wrcb'
            \/ o \in {w}
    BY <2>1
  <2>3. /\ {w} \subseteq young \cup toscan \cup unreachable \cup finalizers \cup wrcb
        /\ {w} \cap (young' \cup toscan' \cup unreachable' \cup finalizers' \cup wrcb') = {}
    BY <2>1 DEF ListInv
  <2>4. /\ InList'
        /\ \A g, h \in Generations : g # h => gens'[g] \cap gens'[h] = {}
        /\ \A g \in Generations : gens'[g] \cap
             (young' \cup toscan' \cup unreachable' \cup finalizers' \cup wrcb') = {}
    BY <1>4, <2>1, <2>2, <2>3
  <2> QED BY <2>1, <2>4 DEF ListInv
<1>8. ASSUME NEW o \in Objects, Clear(o) PROVE ListInv'
  BY <1>8 DEF Clear, ListInv, InList
<1>9. ASSUME NEW o \in Objects, Cleared(o) PROVE ListInv'
  <2>1. CASE UNCHANGED <<gens, unreachable>>
    BY <1>9, <2>1 DEF Cleared, ListInv, InList
  <2>2. CASE ToOld({o}) /\ unreachable' = unreachable \ {o}
    <3>1. /\ UNCHANGED <<alive, young, toscan, finalizers, wrcb, phase>>
          /\ o \in unreachable /\ clearing' = {}
          /\ \A g \in Generations :
               gens'[g] = IF g = Old THEN gens[g] \cup {o} ELSE gens[g]
      BY <1>0, <1>9, <2>2 DEF Cleared, ToOld, TypeOK, ListInv
    <3>2. \A p \in Objects :
            p \in young \cup toscan \cup unreachable \cup finalizers \cup wrcb <=>
              \/ p \in young' \cup toscan' \cup unreachable' \cup finalizers' \cup wrcb'
              \/ p \in {o}
      BY <2>2, <3>1
    <3>3. /\ {o} \subseteq young \cup toscan \cup unreachable \cup finalizers \cup wrcb
          /\ {o} \cap (young' \cup toscan' \cup unreachable' \cup finalizers' \cup wrcb') = {}
      BY <2>2, <3>1 DEF ListInv
    <3>4. /\ InList'
          /\ \A g, h \in Generations : g # h => gens'[g] \cap gens'[h] = {}
          /\ \A g \in Generations : gens'[g] \cap
               (young' \cup toscan' \cup unreachable' \cup finalizers' \cup wrcb') = {}
      BY <1>4, <3>1, <3>2, <3>3
    <3> QED BY <2>2, <3>1, <3>4 DEF ListInv
  <2> QED BY <1>9, <2>1, <2>2 DEF Cleared
<1>10. ASSUME NEW o \in Objects, NEW p \in Objects, ClearRef(o, p) PROVE ListInv'
  BY <1>10 DEF ClearRef, SetRefs, ListInv, InList
<1>11. CASE Finish
  <2>1. /\ UNCHANGED <<alive, young, toscan, unreachable, wrcb, clearing>> /\ finalizers' = {}
        /\ \A g \in Generations :
             gens'[g] = IF g = Old THEN gens[g] \cup finalizers ELSE gens[g]
        /\ wrcb = {} /\ unreachable = {} /\ phase' = "idle" /\ young = {} /\ toscan = {}
    BY <1>0, <1>11 DEF Finish, ToOld, TypeOK, PhaseInv
  <2>2. \A o \in Objects :
          o \in young \cup toscan \cup unreachable \cup finalizers \cup wrcb <=>
            \/ o \in young' \cup toscan' \cup unreachable' \cup finalizers' \cup wrcb'
            \/ o \in finalizers
    BY <2>1
  <2>3. /\ finalizers \subseteq young \cup toscan \cup unreachable \cup finalizers \cup wrcb
        /\ finalizers \cap
             (young' \cup toscan' \cup unreachable' \cup finalizers' \cup wrcb') = {}
    BY <2>1
  <2>4. /\ InList'
        /\ \A g, h \in Generations : g # h => gens'[g] \cap gens'[h] = {}
        /\ \A g \in Generations : gens'[g] \cap
             (young' \cup toscan' \cup unreachable' \cup finalizers' \cup wrcb') = {}
    BY <1>4, <2>1, <2>2, <2>3
  <2> QED BY <2>1, <2>4 DEF ListInv
<1> QED
  BY <1>1, <1>2, <1>3, <1>5, <1>6, <1>7, <1>8, <1>9, <1>10, <1>11 DEF Collect

\* ... and so at every step.
LEMMA ListStep == TypeOK /\ PhaseInv /\ AliveInv /\ ListInv /\ [Next]_vars => ListInv'
<1> SUFFICES ASSUME TypeOK, PhaseInv, AliveInv, ListInv, [Next]_vars PROVE ListInv'
  OBVIOUS
<1>1. CASE UNCHANGED vars
  BY <1>1 DEF vars, lists, control, heap, ListInv, InList
<1> QED BY <1>1, ProgramLists, DeallocateLists, CollectLists DEF Next

\* The marks in gc_refs tell the lists apart at every step.
LEMMA MarkedStep ==
  TypeOK /\ PhaseInv /\ AliveInv /\ ListInv /\ Marked /\ [Next]_vars => Marked'
<1> SUFFICES ASSUME TypeOK, PhaseInv, AliveInv, ListInv, Marked, [Next]_vars PROVE Marked'
  OBVIOUS
<1> USE DEF Marked
<1>0. TypeOK'
  <2>1. CASE UNCHANGED vars
    BY <2>1 DEF vars, lists, control, history, code, heap, TypeOK
  <2> QED BY <2>1, ProgramType, DeallocateType, CollectType DEF Next
<1>1. CASE UNCHANGED vars
  BY <1>1 DEF vars, lists, heap
<1>2. ASSUME NEW o \in Objects, UNCHANGED toscan, toscan = {}, unreachable' = unreachable \ {o},
             alive' = alive \cup {o}, gc_refs' = [gc_refs EXCEPT ![o] = REACHABLE]
      PROVE  Marked'
  BY <1>2 DEF TypeOK
<1>3. ASSUME UNCHANGED <<toscan, unreachable, gc_refs>>, alive' \subseteq alive PROVE Marked'
  BY <1>3
<1>4. CASE Program
  <2>1. toscan = {} /\ UNCHANGED toscan
    BY <1>4, Outside DEF PhaseInv
  <2>2. ASSUME NEW o \in Objects, Alloc(o) PROVE Marked'
    <3>1. /\ unreachable' = unreachable \ {o}
          /\ alive' = alive \cup {o} /\ gc_refs' = [gc_refs EXCEPT ![o] = REACHABLE]
      BY <2>2 DEF Alloc, AliveInv
    <3> QED BY <2>1, <3>1, <1>2
  <2>3. ASSUME NEW o \in Objects, New(o) \/ NewTuple(o) PROVE Marked'
    BY <2>2, <2>3 DEF New, NewTuple
  <2>4. ASSUME NEW w \in Weakrefs, NewWeakref(w) PROVE Marked'
    BY <2>2, <2>4, GCAssumption DEF NewWeakref
  <2>5. ASSUME NEW o \in Objects, Hold(o) \/ Release(o) \/ Leave(o) PROVE Marked'
    BY <1>3, <2>5 DEF Hold, Release, Leave, lists, heap
  <2>6. ASSUME NEW a \in Objects, NEW b \in Objects, Store(a, b) \/ Remove(a, b) PROVE Marked'
    BY <1>3, <2>6 DEF Store, Remove, SetRefs, lists
  <2> QED BY <1>4, <2>3, <2>4, <2>5, <2>6 DEF Program
<1>5. CASE Deallocate
  <2>1. toscan = {} /\ UNCHANGED toscan
    BY <1>5, Outside DEF PhaseInv
  <2>2. PICK o \in Dying : ClearWeakRefs(o) \/ Finalize(o) \/ Dealloc(o)
    BY <1>5 DEF Deallocate
  <2>3. o \in alive /\ o \in Objects
    BY <2>2 DEF Dying, TypeOK
  <2>4. CASE ClearWeakRefs(o)
    BY <1>3, <2>4 DEF ClearWeakRefs, lists
  <2>5. CASE Finalize(o)
    <3>1. /\ alive' = alive \cup {o} /\ gc_refs' = [gc_refs EXCEPT ![o] = REACHABLE]
          /\ unreachable' = unreachable \ {o}
      BY <2>3, <2>5 DEF Finalize, Untrack, heap
    <3> QED BY <1>2, <2>1, <2>3, <3>1
  <2>6. CASE Dealloc(o)
    BY <2>1, <2>3, <2>6 DEF Dealloc, Untrack, TypeOK
  <2> QED BY <2>2, <2>4, <2>5, <2>6
<1>6. CASE Collect
  <2> USE DEF lists, control, code, heap
  <2>1. ASSUME NEW g \in Generations, Start(g) PROVE Marked'
    <3>1. /\ unreachable = {} /\ toscan = {} /\ UNCHANGED <<alive, unreachable>>
          /\ \A o \in Objects : gc_refs'[o] =
               IF o \in toscan' THEN RefCount(o) - Cardinality(Referrers(o) \cap toscan')
                                ELSE gc_refs[o]
      BY <2>1 DEF Start, PhaseInv
    <3>2. ASSUME NEW o \in toscan' PROVE gc_refs'[o] >= 0
      <4>1. /\ IsFiniteSet(Referrers(o)) /\ IsFiniteSet(Referrers(o) \cap toscan')
            /\ Cardinality(Referrers(o) \cap toscan') <= Cardinality(Referrers(o))
        BY FS_Subset, GCAssumption DEF TypeOK, Referrers
      <4>2. Cardinality(Referrers(o)) \in Nat /\ Cardinality(Referrers(o) \cap toscan') \in Nat
        BY <4>1, FS_CardinalityType
      <4>3. RefCount(o) \in Nat /\ RefCount(o) >= Cardinality(Referrers(o))
        BY <4>2 DEF RefCount
      <4>4. o \in Objects
        BY <1>0 DEF TypeOK
      <4> QED BY <3>1, <4>1, <4>2, <4>3, <4>4
    <3> QED BY <1>0, <3>1, <3>2 DEF TypeOK
  <2>2. ASSUME NEW o \in Objects, ScanReachable(o) PROVE Marked'
    <3> DEFINE back == refs[o] \cap unreachable
               visited == {p \in refs[o] \ {o} : gc_refs[p] \in {0, TENTATIVELY_UNREACHABLE}}
    <3>1. /\ o \in toscan /\ toscan' = (toscan \ {o}) \cup back
          /\ unreachable' = unreachable \ back /\ UNCHANGED alive
          /\ \A p \in Objects : gc_refs'[p] = IF p = o THEN REACHABLE
                                             ELSE IF p \in visited THEN 1 ELSE gc_refs[p]
      BY <2>2 DEF ScanReachable
    <3>2. o \notin unreachable /\ o \in alive /\ back \subseteq visited /\ refs[o] \subseteq alive
      BY <3>1 DEF ListInv, AliveInv
    <3>3. visited \subseteq toscan \cup unreachable
      BY <3>2 DEF REACHABLE, TENTATIVELY_UNREACHABLE
    <3>4. ASSUME NEW p \in unreachable' PROVE gc_refs'[p] = TENTATIVELY_UNREACHABLE
      <4>1. p \in Objects /\ p # o /\ p \notin visited
        BY <3>1, <3>2, <3>4 DEF TypeOK
      <4> QED BY <3>1, <3>4, <4>1
    <3>5. ASSUME NEW p \in toscan' PROVE gc_refs'[p] >= 0
      <4>1. p \in Objects /\ p # o
        BY <3>1, <3>2, <3>5, <1>0 DEF TypeOK
      <4>2. CASE p \in visited
        BY <3>1, <4>1, <4>2
      <4>3. CASE p \notin visited
        <5>1. p \in toscan /\ gc_refs'[p] = gc_refs[p]
          BY <3>1, <3>2, <3>5, <4>1, <4>3
        <5> QED BY <5>1
      <4> QED BY <4>2, <4>3
    <3>6. ASSUME NEW p \in alive' \ (toscan' \cup unreachable') PROVE gc_refs'[p] = REACHABLE
      <4>1. p \in Objects /\ p \notin back /\ (p = o \/ p \notin toscan \cup unreachable)
        BY <3>1, <3>6 DEF TypeOK
      <4>2. CASE p = o
        BY <3>1, <4>1, <4>2
      <4>3. CASE p # o
        BY <3>1, <3>3, <4>1, <4>3
      <4> QED BY <4>2, <4>3
    <3> QED BY <3>4, <3>5, <3>6
  <2>3. ASSUME NEW o \in Objects, ScanUnreachable(o) PROVE Marked'
    <3>1. /\ o \in toscan /\ toscan' = toscan \ {o} /\ UNCHANGED alive
          /\ unreachable' = unreachable \cup {o}
          /\ \A p \in Objects :
               gc_refs'[p] = IF p = o THEN TENTATIVELY_UNREACHABLE ELSE gc_refs[p]
      BY <2>3 DEF ScanUnreachable, TypeOK
    <3> QED BY <3>1 DEF TypeOK
  <2>4. ASSUME NEW f \in Objects, MoveReachable(f) PROVE Marked'
    <3>1. PICK moved \in SUBSET unreachable :
            /\ unreachable' = unreachable \ moved /\ UNCHANGED <<alive, toscan>>
            /\ \A o \in Objects : gc_refs'[o] = IF o \in moved THEN REACHABLE ELSE gc_refs[o]
      BY <2>4 DEF MoveReachable
    <3>2. toscan \cap moved = {}
      BY DEF ListInv
    <3> QED BY <3>1, <3>2 DEF TypeOK
  <2>5. CASE MoveFinalizers
    <3>1. /\ unreachable' = unreachable \ HasDel /\ UNCHANGED <<alive, toscan>> /\ toscan = {}
          /\ \A o \in Objects :
               gc_refs'[o] = IF o \in unreachable \cap HasDel THEN REACHABLE ELSE gc_refs[o]
      BY <2>5 DEF MoveFinalizers
    <3> QED BY <3>1 DEF TypeOK
  <2>6. CASE ClearTrashRefs
    BY <1>3, <2>6 DEF ClearTrashRefs
  <2>7. ASSUME NEW w \in Weakrefs, CallBack(w) PROVE Marked'
    BY <1>3, <2>7 DEF CallBack
  <2>8. ASSUME NEW o \in Objects, Clear(o) PROVE Marked'
    BY <1>3, <2>8 DEF Clear
  <2>9. ASSUME NEW o \in Objects, Cleared(o) PROVE Marked'
    <3>1. UNCHANGED <<alive, toscan>> /\ o \in alive
      BY <2>9 DEF Cleared, AliveInv
    <3>2. \/ UNCHANGED <<unreachable, gc_refs>>
          \/ unreachable' = unreachable \ {o} /\ gc_refs' = [gc_refs EXCEPT ![o] = REACHABLE]
      BY <2>9 DEF Cleared
    <3>3. toscan = {}
      BY <2>9 DEF Cleared, PhaseInv
    <3> QED BY <3>1, <3>2, <3>3 DEF TypeOK
  <2>10. ASSUME NEW o \in Objects, NEW p \in Objects, ClearRef(o, p) PROVE Marked'
    BY <1>3, <2>10 DEF ClearRef, SetRefs
  <2>11. CASE Finish
    BY <1>3, <2>11 DEF Finish
  <2> QED BY <1>6, <2>1, <2>2, <2>3, <2>4, <2>5, <2>6, <2>7, <2>8, <2>9, <2>10, <2>11 DEF Collect
<1> QED BY <1>1, <1>4, <1>5, <1>6 DEF Next

\* Sets that have nothing in common are counted one by one.
LEMMA DisjointUnion ==
  ASSUME NEW S, IsFiniteSet(S), NEW T, IsFiniteSet(T), S \cap T = {}
  PROVE  IsFiniteSet(S \cup T) /\ Cardinality(S \cup T) = Cardinality(S) + Cardinality(T)
<1>1. Cardinality(S) \in Nat /\ Cardinality(T) \in Nat /\ Cardinality(S \cap T) = 0
  BY FS_CardinalityType, FS_EmptySet
<1>2. /\ IsFiniteSet(S \cup T)
      /\ Cardinality(S \cup T) = Cardinality(S) + Cardinality(T) - Cardinality(S \cap T)
  BY FS_Union
<1> QED BY <1>1, <1>2

\* Lists without common objects are as long as the objects that they hold are many.
LEMMA ListedFromInv == TypeOK /\ AliveInv /\ ListInv => Listed
<1> SUFFICES ASSUME TypeOK, AliveInv, ListInv PROVE Listed
  OBVIOUS
<1>1. /\ IsFiniteSet(young) /\ IsFiniteSet(toscan) /\ IsFiniteSet(unreachable)
      /\ IsFiniteSet(finalizers) /\ IsFiniteSet(wrcb)
  BY FS_Subset, GCAssumption DEF TypeOK
<1>2. /\ Cardinality(young) \in Nat /\ Cardinality(toscan) \in Nat
      /\ Cardinality(unreachable) \in Nat /\ Cardinality(finalizers) \in Nat
      /\ Cardinality(wrcb) \in Nat
  BY <1>1, FS_CardinalityType
<1>3. /\ IsFiniteSet(young \cup toscan)
      /\ Cardinality(young \cup toscan) = Cardinality(young) + Cardinality(toscan)
  BY <1>1, DisjointUnion DEF ListInv
<1>4. /\ IsFiniteSet(young \cup toscan \cup unreachable)
      /\ Cardinality(young \cup toscan \cup unreachable)
           = Cardinality(young \cup toscan) + Cardinality(unreachable)
  <2>1. (young \cup toscan) \cap unreachable = {}
    BY DEF ListInv
  <2> QED BY <1>1, <1>3, <2>1, DisjointUnion
<1>5. /\ IsFiniteSet(young \cup toscan \cup unreachable \cup finalizers)
      /\ Cardinality(young \cup toscan \cup unreachable \cup finalizers)
           = Cardinality(young \cup toscan \cup unreachable) + Cardinality(finalizers)
  <2>1. (young \cup toscan \cup unreachable) \cap finalizers = {}
    BY DEF ListInv
  <2> QED BY <1>1, <1>4, <2>1, DisjointUnion
<1>6. Cardinality(young \cup toscan \cup unreachable \cup finalizers \cup wrcb)
        = Cardinality(young \cup toscan \cup unreachable \cup finalizers) + Cardinality(wrcb)
  <2>1. (young \cup toscan \cup unreachable \cup finalizers) \cap wrcb = {}
    BY DEF ListInv
  <2> QED BY <1>1, <1>5, <2>1, DisjointUnion
<1>7. Cardinality(young) + Cardinality(toscan) + Cardinality(unreachable)
          + Cardinality(finalizers) + Cardinality(wrcb)
        = Cardinality(young \cup toscan \cup unreachable \cup finalizers \cup wrcb)
  BY <1>2, <1>3, <1>4, <1>5, <1>6
<1>8. UNION ({gens[g] : g \in Generations}
               \cup {young, toscan, unreachable, finalizers, wrcb}) = alive
  <2> DEFINE in == {gens[g] : g \in Generations}
                     \cup {young, toscan, unreachable, finalizers, wrcb}
  <2>1. ASSUME NEW o \in alive PROVE o \in UNION in
    <3>1. CASE \E g \in Generations : o \in gens[g]
      BY <3>1
    <3>2. CASE o \in young \cup toscan \cup unreachable \cup finalizers \cup wrcb
      BY <3>2
    <3> QED BY <3>1, <3>2 DEF ListInv, InList
  <2>2. ASSUME NEW L \in in PROVE L \subseteq alive
    BY DEF AliveInv
  <2> QED BY <2>1, <2>2
<1> QED BY <1>7, <1>8 DEF Listed, ListInv

\* What the counts of Start leave: an object whose count is not zero is referred
\* to from outside S.
LEMMA InsideCounts ==
  ASSUME TypeOK, GCAssumption, NEW o \in Objects, NEW S,
         RefCount(o) - Cardinality(Referrers(o) \cap S) # 0
  PROVE  o \in Rooted \/ \E p \in alive \ S : o \in refs[p]
<1> SUFFICES ASSUME o \notin Rooted, \A p \in alive \ S : o \notin refs[p] PROVE FALSE
  OBVIOUS
<1>1. Referrers(o) \cap S = Referrers(o)
  BY DEF Referrers
<1>2. IsFiniteSet(Referrers(o))
  BY FS_Subset DEF TypeOK, GCAssumption, Referrers
<1>3. Cardinality(Referrers(o)) \in Nat
  BY <1>2, FS_CardinalityType
<1>4. RefCount(o) = Cardinality(Referrers(o)) + 0
  BY DEF RefCount
<1>5. Cardinality(Referrers(o) \cap S) = Cardinality(Referrers(o))
  BY <1>1
<1> QED BY <1>3, <1>4, <1>5

\* The scan keeps nothing in vain at any step.
LEMMA KeptStep ==
  ScanIInv /\ AliveInv /\ ListInv /\ Marked /\ KeptInv /\ [Next]_vars => KeptInv'
<1> SUFFICES ASSUME ScanIInv, AliveInv, ListInv, Marked, KeptInv, [Next]_vars, phase' = "scan",
                    NEW S \in SUBSET Kept', S # {}
             PROVE  S \cap Rooted' # {}
                      \/ \E p \in alive' \ (S \cup Doubtful') : refs'[p] \cap S # {}
  BY DEF KeptInv
<1> USE DEF ScanIInv, lists, control, code, heap
<1>1. CASE UNCHANGED vars
  BY <1>1 DEF vars, Kept, Doubtful, Rooted, KeptInv
<1>2. CASE Program \/ Deallocate
  BY <1>2, Outside
<1>3. ASSUME NEW g \in Generations, Start(g)
      PROVE  \/ S \cap Rooted' # {}
             \/ \E p \in alive' \ (S \cup Doubtful') : refs'[p] \cap S # {}
  <2>1. /\ young' = {} /\ unreachable' = {} /\ Rooted' = Rooted /\ UNCHANGED <<alive, refs>>
        /\ \A o \in Objects : o \in toscan' =>
             gc_refs'[o] = RefCount(o) - Cardinality(Referrers(o) \cap toscan')
    BY <1>3 DEF Start, Rooted, PhaseInv
  <2>2. PICK o \in S : TRUE
    OBVIOUS
  <2>3. o \in toscan' /\ gc_refs'[o] # 0 /\ o \in Objects
    <3>1. toscan' \subseteq Objects
      BY <1>3, CollectType DEF Collect, TypeOK
    <3> QED BY <2>1, <2>2, <3>1 DEF Kept
  <2>4. o \in Rooted \/ \E p \in alive \ toscan' : o \in refs[p]
    BY ZenonT(60), <2>1, <2>3, InsideCounts, GCAssumption
  <2>5. S \cup Doubtful' \subseteq toscan'
    BY <2>1 DEF Kept, Doubtful
  <2> QED BY <2>1, <2>2, <2>4, <2>5
<1>4. ASSUME NEW o \in Objects, ScanReachable(o)
      PROVE  \/ S \cap Rooted' # {}
             \/ \E p \in alive' \ (S \cup Doubtful') : refs'[p] \cap S # {}
  <2> DEFINE back == refs[o] \cap unreachable
             visited == {p \in refs[o] \ {o} : gc_refs[p] \in {0, TENTATIVELY_UNREACHABLE}}
  <2>1. /\ o \in toscan /\ gc_refs[o] # 0 /\ toscan' = (toscan \ {o}) \cup back
        /\ unreachable' = unreachable \ back /\ young' = young \cup {o}
        /\ \A p \in Objects : gc_refs'[p] = IF p = o THEN REACHABLE
                                           ELSE IF p \in visited THEN 1 ELSE gc_refs[p]
        /\ UNCHANGED <<alive, refs, held, running, wrcb, clearing, phase>>
    BY <1>4 DEF ScanReachable
  <2>2. o \notin unreachable /\ o \in alive /\ refs[o] \subseteq alive /\ alive \subseteq Objects
    BY <2>1 DEF ListInv, AliveInv, TypeOK
  <2>3. back \subseteq visited /\ visited \subseteq Doubtful
    BY <2>2 DEF REACHABLE, TENTATIVELY_UNREACHABLE, Marked, Doubtful
  <2>4. Kept' \subseteq Kept \cup visited
    <3>1. ASSUME NEW p \in Kept' PROVE p \in Kept \cup visited
      <4>1. CASE p \in young \/ p = o
        BY <2>1, <4>1 DEF Kept
      <4>2. CASE p \in toscan \ {o} /\ gc_refs'[p] # 0
        BY <2>1, <2>2, <4>2 DEF Kept, AliveInv
      <4> QED BY <2>1, <2>3, <3>1, <4>1, <4>2 DEF Kept
    <3> QED BY <3>1
  <2>5. Doubtful' \subseteq Doubtful \ visited
    <3>1. ASSUME NEW p \in Doubtful' PROVE p \in Doubtful /\ p \notin visited
      <4>1. p \in Objects /\ p # o
        BY <2>1, <2>2, <3>1 DEF Doubtful, AliveInv
      <4>2. CASE p \in unreachable'
        <5>1. p \in unreachable /\ p \notin refs[o]
          BY <2>1, <4>2
        <5> QED BY <5>1 DEF Doubtful
      <4>3. CASE p \in toscan' /\ gc_refs'[p] = 0
        <5>1. p \notin visited
          BY <2>1, <4>1, <4>3
        <5>2. p \in toscan /\ gc_refs[p] = 0
          BY <2>1, <2>3, <4>1, <4>3, <5>1
        <5> QED BY <5>1, <5>2 DEF Doubtful
      <4> QED BY <3>1, <4>2, <4>3 DEF Doubtful
    <3> QED BY <3>1
  <2>6. Kept \cap Doubtful = {} /\ o \in Kept
    BY <2>1 DEF Kept, Doubtful, ListInv
  <2>7. Rooted' = Rooted
    BY <2>1 DEF Rooted
  <2>8. CASE S \cap Kept # {}
    <3>1. \/ (S \cap Kept) \cap Rooted # {}
          \/ \E p \in alive \ ((S \cap Kept) \cup Doubtful) : refs[p] \cap (S \cap Kept) # {}
      BY <2>1, <2>8, phase' = "scan" DEF KeptInv
    <3>2. CASE (S \cap Kept) \cap Rooted # {}
      BY <2>7, <3>2
    <3>3. ASSUME NEW p \in alive \ ((S \cap Kept) \cup Doubtful), refs[p] \cap (S \cap Kept) # {}
          PROVE  \E q \in alive' \ (S \cup Doubtful') : refs'[q] \cap S # {}
      <4>1. p \notin S /\ p \notin Doubtful'
        BY <2>3, <2>4, <2>5, <3>3
      <4> QED BY <2>1, <3>3, <4>1
    <3> QED BY <3>1, <3>2, <3>3
  <2>9. CASE S \cap Kept = {}
    <3>1. S \subseteq visited /\ o \notin S
      BY <2>4, <2>6, <2>9
    <3>2. o \in alive' \ (S \cup Doubtful') /\ refs'[o] \cap S # {}
      BY <2>1, <2>2, <2>5, <2>6, <3>1
    <3> QED BY <3>2
  <2> QED BY <2>8, <2>9
<1>5. ASSUME NEW o \in Objects, ScanUnreachable(o)
      PROVE  \/ S \cap Rooted' # {}
             \/ \E p \in alive' \ (S \cup Doubtful') : refs'[p] \cap S # {}
  <2>1. /\ o \in toscan /\ gc_refs[o] = 0 /\ toscan' = toscan \ {o}
        /\ unreachable' = unreachable \cup {o}
        /\ \A p \in Objects : p # o => gc_refs'[p] = gc_refs[p]
        /\ UNCHANGED <<alive, refs, held, running, wrcb, clearing, young, phase>>
        /\ toscan \subseteq Objects
    BY <1>5 DEF ScanUnreachable, TypeOK
  <2>2. Kept' = Kept /\ Doubtful' = Doubtful /\ Rooted' = Rooted
    BY <2>1 DEF Kept, Doubtful, Rooted
  <2> QED BY <2>1, <2>2 DEF KeptInv
<1>6. CASE Collect
  <2>1. (\E g \in Generations : Start(g))
          \/ \E o \in Objects : ScanReachable(o) \/ ScanUnreachable(o)
    BY <1>6, phase' = "scan" DEF Collect, MoveReachable, MoveFinalizers, ClearTrashRefs, CallBack,
       Clear, Cleared, ClearRef, SetRefs, Finish, PhaseInv
  <2> QED BY <2>1, <1>3, <1>4, <1>5
<1> QED BY <1>1, <1>2, <1>6 DEF Next

\* Tuples come to refer to no other in a circle at any step.
LEMMA TuplesStep == TypeOK /\ AliveInv /\ TuplesInv /\ [Next]_vars => TuplesInv'
<1> SUFFICES ASSUME TypeOK, AliveInv, TuplesInv, [Next]_vars PROVE TuplesInv'
  OBVIOUS
<1> USE GCAssumption DEF heap, lists, control, code, history
<1>1. ASSUME \A o \in alive' \cap NoClear : o \in alive /\ refs'[o] \subseteq refs[o]
      PROVE  TuplesInv'
  <2> SUFFICES ASSUME NEW S \in SUBSET (alive' \cap NoClear), S # {}
               PROVE  \E o \in S : \A p \in S : o \notin refs'[p]
    BY DEF TuplesInv
  <2>1. S \subseteq alive \cap NoClear
    BY <1>1
  <2>2. PICK o \in S : \A p \in S : o \notin refs[p]
    BY <2>1 DEF TuplesInv
  <2> QED BY <1>1, <2>2
<1>2. ASSUME NEW o \in Objects, NewTuple(o) PROVE TuplesInv'
  <2> SUFFICES ASSUME NEW S \in SUBSET (alive' \cap NoClear), S # {}
               PROVE  \E q \in S : \A p \in S : q \notin refs'[p]
    BY DEF TuplesInv
  <2>1. /\ o \notin alive /\ alive' = alive \cup {o}
        /\ \E items \in SUBSET InHand : refs' = [refs EXCEPT ![o] = items]
    BY <1>2 DEF NewTuple, Alloc
  <2>2. \A p \in alive : refs'[p] = refs[p] /\ o \notin refs'[p]
    BY <2>1 DEF TypeOK, AliveInv
  <2>3. o \notin refs'[o]
    BY <2>1 DEF TypeOK, AliveInv, InHand
  <2>4. CASE o \in S
    BY <2>1, <2>2, <2>3, <2>4
  <2>5. CASE o \notin S
    <3>1. S \subseteq alive \cap NoClear
      BY <2>1, <2>5
    <3>2. PICK q \in S : \A p \in S : q \notin refs[p]
      BY <3>1 DEF TuplesInv
    <3> QED BY <2>2, <3>1, <3>2
  <2> QED BY <2>4, <2>5
<1>3. CASE UNCHANGED vars
  BY <1>1, <1>3 DEF vars
<1>4. ASSUME NEW o \in Objects, New(o) PROVE TuplesInv'
  BY <1>1, <1>4 DEF New, Alloc, TypeOK
<1>5. ASSUME NEW w \in Weakrefs, NewWeakref(w) PROVE TuplesInv'
  <2>1. alive' = alive \cup {w} /\ w \notin NoClear
    BY <1>5 DEF NewWeakref, Alloc
  <2>2. \A p \in Objects \ {w} : refs'[p] = refs[p]
    BY <1>5 DEF NewWeakref, TypeOK
  <2> QED BY <1>1, <2>1, <2>2 DEF TypeOK
<1>6. ASSUME NEW o \in Objects, Hold(o) \/ Release(o) \/ Leave(o) PROVE TuplesInv'
  BY <1>1, <1>6 DEF Hold, Release, Leave
<1>7. ASSUME NEW a \in Objects, NEW b \in Objects, Store(a, b) \/ Remove(a, b) PROVE TuplesInv'
  BY <1>1, <1>7 DEF Store, Remove, SetRefs, TypeOK
<1>8. CASE Program
  BY <1>2, <1>4, <1>5, <1>6, <1>7, <1>8 DEF Program
<1>9. CASE Deallocate
  BY <1>1, <1>9 DEF Deallocate, ClearWeakRefs, Finalize, Dealloc, TypeOK
<1>10. CASE Collect
  <2>1. ASSUME NEW o \in Objects, NEW p \in Objects, ClearRef(o, p) PROVE TuplesInv'
    BY <1>1, <2>1 DEF ClearRef, SetRefs, TypeOK
  <2>2. ASSUME ~ \E o, p \in Objects : ClearRef(o, p) PROVE UNCHANGED <<alive, refs>>
    BY <1>10, <2>2 DEF Collect, Start, ScanReachable, ScanUnreachable, MoveReachable,
       MoveFinalizers, ClearTrashRefs, CallBack, Clear, Cleared, Finish
  <2> QED BY <1>1, <2>1, <2>2
<1> QED BY <1>3, <1>8, <1>9, <1>10 DEF Next

\* What has been found to be trash is cleared and out of reach when the program does a step, ...
LEMMA ProgramTrash == TypeOK /\ PhaseInv /\ AliveInv /\ TrashInv /\ Program => TrashInv'
<1> SUFFICES ASSUME TypeOK, PhaseInv, AliveInv, TrashInv, Program PROVE TrashInv'
  OBVIOUS
<1>1. UNCHANGED <<trash, exposed, phase, wrcb, unreachable>>
  BY DEF Program, New, NewTuple, NewWeakref, Alloc, Hold, Release, Leave, Store, Remove,
         SetRefs, lists, control, history
<1>2. CASE exposed
  BY <1>1, <1>2 DEF TrashInv
<1>3. CASE ~exposed
  <2> USE GCAssumption, <1>3 DEF TrashInv, TrashUnseen, AliveInv, InHand, TypeOK
  <2>1. ASSUME NEW o \in Objects, Alloc(o),
               \A p \in Objects \ {o} : refs'[p] = refs[p],
               refs'[o] \subseteq InHand,
               \A w \in Weakrefs \ {o} : wr_object'[w] = wr_object[w],
               o \in Weakrefs => wr_object'[o] = wr_object[o] \/ wr_object'[o] \in InHand
        PROVE  TrashInv'
    <3>1. o \notin trash /\ alive' = alive \cup {o} /\ InHand' = InHand \cup {o}
      BY <2>1 DEF Alloc, code
    <3>2. TrashUnseen'
      BY <1>1, <2>1, <3>1
    <3>3. /\ \A w \in Weakrefs \ trash : wr_object'[w] \notin trash
          /\ \A w \in Callbacks \cap trash : wr_object'[w] = None
          /\ \A p \in trash \ (unreachable \cup NoClear) : refs'[p] = {}
      BY <2>1, <3>1
    <3> QED BY <1>1, <3>2, <3>3
  <2>2. ASSUME NEW o \in Objects, New(o) PROVE TrashInv'
    BY <2>1, <2>2 DEF New, Alloc
  <2>3. ASSUME NEW o \in Objects, NewTuple(o) PROVE TrashInv'
    BY <2>1, <2>3 DEF NewTuple
  <2>4. ASSUME NEW w \in Weakrefs, NewWeakref(w) PROVE TrashInv'
    <3>1. PICK c \in {{}} \cup (IF w \in Callbacks THEN {{d} : d \in InHand} ELSE {}) :
            refs' = [refs EXCEPT ![w] = c]
      BY <2>4 DEF NewWeakref
    <3>2. PICK o \in InHand : wr_object' = [wr_object EXCEPT ![w] = o]
      BY <2>4 DEF NewWeakref
    <3>3. c \subseteq InHand /\ Alloc(w)
      BY <2>4 DEF NewWeakref
    <3> QED BY <3>1, <3>2, <3>3, <2>1
  <2>5. ASSUME NEW b \in Objects, Hold(b) PROVE TrashInv'
    <3>1. held' = held \cup {b} /\ UNCHANGED <<alive, refs, wr_object, running>>
      BY <2>5 DEF Hold, code
    <3>2. b \notin trash
      <4>1. ASSUME NEW a \in InHand, b \in refs[a] PROVE b \notin trash
        BY <4>1
      <4>2. ASSUME NEW w \in InHand \cap Weakrefs, wr_object[w] = b PROVE b \notin trash
        BY <4>2
      <4> QED BY <2>5, <4>1, <4>2 DEF Hold, Obtainable
    <3> QED BY <1>1, <3>1, <3>2
  <2>6. ASSUME NEW o \in Objects, Release(o) \/ Leave(o) PROVE TrashInv'
    BY <1>1, <2>6 DEF Release, Leave, code, heap
  <2>7. ASSUME NEW a \in Objects, NEW b \in Objects, Store(a, b) \/ Remove(a, b) PROVE TrashInv'
    <3>1. UNCHANGED <<alive, held, running, wr_object>>
      BY <2>7 DEF Store, Remove, SetRefs, code
    <3>2. \A p \in Objects : refs'[p] = refs[p] \/ (p \in InHand /\ refs'[p] \subseteq refs[p] \cup InHand)
      BY <2>7 DEF Store, Remove, SetRefs
    <3>3. TrashUnseen'
      BY <1>1, <3>1, <3>2
    <3> QED BY <1>1, <3>1, <3>2, <3>3
  <2> QED BY <2>2, <2>3, <2>4, <2>5, <2>6, <2>7 DEF Program
<1> QED BY <1>2, <1>3

\* ... when an object is deallocated, ...
LEMMA DeallocateTrash == TypeOK /\ PhaseInv /\ AliveInv /\ TrashInv /\ Deallocate => TrashInv'
<1> SUFFICES ASSUME TypeOK, PhaseInv, AliveInv, TrashInv, NEW o \in Objects, o \in Dying,
                    ClearWeakRefs(o) \/ Finalize(o) \/ Dealloc(o)
             PROVE TrashInv'
  BY DEF Deallocate, Dying, TypeOK
<1> USE GCAssumption DEF TrashInv, TrashUnseen, AliveInv, InHand, TypeOK, history, code, heap
<1>1. phase' = phase /\ UNCHANGED wrcb
  BY Outside DEF Deallocate
<1>2. CASE ClearWeakRefs(o)
  <2> DEFINE called == {w \in WeakrefsTo(o) \cap Callbacks : ~Unreferenced(w)}
  <2>1. /\ running' = running \cup called \cup UNION {refs[w] : w \in called}
        /\ UNCHANGED <<alive, held, trash, exposed, unreachable>>
        /\ \A p \in Objects : refs'[p] \in {refs[p], {}}
        /\ \A w \in Weakrefs : wr_object'[w] \in {wr_object[w], None}
    BY <1>2 DEF ClearWeakRefs, lists
  <2>2. CASE ~exposed
    <3>1. ASSUME NEW w \in called PROVE w \in alive \ trash
      BY <2>2 DEF WeakrefsTo
    <3>2. InHand' \cap trash = {}
      BY <2>1, <2>2, <3>1
    <3>3. \A p \in alive \ trash : refs'[p] \cap trash = {}
      BY <2>1, <2>2
    <3>4. TrashUnseen'
      BY <2>1, <3>2, <3>3
    <3> QED BY <1>1, <2>1, <2>2, <3>4
  <2> QED BY <2>1, <2>2
<1>3. CASE Finalize(o)
  BY <1>1, <1>3 DEF Finalize, Untrack
<1>4. CASE Dealloc(o)
  <2>1. /\ UNCHANGED <<held, running>>
        /\ alive' = alive \ {o} /\ trash' = trash \ {o}
        /\ exposed' = (exposed /\ trash' # {})
        /\ unreachable' = unreachable \ {o}
        /\ \A p \in Objects : refs'[p] = IF p = o THEN {} ELSE refs[p]
        /\ \A w \in Weakrefs : wr_object'[w] = IF w = o THEN None ELSE wr_object[w]
    BY <1>4 DEF Dealloc, Untrack
  <2>2. CASE exposed
    BY <2>1, <2>2
  <2>3. CASE ~exposed
    <3>1. TrashUnseen'
      BY <2>1, <2>3
    <3> QED BY <1>1, <2>1, <2>3, <3>1
  <2> QED BY <2>2, <2>3
<1> QED BY <1>2, <1>3, <1>4

\* ... and when the collector clears it.
LEMMA CollectTrash ==
  ScanIInv /\ FinalizersInv /\ AliveInv /\ ListInv /\ TuplesInv /\ TrashInv /\ Collect
    => TrashInv'
<1> SUFFICES ASSUME ScanIInv, FinalizersInv, AliveInv, ListInv, TuplesInv, TrashInv, Collect
             PROVE  TrashInv'
  OBVIOUS
<1> USE GCAssumption DEF ScanIInv, TrashInv, TrashUnseen, InHand, TypeOK, code, heap, control,
        lists, history
<1>1. ASSUME NEW g \in Generations, Start(g) PROVE TrashInv'
  <2>1. /\ InHand' = InHand /\ phase = "idle"
        /\ UNCHANGED <<alive, refs, wr_object, trash, exposed, wrcb, unreachable>>
    BY <1>1 DEF Start
  <2> QED BY <2>1
<1>2. ASSUME NEW o \in Objects, ScanReachable(o) \/ ScanUnreachable(o) \/ MoveReachable(o)
      PROVE  TrashInv'
  <2>1. /\ UNCHANGED <<alive, refs, wr_object, trash, exposed, wrcb, held, running, phase>>
        /\ phase \in {"scan", "finalizers"}
    BY <1>2 DEF ScanReachable, ScanUnreachable, MoveReachable
  <2> QED BY <2>1
<1>3. CASE MoveFinalizers
  <2>1. /\ UNCHANGED <<alive, refs, wr_object, trash, exposed, wrcb, held, running>>
        /\ phase = "scan"
    BY <1>3 DEF MoveFinalizers
  <2> QED BY <2>1
<1>4. CASE ClearTrashRefs
  <2>1. /\ trash' = trash \cup unreachable
        /\ UNCHANGED <<alive, refs, held, running, unreachable>>
        /\ phase = "finalizers" /\ phase' = "weakrefs"
        /\ \A f \in finalizers : refs[f] \cap unreachable = {}
        /\ \A w \in Weakrefs : wr_object'[w] =
             IF wr_object[w] \in unreachable THEN None ELSE wr_object[w]
        /\ wrcb' \cap unreachable = {}
        /\ exposed' = (exposed \/ Survivors # {})
    BY <1>4 DEF ClearTrashRefs
  <2>2. /\ unreachable \cap (Rooted \cup HasDel) = {}
        /\ \A p \in alive \ unreachable : refs[p] \cap unreachable = {}
    BY <2>1 DEF FinalizersInv
  <2>3. CASE exposed'
    BY <2>1, <2>2, <2>3
  <2>4. CASE ~exposed'
    <3>1. trash = {} /\ Survivors = {}
      BY <2>1, <2>4
    <3>2. TrashUnseen'
      BY <2>1, <2>2, <3>1 DEF Rooted
    <3>3. \A w \in Weakrefs \ trash' : wr_object'[w] \notin trash'
      BY <2>1, <3>1
    <3>4. \A w \in Callbacks \cap trash' : wr_object'[w] = None
      BY <2>1, <3>1 DEF Survivors
    <3> QED BY <2>1, <2>2, <3>1, <3>2, <3>3, <3>4
  <2> QED BY <2>3, <2>4
<1>5. ASSUME NEW w \in Weakrefs, CallBack(w) PROVE TrashInv'
  <2>1. /\ UNCHANGED <<alive, refs, wr_object, held, trash, exposed, unreachable, phase>>
        /\ w \in wrcb /\ wrcb' = wrcb \ {w} /\ running' = {w} \cup refs[w]
    BY <1>5 DEF CallBack
  <2>2. CASE exposed
    BY <2>1, <2>2
  <2>3. CASE ~exposed
    <3>1. w \in alive \ trash
      BY <2>1, <2>3 DEF AliveInv
    <3> QED BY <2>1, <2>3, <3>1
  <2> QED BY <2>2, <2>3
<1>6. ASSUME NEW o \in Objects, Clear(o) PROVE TrashInv'
  <2>1. /\ UNCHANGED <<alive, refs, held, running, trash, exposed, unreachable, wrcb>>
        /\ phase' = "clear"
        /\ \A w \in Weakrefs : wr_object'[w] = IF w = o THEN None ELSE wr_object[w]
    BY <1>6 DEF Clear
  <2> QED BY <2>1
<1>7. ASSUME NEW o \in Objects, Cleared(o) PROVE TrashInv'
  <2>1. /\ UNCHANGED <<alive, refs, wr_object, held, running, trash, exposed, wrcb, phase>>
        /\ o \in NoClear \/ refs[o] = {}
        /\ unreachable' = unreachable \/ unreachable' = unreachable \ {o}
    BY <1>7 DEF Cleared
  <2> QED BY <2>1
<1>8. ASSUME NEW o \in Objects, NEW p \in Objects, ClearRef(o, p) PROVE TrashInv'
  <2>1. /\ UNCHANGED <<alive, wr_object, held, running, trash, exposed, unreachable, wrcb, phase>>
        /\ \A q \in Objects : refs'[q] \subseteq refs[q]
    BY <1>8 DEF ClearRef, SetRefs
  <2> QED BY <2>1
<1>9. CASE Finish
  <2>1. /\ UNCHANGED <<alive, refs, wr_object, running, trash, exposed, unreachable, wrcb>>
        /\ phase' = "idle" /\ held' = held \cup (finalizers \cap HasDel)
        /\ wrcb = {} /\ clearing = {} /\ unreachable = {} /\ Settled
    BY <1>9 DEF Finish, Quiet
  <2>2. CASE exposed
    BY <2>1, <2>2
  <2>3. CASE ~exposed
    <3>1. TrashUnseen /\ \A o \in trash \ NoClear : refs[o] = {}
      BY <2>1, <2>3
    <3>2. \A o \in trash : \E p \in trash \cap NoClear : o \in refs[p]
      <4> SUFFICES ASSUME NEW o \in trash PROVE \E p \in trash \cap NoClear : o \in refs[p]
        OBVIOUS
      <4>1. o \in alive /\ o \notin Rooted
        BY <2>1, <3>1 DEF AliveInv, Rooted
      <4>2. PICK p \in alive : o \in refs[p]
        BY <2>1, <4>1 DEF Settled, Unreferenced, Referrers
      <4>3. p \in trash
        BY <3>1, <4>2
      <4> QED BY <3>1, <4>2, <4>3
    <3>3. trash = {}
      <4> SUFFICES ASSUME trash # {} PROVE FALSE
        OBVIOUS
      <4>1. trash \cap NoClear # {} /\ trash \cap NoClear \in SUBSET (alive \cap NoClear)
        BY <3>2 DEF AliveInv
      <4>2. PICK o \in trash \cap NoClear : \A p \in trash \cap NoClear : o \notin refs[p]
        BY <4>1 DEF TuplesInv
      <4> QED BY <3>2, <4>2
    <3> QED BY <2>1, <3>3
  <2> QED BY <2>2, <2>3
<1> QED BY <1>1, <1>2, <1>3, <1>4, <1>5, <1>6, <1>7, <1>8, <1>9 DEF Collect

\* All of it together.
IInv ==
  /\ ScanIInv /\ FinalizersInv
  /\ AliveInv /\ ListInv /\ Marked /\ KeptInv
  /\ TuplesInv /\ TrashInv

\* All parts of the invariant hold in every reachable state.
LEMMA InductiveInvariant == Spec => []IInv
<1>1. Init => IInv
  <2> SUFFICES ASSUME Init PROVE IInv
    OBVIOUS
  <2>1. AliveInv /\ ListInv /\ Marked
    BY DEF Init, AliveInv, InHand, ListInv, InList, Marked
  <2>2. KeptInv /\ TuplesInv /\ TrashInv
    BY DEF Init, KeptInv, TuplesInv, TrashInv, TrashUnseen, InHand
  <2> QED BY InitIInv, <2>1, <2>2 DEF IInv
<1>2. IInv /\ [Next]_vars => IInv'
  <2> SUFFICES ASSUME IInv, [Next]_vars PROVE IInv'
    OBVIOUS
  <2>1. (ScanIInv /\ FinalizersInv)'
    BY NextIInv DEF IInv
  <2>2. AliveInv' /\ ListInv' /\ Marked' /\ TuplesInv'
    BY AliveStep, ListStep, MarkedStep, TuplesStep DEF IInv, ScanIInv
  <2>3. KeptInv'
    BY KeptStep DEF IInv
  <2>4. TrashInv'
    <3>1. CASE UNCHANGED vars
      BY <3>1 DEF vars, lists, control, history, code, heap, IInv, TrashInv, TrashUnseen, InHand
    <3> QED BY <3>1, ProgramTrash, DeallocateTrash, CollectTrash DEF IInv, ScanIInv, Next
  <2> QED BY <2>1, <2>2, <2>3, <2>4 DEF IInv
<1> QED BY <1>1, <1>2, PTL DEF Spec

\* However collections, callbacks, finalizers and deallocations are nested, every
\* live object is in one list, with the mark that belongs to it.
THEOREM ListsStayConsistent == Spec => []ListsConsistent
<1>1. IInv => ListsConsistent
  BY ListedFromInv DEF IInv, ScanIInv, ListsConsistent
<1> QED BY <1>1, InductiveInvariant, PTL

\* Whatever the heap, move_unreachable finds all of the garbage of the generations
\* it looks at.
THEOREM AllGarbageFound == Spec => []GarbageFound
<1>1. IInv => GarbageFound
  <2> SUFFICES ASSUME IInv, phase = "scan", toscan = {}, NEW S \in SUBSET young, S # {}
               PROVE  S \cap Rooted # {} \/ \E p \in alive \ (S \cup unreachable) : refs[p] \cap S # {}
    BY DEF GarbageFound
  <2>1. Kept = young /\ Doubtful = unreachable
    BY DEF Kept, Doubtful
  <2> QED BY <2>1 DEF IInv, KeptInv
<1> QED BY <1>1, InductiveInvariant, PTL

\* Whatever finalizers, weak references and callbacks there are, the program never
\* gets hold of what a collection clears, unless a callback was left in it.
THEOREM TrashStaysHidden == Spec => []TrashHidden
<1>1. IInv => TrashHidden
  BY DEF IInv, TrashInv, TrashHidden
<1> QED BY <1>1, InductiveInvariant, PTL

\* Where no weak reference has a callback, it never gets hold of it at all.
THEOREM TrashStaysUnseen ==
  ASSUME Callbacks = {}
  PROVE  Spec => []TrashUnseen
<1>1. Init => ~exposed
  BY DEF Init
<1>2. IInv /\ ~exposed /\ [Next]_vars => ~exposed'
  <2> SUFFICES ASSUME ~exposed, [Next]_vars PROVE ~exposed'
    OBVIOUS
  <2> USE DEF history
  <2>1. Survivors = {}
    BY DEF Survivors
  <2>2. CASE UNCHANGED vars
    BY <2>2 DEF vars
  <2>3. CASE Program
    BY <2>3 DEF Program, New, NewTuple, NewWeakref, Alloc, Hold, Release, Leave, Store, Remove,
       SetRefs
  <2>4. CASE Deallocate
    BY <2>4 DEF Deallocate, ClearWeakRefs, Finalize, Dealloc
  <2>5. CASE Collect
    BY <2>1, <2>5 DEF Collect, Start, ScanReachable, ScanUnreachable, MoveReachable,
       MoveFinalizers, ClearTrashRefs, CallBack, Clear, Cleared, ClearRef, SetRefs, Finish
  <2> QED BY <2>2, <2>3, <2>4, <2>5 DEF Next
<1>3. IInv /\ ~exposed => TrashUnseen
  BY DEF IInv, TrashInv
<1> QED BY <1>1, <1>2, <1>3, InductiveInvariant, PTL DEF Spec

\* What a collection has found collectable is gone when it ends, with the same
\* exception, tuples included, which nothing can clear.
THEOREM AllTrashFreed == Spec => []TrashFreed
<1>1. IInv => TrashFreed
  BY DEF IInv, TrashInv, TrashFreed
<1> QED BY <1>1, InductiveInvariant, PTL
===============================================================================
