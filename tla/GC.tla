---------------------------------- MODULE GC ----------------------------------
(***************************************************************************)
(* The cyclic garbage collector (Modules/gcmodule.c), the program that     *)
(* runs between its collections and inside them, and the deallocation of   *)
(* objects by reference counting.  Every object here is a container.  The  *)
(* lists of objects are sets, visited in any order.  A collection starts   *)
(* with no deallocation pending, and the debugging flags are not set.      *)
(***************************************************************************)
EXTENDS Integers, FiniteSets

CONSTANTS
  Objects,
  None,
  HasDel,       \* has_finalizer
  NoClear,      \* objects whose type has no tp_clear and no way to change
  Weakrefs,     \* weak references
  Callbacks,    \* those of Weakrefs that have a callback
  NUM_GENERATIONS,
  MaxAlive      \* bound of the model on the objects alive at a time

ASSUME GCAssumption ==
  /\ IsFiniteSet(Objects) /\ None \notin Objects
  /\ HasDel \subseteq Objects /\ NoClear \subseteq Objects \ HasDel
  /\ Weakrefs \subseteq Objects \ (HasDel \cup NoClear)
  /\ Callbacks \subseteq Weakrefs
  /\ NUM_GENERATIONS \in Nat /\ NUM_GENERATIONS > 0
  /\ MaxAlive \in Nat

\* Values of gc_refs below the counts.
UNTRACKED == -2
REACHABLE == -3
TENTATIVELY_UNREACHABLE == -4

Generations == 0 .. (NUM_GENERATIONS - 1)

VARIABLES
  alive,
  refs,          \* what each object refers to
  wr_object,     \* the referent of each weak reference
  held,          \* objects referred to from frames, modules and other roots
  running,       \* objects handed to a __del__ method or a callback that runs
  finalized,     \* objects whose __del__ method has been called
  gens,          \* generations
  young,         \* of the collected generation: scanned and found reachable,
  toscan,        \* and still to be scanned
  unreachable, finalizers,
  wrcb,          \* wrcb_to_call
  gc_refs,
  phase,
  generation,    \* the generation being collected
  clearing,      \* the object delete_garbage is at, if any
  trash,         \* history: live objects that were found to be collectable
  exposed        \* history: a collection has left a callback in its trash that
                 \* waits for an object outside it, and not all trash is gone

heap == <<alive, refs, wr_object, held>>
code == <<running, finalized>>
lists == <<gens, young, toscan, unreachable, finalizers, wrcb>>
control == <<phase, generation, clearing>>
history == <<trash, exposed>>
vars == <<heap, code, lists, gc_refs, control, history>>

\* Type invariant of the variables of the heap and the collector.
TypeOK ==
  /\ alive \subseteq Objects
  /\ refs \in [Objects -> SUBSET Objects]
  /\ wr_object \in [Weakrefs -> Objects \cup {None}]
  /\ held \subseteq Objects /\ running \subseteq Objects /\ finalized \subseteq HasDel
  /\ gens \in [Generations -> SUBSET Objects]
  /\ young \subseteq Objects /\ toscan \subseteq Objects
  /\ unreachable \subseteq Objects /\ finalizers \subseteq Objects
  /\ wrcb \subseteq Callbacks
  /\ gc_refs \in [Objects -> Int]
  /\ phase \in {"idle", "scan", "finalizers", "weakrefs", "clear"}
  /\ generation \in Generations
  /\ clearing \subseteq Objects
  /\ trash \subseteq Objects /\ exposed \in BOOLEAN

Init ==
  /\ alive = {} /\ held = {} /\ running = {} /\ finalized = {}
  /\ refs = [o \in Objects |-> {}]
  /\ wr_object = [w \in Weakrefs |-> None]
  /\ gens = [g \in Generations |-> {}]
  /\ young = {} /\ toscan = {} /\ unreachable = {} /\ finalizers = {} /\ wrcb = {}
  /\ gc_refs = [o \in Objects |-> UNTRACKED]
  /\ phase = "idle" /\ generation = 0 /\ clearing = {}
  /\ trash = {} /\ exposed = FALSE

Referrers(o) == {p \in alive : o \in refs[p]}
Rooted == held \cup running \cup wrcb \cup clearing
RefCount(o) == Cardinality(Referrers(o)) + (IF o \in Rooted THEN 1 ELSE 0)
Unreferenced(o) == o \notin Rooted /\ Referrers(o) = {}

\* No object waits to be deallocated; neither does the program run inside a
\* deallocation.
Settled == \A o \in alive : ~Unreferenced(o)
Quiet == Settled /\ running = {}

-------------------------------------------------------------------------------
\* The program runs between collections and inside __del__ methods and callbacks.
\* It works on the objects it has references to.
Runs ==
  \/ phase \in {"idle", "weakrefs", "clear"} /\ running # {}
  \/ phase = "idle" /\ Settled
InHand == held \cup running

Alloc(o) ==
  /\ o \notin alive /\ Cardinality(alive) < MaxAlive
  /\ alive' = alive \cup {o} /\ held' = held \cup {o}
  /\ gens' = [gens EXCEPT ![0] = @ \cup {o}]
  /\ gc_refs' = [gc_refs EXCEPT ![o] = REACHABLE]
  /\ UNCHANGED <<code, young, toscan, unreachable, finalizers, wrcb, control, history>>

New(o) ==
  /\ o \notin Weakrefs \cup NoClear
  /\ Alloc(o)
  /\ refs' = [refs EXCEPT ![o] = {}]
  /\ UNCHANGED wr_object

\* A tuple, with its items.
NewTuple(o) ==
  /\ o \in NoClear
  /\ Alloc(o)
  /\ \E items \in SUBSET InHand : refs' = [refs EXCEPT ![o] = items]
  /\ UNCHANGED wr_object

\* A weak reference; a callback is either one of the objects or none of them.
NewWeakref(w) ==
  /\ Alloc(w)
  /\ \E o \in InHand : wr_object' = [wr_object EXCEPT ![w] = o]
  /\ \E callback \in {{}} \cup (IF w \in Callbacks THEN {{c} : c \in InHand} ELSE {}) :
       refs' = [refs EXCEPT ![w] = callback]

\* What the program can come to hold: an object it was handed, one that another in
\* its hands refers to, or the referent of a weak reference.
Obtainable == {b \in Objects :
  \/ b \in running
  \/ \E a \in InHand : b \in refs[a]
  \/ \E w \in InHand \cap Weakrefs : wr_object[w] = b /\ ~Unreferenced(b)}

Hold(b) ==
  /\ b \in Obtainable \ held
  /\ held' = held \cup {b}
  /\ UNCHANGED <<alive, refs, wr_object, code, lists, gc_refs, control, history>>

Release(a) ==
  /\ a \in held
  /\ held' = held \ {a}
  /\ UNCHANGED <<alive, refs, wr_object, code, lists, gc_refs, control, history>>

SetRefs(a, to) ==
  /\ refs' = [refs EXCEPT ![a] = to]
  /\ UNCHANGED <<alive, wr_object, held, code, lists, gc_refs, control, history>>

Store(a, b) ==
  /\ a \in InHand \ (NoClear \cup Weakrefs) /\ b \in InHand
  /\ SetRefs(a, refs[a] \cup {b})

Remove(a, b) ==
  /\ a \in InHand \ (NoClear \cup Weakrefs) /\ b \in refs[a]
  /\ SetRefs(a, refs[a] \ {b})

\* The __del__ method or the callback returns.
Leave(o) ==
  /\ o \in running /\ running' = running \ {o}
  /\ UNCHANGED <<heap, finalized, lists, gc_refs, control, history>>

Program ==
  /\ Runs
  /\ \/ \E o \in Objects : New(o) \/ NewTuple(o) \/ Hold(o) \/ Release(o) \/ Leave(o)
     \/ \E w \in Weakrefs : NewWeakref(w)
     \/ \E a, b \in Objects : Store(a, b) \/ Remove(a, b)

-------------------------------------------------------------------------------
\* Deallocation of an object without references.
Dying == {o \in alive : Unreferenced(o)}
WeakrefsTo(o) == {w \in Weakrefs : wr_object[w] = o}

\* PyObject_ClearWeakRefs: the callbacks of live weak references are taken from
\* them and called.
ClearWeakRefs(o) ==
  /\ WeakrefsTo(o) # {}
  /\ LET called == {w \in WeakrefsTo(o) \cap Callbacks : ~Unreferenced(w)}
     IN /\ running' = running \cup called \cup UNION {refs[w] : w \in called}
        /\ refs' = [p \in Objects |-> IF p \in WeakrefsTo(o) THEN {} ELSE refs[p]]
  /\ wr_object' = [w \in Weakrefs |-> IF wr_object[w] = o THEN None ELSE wr_object[w]]
  /\ UNCHANGED <<alive, held, finalized, lists, gc_refs, control, history>>

Untrack(o, g0) ==
  /\ gens' = [g \in Generations |-> IF g = 0 THEN (gens[g] \ {o}) \cup g0 ELSE gens[g] \ {o}]
  /\ unreachable' = unreachable \ {o} /\ finalizers' = finalizers \ {o}
  /\ UNCHANGED <<young, toscan, wrcb>>

\* subtype_dealloc tracks the object anew and calls its __del__ method, ...
Finalize(o) ==
  /\ WeakrefsTo(o) = {} /\ o \in HasDel \ finalized
  /\ running' = running \cup {o} /\ finalized' = finalized \cup {o}
  /\ Untrack(o, {o})
  /\ gc_refs' = [gc_refs EXCEPT ![o] = REACHABLE]
  /\ UNCHANGED <<heap, control, history>>

\* ... once in this model.  Otherwise the object goes.
Dealloc(o) ==
  /\ WeakrefsTo(o) = {} /\ o \notin HasDel \ finalized
  /\ alive' = alive \ {o} /\ refs' = [refs EXCEPT ![o] = {}]
  /\ wr_object' = [w \in Weakrefs |-> IF w = o THEN None ELSE wr_object[w]]
  /\ finalized' = finalized \ {o}
  /\ trash' = trash \ {o} /\ exposed' = (exposed /\ trash' # {})
  /\ Untrack(o, {})
  /\ gc_refs' = [gc_refs EXCEPT ![o] = UNTRACKED]
  /\ UNCHANGED <<held, running, control>>

Deallocate == \E o \in Dying : ClearWeakRefs(o) \/ Finalize(o) \/ Dealloc(o)

-------------------------------------------------------------------------------
\* Faulty: only the references inside the oldest of the merged generations are
\* subtracted.
StartUnmerged(g) ==
  /\ phase = "idle" /\ Settled
  /\ phase' = "scan" /\ generation' = g
  /\ toscan' = UNION {gens[i] : i \in 0 .. g}
  /\ gens' = [i \in Generations |-> IF i <= g THEN {} ELSE gens[i]]
  /\ gc_refs' = [o \in Objects |->
       IF o \in toscan' THEN RefCount(o) - Cardinality(Referrers(o) \cap gens[g])
                        ELSE gc_refs[o]]
  /\ held' = held \cup running /\ running' = {}
  /\ UNCHANGED <<alive, refs, wr_object, finalized, young, unreachable, finalizers, wrcb,
                 clearing, history>>

\* collect: merge the younger generations, update_refs and subtract_refs.  What
\* runs now goes on only after the collection.
Start(g) ==
  /\ phase = "idle" /\ Settled
  /\ phase' = "scan" /\ generation' = g
  /\ toscan' = UNION {gens[i] : i \in 0 .. g}
  /\ gens' = [i \in Generations |-> IF i <= g THEN {} ELSE gens[i]]
  /\ gc_refs' = [o \in Objects |->
       IF o \in toscan' THEN RefCount(o) - Cardinality(Referrers(o) \cap toscan')
                        ELSE gc_refs[o]]
  /\ held' = held \cup running /\ running' = {}
  /\ UNCHANGED <<alive, refs, wr_object, finalized, young, unreachable, finalizers, wrcb,
                 clearing, history>>

\* Faulty: what was taken for unreachable stays there.
ScanForgetsBack(o) ==
  /\ phase = "scan" /\ o \in toscan /\ gc_refs[o] # 0
  /\ LET visited == {p \in refs[o] \ {o} : gc_refs[p] = 0}
     IN gc_refs' = [p \in Objects |-> IF p = o THEN REACHABLE
                                      ELSE IF p \in visited THEN 1 ELSE gc_refs[p]]
  /\ toscan' = toscan \ {o} /\ young' = young \cup {o}
  /\ UNCHANGED <<heap, code, gens, unreachable, finalizers, wrcb, control, history>>

\* move_unreachable, one object: visit_reachable is called on what it refers to.
ScanReachable(o) ==
  /\ phase = "scan" /\ o \in toscan /\ gc_refs[o] # 0
  /\ LET back == refs[o] \cap unreachable
         visited == {p \in refs[o] \ {o} : gc_refs[p] \in {0, TENTATIVELY_UNREACHABLE}}
     IN /\ gc_refs' = [p \in Objects |-> IF p = o THEN REACHABLE
                                         ELSE IF p \in visited THEN 1 ELSE gc_refs[p]]
        /\ toscan' = (toscan \ {o}) \cup back
        /\ unreachable' = unreachable \ back
  /\ young' = young \cup {o}
  /\ UNCHANGED <<heap, code, gens, finalizers, wrcb, control, history>>

ScanUnreachable(o) ==
  /\ phase = "scan" /\ o \in toscan /\ gc_refs[o] = 0
  /\ toscan' = toscan \ {o} /\ unreachable' = unreachable \cup {o}
  /\ gc_refs' = [gc_refs EXCEPT ![o] = TENTATIVELY_UNREACHABLE]
  /\ UNCHANGED <<heap, code, gens, young, finalizers, wrcb, control, history>>

Old == IF generation + 1 < NUM_GENERATIONS THEN generation + 1 ELSE generation

ToOld(S) == gens' = [gens EXCEPT ![Old] = @ \cup S]

\* gc_list_merge(young, old), then move_finalizers.
MoveFinalizers ==
  /\ phase = "scan" /\ toscan = {} /\ phase' = "finalizers"
  /\ ToOld(young) /\ young' = {}
  /\ finalizers' = unreachable \cap HasDel /\ unreachable' = unreachable \ HasDel
  /\ gc_refs' = [o \in Objects |-> IF o \in finalizers' THEN REACHABLE ELSE gc_refs[o]]
  /\ UNCHANGED <<heap, code, toscan, wrcb, generation, clearing, history>>

\* Faulty: the moved objects keep the mark of the unreachable.
MoveUnmarked(f) ==
  /\ phase = "finalizers" /\ f \in finalizers
  /\ LET moved == refs[f] \cap unreachable
     IN /\ moved # {}
        /\ finalizers' = finalizers \cup moved /\ unreachable' = unreachable \ moved
  /\ UNCHANGED <<heap, code, gens, young, toscan, wrcb, gc_refs, control, history>>

\* move_finalizer_reachable, one object.
MoveReachable(f) ==
  /\ phase = "finalizers" /\ f \in finalizers
  /\ LET moved == refs[f] \cap unreachable
     IN /\ moved # {}
        /\ finalizers' = finalizers \cup moved /\ unreachable' = unreachable \ moved
        /\ gc_refs' = [o \in Objects |-> IF o \in moved THEN REACHABLE ELSE gc_refs[o]]
  /\ UNCHANGED <<heap, code, gens, young, toscan, wrcb, control, history>>

\* Callbacks in the trash whose referents are not.
Survivors == {w \in Callbacks \cap unreachable : wr_object[w] \notin unreachable \cup {None}}

\* Faulty: calls the callbacks of weak references that are trash themselves, too.
ClearTrashRefsCallsAll ==
  /\ phase = "finalizers" /\ \A f \in finalizers : refs[f] \cap unreachable = {}
  /\ phase' = "weakrefs"
  /\ wr_object' = [w \in Weakrefs |->
                     IF wr_object[w] \in unreachable THEN None ELSE wr_object[w]]
  /\ wrcb' = {w \in Callbacks : wr_object[w] \in unreachable}
  /\ gens' = [g \in Generations |-> gens[g] \ wrcb'] /\ finalizers' = finalizers \ wrcb'
  /\ unreachable' = unreachable \ wrcb'
  /\ trash' = trash \cup unreachable
  /\ exposed' = (exposed \/ Survivors # {})
  /\ UNCHANGED <<alive, refs, held, code, young, toscan, gc_refs, generation, clearing>>

\* handle_weakrefs up to the point where it calls the callbacks.
ClearTrashRefs ==
  /\ phase = "finalizers" /\ \A f \in finalizers : refs[f] \cap unreachable = {}
  /\ phase' = "weakrefs"
  /\ wr_object' = [w \in Weakrefs |->
                     IF wr_object[w] \in unreachable THEN None ELSE wr_object[w]]
  /\ wrcb' = {w \in Callbacks \ unreachable : wr_object[w] \in unreachable}
  /\ gens' = [g \in Generations |-> gens[g] \ wrcb'] /\ finalizers' = finalizers \ wrcb'
  /\ trash' = trash \cup unreachable
  /\ exposed' = (exposed \/ Survivors # {})
  /\ UNCHANGED <<alive, refs, held, code, young, toscan, unreachable, gc_refs,
                 generation, clearing>>

\* Call one callback; the weak reference, if it survives, goes to old.
CallBack(w) ==
  /\ w \in wrcb /\ Quiet
  /\ wrcb' = wrcb \ {w} /\ ToOld({w})
  /\ running' = {w} \cup refs[w]
  /\ UNCHANGED <<heap, finalized, young, toscan, unreachable, finalizers, gc_refs,
                 control, history>>

\* delete_garbage: take an object, ...
Clear(o) ==
  /\ \/ phase = "weakrefs" /\ wrcb = {}
     \/ phase = "clear" /\ clearing = {}
  /\ o \in unreachable /\ Quiet
  /\ phase' = "clear" /\ clearing' = {o}
  /\ wr_object' = [w \in Weakrefs |-> IF w = o THEN None ELSE wr_object[w]]
  /\ UNCHANGED <<alive, refs, held, code, lists, gc_refs, generation, history>>

\* ... drop its references, one by one, ...
ClearRef(o, p) ==
  /\ o \in clearing \ NoClear /\ p \in refs[o] /\ Quiet
  /\ SetRefs(o, refs[o] \ {p})

\* Faulty: goes on before all the references are dropped.
ClearedHalf(o) ==
  /\ o \in clearing /\ Quiet
  /\ clearing' = {}
  /\ IF Referrers(o) # {} \/ o \in held
       THEN /\ ToOld({o}) /\ unreachable' = unreachable \ {o}
            /\ gc_refs' = [gc_refs EXCEPT ![o] = REACHABLE]
       ELSE UNCHANGED <<gens, unreachable, gc_refs>>
  /\ UNCHANGED <<heap, code, young, toscan, finalizers, wrcb, phase, generation, history>>

\* ... and move it to old if it is still alive.
Cleared(o) ==
  /\ o \in clearing /\ (o \in NoClear \/ refs[o] = {}) /\ Quiet
  /\ clearing' = {}
  /\ IF Referrers(o) # {} \/ o \in held
       THEN /\ ToOld({o}) /\ unreachable' = unreachable \ {o}
            /\ gc_refs' = [gc_refs EXCEPT ![o] = REACHABLE]
       ELSE UNCHANGED <<gens, unreachable, gc_refs>>
  /\ UNCHANGED <<heap, code, young, toscan, finalizers, wrcb, phase, generation, history>>

\* handle_finalizers: gc.garbage holds the objects with __del__ methods.
Finish ==
  /\ phase \in {"weakrefs", "clear"}
  /\ wrcb = {} /\ clearing = {} /\ unreachable = {} /\ Quiet
  /\ phase' = "idle"
  /\ held' = held \cup (finalizers \cap HasDel)
  /\ ToOld(finalizers) /\ finalizers' = {}
  /\ UNCHANGED <<alive, refs, wr_object, code, young, toscan, unreachable, wrcb,
                 gc_refs, generation, clearing, history>>

Collect ==
  \/ \E g \in Generations : Start(g)
  \/ \E o \in Objects : ScanReachable(o) \/ ScanUnreachable(o) \/ MoveReachable(o)
  \/ MoveFinalizers \/ ClearTrashRefs
  \/ \E w \in Weakrefs : CallBack(w)
  \/ \E o \in Objects : Clear(o) \/ Cleared(o) \/ \E p \in Objects : ClearRef(o, p)
  \/ Finish

Next == Program \/ Deallocate \/ Collect

Spec == Init /\ [][Next]_vars

-------------------------------------------------------------------------------
\* Every live object is in exactly one list, through collections, callbacks and
\* deallocations that are nested in one another.
Listed ==
  LET in == {gens[g] : g \in Generations}
              \cup {young, toscan, unreachable, finalizers, wrcb}
  IN /\ UNION in = alive
     /\ \A g, h \in Generations : g # h => gens[g] \cap gens[h] = {}
     /\ \A g \in Generations :
          gens[g] \cap (young \cup toscan \cup unreachable \cup finalizers \cup wrcb) = {}
     /\ Cardinality(young) + Cardinality(toscan) + Cardinality(unreachable)
          + Cardinality(finalizers) + Cardinality(wrcb)
        = Cardinality(young \cup toscan \cup unreachable \cup finalizers \cup wrcb)

\* gc_refs agrees with the lists: what delete_garbage clears is marked tentatively
\* unreachable, and what is in no list of the collection is marked reachable
\* (the assertions of move_finalizers, handle_weakrefs and delete_garbage).
Marked ==
  /\ \A o \in unreachable : gc_refs[o] = TENTATIVELY_UNREACHABLE
  /\ \A o \in toscan : gc_refs[o] >= 0
  /\ \A o \in alive \ (toscan \cup unreachable) : gc_refs[o] = REACHABLE

\* Every list and mark of the collector agrees with every other.
ListsConsistent == Listed /\ Marked

\* At the end of move_unreachable nothing outside refers to what was found
\* unreachable, ...
Isolated ==
  phase = "scan" /\ toscan = {} =>
    /\ unreachable \cap Rooted = {}
    /\ \A p \in alive \ unreachable : refs[p] \cap unreachable = {}

\* ... and move_unreachable leaves no garbage among the others: no set of objects
\* that only they and the unreachable ones refer to.
GarbageFound ==
  phase = "scan" /\ toscan = {} =>
    \A S \in SUBSET young : S # {} =>
      \/ S \cap Rooted # {}
      \/ \E p \in alive \ (S \cup unreachable) : refs[p] \cap S # {}

\* What delete_garbage clears, then or later, stays out of the program's hands:
\* "the callback could resurrect insane objects" (handle_weakrefs), ...
TrashUnseen ==
  /\ InHand \cap trash = {}
  /\ \A p \in alive \ trash : refs[p] \cap trash = {}

\* ... unless a callback was left in the trash that its referent may survive.
TrashHidden == ~exposed => TrashUnseen

\* When a collection ends, what it found to be collectable is gone, with the
\* same exception.
TrashFreed == phase = "idle" /\ ~exposed => trash = {}
===============================================================================
