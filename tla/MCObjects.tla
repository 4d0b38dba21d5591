------------------------------- MODULE MCObjects -------------------------------
(***************************************************************************)
(* The instances of GC and Dict for TLC: objects and a container of them.  *)
(* A behaviour is one of the module that which names; the variables of the *)
(* other one stay as they are at the start.                                *)
(***************************************************************************)
EXTENDS GC, Dict, TLC

CONSTANTS
  Parts,            \* the modules of this instance: "gc" and "dict"
  x, X, y, z        \* the keys of the dictionary

\* Keys of one hash, of which x and X compare equal.
SameHash == [k \in Keys |-> 0]
ClassOf == [k \in Keys |-> IF k = X THEN x ELSE k]

\* y and z are used alike.
Symmetry == Permutations({y, z})

VARIABLE which

InstanceInit == which \in Parts /\ Init /\ DictInit

InstanceNext ==
  \/ which = "gc" /\ Next /\ UNCHANGED <<which, dictVars>>
  \/ which = "dict" /\ DictNext /\ UNCHANGED <<which, vars>>

InstanceSpec == InstanceInit /\ [][InstanceNext]_<<which, vars, dictVars>>

\* Bound: nothing follows a call after which the properties of Dict promise less.
Undisturbed == ~spoiled /\ ~skipped

\* Bound: the references, those of weak references to their callbacks apart.
MaxRefs == 3
Sparse ==
  Cardinality({<<o, p>> \in (Objects \ Weakrefs) \X Objects : p \in refs[o]}) <= MaxRefs
===============================================================================
