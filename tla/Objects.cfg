SPECIFICATION InstanceSpec
CONSTANTS
  Objects = {a, f, t, w}
  None = None
  HasDel = {f}
  NoClear = {t}
  Weakrefs = {w}
  Callbacks = {w}
  NUM_GENERATIONS = 2
  MaxAlive = 3
  Parts = {"gc", "dict"}
  x = x
  X = X
  y = y
  z = z
  Keys = {x, X, y, z}
  Hash <- SameHash
  Class <- ClassOf
  NULL = NULL
  Addresses = {"m1", "m2"}
  PyDict_MINSIZE = 4
  GrowthRate = 2
  MaxDoublings = 2
INVARIANTS ListsConsistent Isolated GarbageFound TrashHidden TrashFreed LookupFinds VirginSlot
PROPERTY ReturnDoes
SYMMETRY Symmetry
CONSTRAINTS Undisturbed Sparse
\* the program may hold no object and allocate none
CHECK_DEADLOCK FALSE
