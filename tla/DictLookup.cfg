SPECIFICATION InstanceSpec
CONSTANTS
  Objects = {a, f, t, w}
  None = None
  HasDel = {f}
  NoClear = {t}
  Weakrefs = {w}
  Callbacks = {w}
  NUM_GENERATIONS = 2
  MaxAlive = 3
  Parts = {"dict"}
  x = x
  X = X
  y = y
  z = z
  Keys = {x, X, y, z}
  Hash <- SameHash
  Class <- ClassOf
  NULL = NULL
  Addresses = {"m1", "m2"}
  PyDict_MINSIZE = 4
  GrowthRate = 2
  MaxDoublings = 2
INVARIANT LookupRight
SYMMETRY Symmetry
\* every call may be over
CHECK_DEADLOCK FALSE
