SPECIFICATION InstanceSpec
CONSTANTS
  Threads = {t1, t2, t3}
  MaxAsleep = 4
  Procs = {p1, p2}
  Root = p1
  None = None
  MaxSize = 2
  PipeSize = 1
  MaxPuts = 2
  Cancellers = {p2}
  Failers = {p1}
INVARIANTS AssertionsHold CountCovers
PROPERTIES NotifyWakes NotifyReturns ItemsDelivered FlushedAtReturn ExitEnds
\* threads may sleep for ever, and the processes end
CHECK_DEADLOCK FALSE
