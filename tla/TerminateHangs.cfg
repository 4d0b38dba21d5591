SPECIFICATION Spec
CONSTANTS
  Maps = {m}
  IMaps = {im}
  Length = 2
  Workers = {w1, w2}
  Main = Main
  TaskHandler = TaskHandler
  None = None
  MaxTasks = 1
  PipeSize = 1
  MayFail = TRUE
PROPERTY TerminateReturns
\* the pool ends
CHECK_DEADLOCK FALSE
