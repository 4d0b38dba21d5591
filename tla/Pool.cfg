SPECIFICATION Spec
CONSTANTS
  Maps = {m}
  IMaps = {im}
  Length = 2
  Workers = {w1, w2}
  Main = Main
  TaskHandler = TaskHandler
  None = None
  MaxTasks = 1
  PipeSize = 1
  MayFail = TRUE
INVARIANT TasksAccounted
PROPERTIES JobsFinish JoinReturns
\* the pool ends, or blocks after a task has failed
CHECK_DEADLOCK FALSE
