SPECIFICATION InstanceSpec
CONSTANTS
  Threads = {t1, t2, t3}
  None = None
  MaxDepth = 3
  Conds = {"not_empty", "not_full", "all_tasks_done"}
  Interruptible = {t1}
  Abandoned = Abandoned
  Order = "priority"
  Items = {1, 2}
  MaxSize = 1
  MaxCalls = 5
INVARIANTS Exclusive CountIsDepth Claimed
PROPERTY QueueImplements
\* get() and put() may block for ever
CHECK_DEADLOCK FALSE
