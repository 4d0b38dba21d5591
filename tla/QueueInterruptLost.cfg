SPECIFICATION Spec
CONSTANTS
  Threads = {t1, t2, t3}
  Conds = {"not_empty", "not_full", "all_tasks_done"}
  Interruptible = {t1}
  Abandoned = Abandoned
  Order = "fifo"
  Items = {1, 2}
  MaxSize = 1
  MaxCalls = 4
PROPERTY GettersServed
\* callers of get() and put() may wait for ever for another thread's call
CHECK_DEADLOCK FALSE
