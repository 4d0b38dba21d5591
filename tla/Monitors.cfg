SPECIFICATION InstanceSpec
CONSTANTS
  Threads = {t1, t2, t3, t4}
  NoThread = NoThread
  Abandoned = Abandoned
  Initial = 1
  IsBounded = TRUE
  MaxSemaphoreCalls = 9
  ThreeThreads = {t1, t2, t3}
  MaxEventCalls = 7
  MaxServerCalls = 9
INVARIANTS OneToken NoLostWakeup ValueInRange PermitsClaimed
PROPERTIES LockSpec WaitKept ShutdownDoes
\* threads may block for ever
CHECK_DEADLOCK FALSE
