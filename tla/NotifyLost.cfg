SPECIFICATION Spec
CONSTANTS
  Threads = {t1, t2, t3}
  None = None
  MaxAsleep = 4
PROPERTY NotifyWakesSleeper
\* threads may sleep for ever
CHECK_DEADLOCK FALSE
