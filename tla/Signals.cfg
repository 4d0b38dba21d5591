SPECIFICATION InstanceSpec
CONSTANTS
  Threads = {t1, t2, t3}
  NoThread = NoThread
  Callers = {c1, c2}
  Main = Main
  Funcs = {check, other}
  CheckSignals = check
  None = None
  NPENDINGCALLS = 3
  MayFail = TRUE
  MaxAdds = 4
  NSIG = 3
  OnMain = TRUE
  MayGiveUp = TRUE
  MayRaise = TRUE
  MaxSignals = 3
INVARIANTS NoLostWakeup PendingAnnounced SignalsAnnounced
PROPERTIES LockSpec SignalHandled Implements
\* threads may block on a lock that nobody releases; no signal arrives and no call is pending
CHECK_DEADLOCK FALSE
