SPECIFICATION SignalSpec
CONSTANTS
  Callers = {c1}
  Main = Main
  Funcs = {check, other}
  CheckSignals = check
  None = None
  NPENDINGCALLS = 6
  MayFail = FALSE
  MaxAdds = 4
  NSIG = 3
  OnMain = TRUE
  MayGiveUp = FALSE
  MayRaise = FALSE
  MaxSignals = 2
PROPERTY EverySignalHandled
\* no signal arrives and no call is pending
CHECK_DEADLOCK FALSE
