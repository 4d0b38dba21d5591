SPECIFICATION Spec
CONSTANTS
  Objects = {o1, o2, o3}
  Main = Main
  Dummy = Dummy
  Natives = {n1, n2, n3}
  MainNative = n1
  Foreign = {n3}
  None = None
  Daemons = {o3}
  MayStart <- ChainStarts
  MayFork = TRUE
  o1 = o1
  o2 = o2
  o3 = o3
INVARIANTS AliveListed StoppedIsOver ActiveIsOwn ExitWaits
PROPERTY JoinReturns
\* threads may join each other, and the program ends
CHECK_DEADLOCK FALSE
