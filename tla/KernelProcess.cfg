CONSTANTS
  Procs = {p1, p2, p3}
  None = None
SPECIFICATION FairSpec
INVARIANTS
  TypeOK
  AtMostOneLive
  StopLeavesNothing
  RunningIsTracked
  HiddenProcessIsReported
PROPERTIES
  WaiterClosesItsOwn
  ImplementsSlot
  OperationReturns
  CrashIsNoticed
