CONSTANTS
  Contents = {c1, c2}
  Blank = Blank
  Bad = Bad
  Free = Free
  MaxChanges = 3
SPECIFICATION FairSpec
INVARIANTS TypeOK UnseenIsNewer
PROPERTIES EditsAreSeen WatcherReturns
CHECK_DEADLOCK FALSE
