CONSTANTS
  Contents = {c1, c2}
  Blank = Blank
  Bad = Bad
  Free = Free
  MaxChanges = 1
SPECIFICATION FairSpec
PROPERTY WatcherSettles
CHECK_DEADLOCK FALSE
