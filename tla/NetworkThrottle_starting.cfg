\* The Server closes while the throttle starts.
SPECIFICATION FairSpec
CONSTANTS
  r1 = r1
  r2 = r2
  NoRoom = NoRoom
  Room <- Rooms1
  MaxApply = 1
  MaxStop = 0
  Fails <- NoneFails
  MayDie = FALSE
PROPERTIES
  ClosureStopsThrottle
CHECK_DEADLOCK FALSE
