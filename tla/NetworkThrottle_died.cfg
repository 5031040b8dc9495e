\* The Server closes because a Worker died.
SPECIFICATION FairSpec
CONSTANTS
  r1 = r1
  r2 = r2
  NoRoom = NoRoom
  Room <- Rooms1
  MaxApply = 1
  MaxStop = 0
  Fails <- NoneFails
  MayDie = TRUE
PROPERTIES
  DeathStopsIdleThrottle
CHECK_DEADLOCK FALSE
