\* A second apply while the throttle is enabled.
SPECIFICATION FairSpec
CONSTANTS
  r1 = r1
  r2 = r2
  NoRoom = NoRoom
  Room <- Rooms2
  MaxApply = 2
  MaxStop = 0
  Fails <- NoneFails
  MayDie = FALSE
PROPERTIES
  EveryRequestSettles
CHECK_DEADLOCK FALSE
