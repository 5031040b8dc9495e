\* Another Room closes before the one that applied the throttle.
SPECIFICATION Spec
CONSTANTS
  r1 = r1
  r2 = r2
  NoRoom = NoRoom
  Room <- Rooms2
  MaxApply = 1
  MaxStop = 0
  Fails <- NoneFails
  MayDie = FALSE
PROPERTIES
  OwnerClosureStops
CHECK_DEADLOCK FALSE
