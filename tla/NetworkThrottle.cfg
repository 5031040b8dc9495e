\* One apply and two stops by two Rooms; commands may fail, a Worker may die.
SPECIFICATION FairSpec
CONSTANTS
  r1 = r1
  r2 = r2
  NoRoom = NoRoom
  Room <- Rooms2
  MaxApply = 1
  MaxStop = 2
  Fails <- AllFail
  MayDie = TRUE
INVARIANTS
  ActiveIsRecorded
PROPERTIES
  EveryRequestSettles
  ClosureStopsIdleThrottle
CHECK_DEADLOCK FALSE
