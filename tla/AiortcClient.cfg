\* The webcam, one Consumer, two calls, two connections.
SPECIFICATION FairSpec
CONSTANTS
  Medium = {"webcam"}
  Consumer = {c}
  MaxCalls = 2
  MaxOpens = 2
  MaxProducers = 3
INVARIANTS
  AliveIsInSlot
  ServerAgrees
PROPERTY
  ProgressEnds
CHECK_DEADLOCK FALSE
