\* Three overlapping calls, two Producers, two sessions.
SPECIFICATION FairSpec
CONSTANTS
  MaxCalls = 3
  MaxProducers = 2
  MaxSessions = 2
  MaxWire = 1
INVARIANTS
  StoreShowsServer
  ShownIsInSlot
PROPERTY ProgressEnds
CHECK_DEADLOCK FALSE
