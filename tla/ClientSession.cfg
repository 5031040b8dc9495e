\* Two sessions, two transports each.
SPECIFICATION FairSpec
CONSTANTS
  MaxSessions = 2
  MaxTransports = 4
  MaxWire = 1
  MaxNames = 1
INVARIANTS
  ConnectedIsJoined
  TransportsAreReachable
  NameIsKnown
PROPERTY SessionSettles
CHECK_DEADLOCK FALSE
