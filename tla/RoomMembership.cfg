\* Three connections of two participants, one transport each.
SPECIFICATION FairSpec
CONSTANTS
  c1 = c1
  c2 = c2
  c3 = c3
  alice = alice
  bob = bob
  t1 = t1
  Conn <- Conns3
  PeerId <- Ids
  Transport <- Transports
  None = None
INVARIANTS
  OneLiveObjectPerId
  RosterComplete
  StaleOnlyIfReplaced
  NoOneInClosedRoom
PROPERTIES
  ImplementsPresence
  EveryPeerJoinsOrCloses
  DesertedRoomCloses
CHECK_DEADLOCK FALSE
