\* What Peer.ts says of the disconnected event.
SPECIFICATION Spec
CONSTANTS
  c1 = c1
  c2 = c2
  c3 = c3
  alice = alice
  bob = bob
  t1 = t1
  Conn <- Conns3
  PeerId <- Ids
  Transport <- Transports
  None = None
INVARIANT
  DisconnectedOnlyIfJoined
CHECK_DEADLOCK FALSE
