\* One other Peer that comes and goes, a Consumer and a DataConsumer.
SPECIFICATION FairSpec
CONSTANTS
  PeerId = {alice}
  Bot = bot
  Consumer = {c1, d1}
  DataConsumer = {d1}
  MaxPeerEvents = 5
  MaxSessions = 2
INVARIANTS
  ListedIsKnown
  NothingHidden
PROPERTY ClosedConsumerLeaves
CHECK_DEADLOCK FALSE
