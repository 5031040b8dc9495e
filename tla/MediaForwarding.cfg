\* Two Peers and a BroadcasterPeer; the Producer has a replica.
CONSTANTS
  Peer = {p1, p2}
  BroadcasterPeer = {b1}
  AudioVideo = {cam}
  Chat = {}
  BotData = bot
  ConsumerReplicas = 1
  NoOne = noOne

SPECIFICATION FairSpec

INVARIANTS
  ConsumedAtMostOnce
  NothingMissed
  ToldBeforeAsked

PROPERTY NoLastingOrphan

\* Everyone may have left, or the process have ended.
CHECK_DEADLOCK FALSE
