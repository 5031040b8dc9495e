\* What the reducers of the store take for impossible.
SPECIFICATION Spec
CONSTANTS
  PeerId = {alice}
  Bot = bot
  Consumer = {c1, d1}
  DataConsumer = {d1}
  MaxPeerEvents = 4
  MaxSessions = 1
INVARIANT NoReducerThrows
CHECK_DEADLOCK FALSE
