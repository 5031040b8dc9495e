\* What signaling/apiMessages.ts of broadcaster/ says of createPlainTransport.
SPECIFICATION Spec
CONSTANTS
  Sender = {s}
  Receiver = {r}
  NodeProgram = {n}
  Source = s
PROPERTY TransportsAreAccepted
CHECK_DEADLOCK FALSE
