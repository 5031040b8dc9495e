\* A sending script, a receiving one and the Node broadcaster.
SPECIFICATION Spec
CONSTANTS
  Sender = {s}
  Receiver = {r}
  NodeProgram = {n}
  Source = s
INVARIANTS
  ForgottenForGood
  LeaksAtMostOne
  MediaIsServed
  PlayerIsKilled
CHECK_DEADLOCK FALSE
