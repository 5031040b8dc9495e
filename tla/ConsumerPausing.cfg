\* An audio and two video Consumers, two pauses of Producers.
SPECIFICATION Spec
CONSTANTS
  Audio = {a}
  Video = {v, w}
  a = a
  v = v
  w = w
  MaxChanges = 2
  MaxWire = 1
INVARIANTS
  ShownIsForwarded
  PausesAreToldApart
CHECK_DEADLOCK FALSE
