\* One run of the program, two signals.
SPECIFICATION FairSpec
CONSTANT MaxSignals = 2
INVARIANT LeavesNothing
PROPERTY
  TerminationEnds
CHECK_DEADLOCK FALSE
