SPECIFICATION FairSpec
CONSTANTS
  MaxTasks = 2
  Generations = 2
  Cancelers = {c1, c2}
  MaxFaults = 1
INVARIANT LiveRunIsCurrent
INVARIANT SuccessIsComplete
PROPERTY EndIsFinal
PROPERTY RunningEnds
