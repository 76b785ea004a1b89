SPECIFICATION FairSpec
CONSTANTS
  Scans = {s1, s2}
  Callers = {c1, c2}
  MaxBar = 2
  MaxCalls = 3
  MaxFailures = 1
  MaxRestarts = 1
INVARIANT OneStepPerBar
INVARIANT LossIsReported
PROPERTY StepsOnlyWhileRunning
PROPERTY NewBarIsStepped
PROPERTY ActiveConverges
