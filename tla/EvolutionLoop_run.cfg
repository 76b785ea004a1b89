SPECIFICATION Spec
CONSTANTS
  Raw <- MCRaw
  Score <- MCScore
  Workers = {w1, w2}
  PopSize = 6
  EliteCount = 8
  MaxGenerations = 5
  MinDelta = 2
  Patience = 2
  RampsToMax = 2
INVARIANTS LoopTypeOK RankedByOwnResults SavedIsBest StopIsEarned
