SPECIFICATION ReplaySpec
CONSTANTS
  LotStep = 2
  LotMin = 2
  MinOrder = 5
  FeePct = 25
  MonthlyInject = 16
  Deposits = {0, 50}
  Prices = {0, 4, 8}
  Months = {1, 2, 3}
  MaxBars = 3
  Seeds <- MCSeeds
  Terms <- MCTerms
  SpotOutputs <- MCSpotOutputs
  MarginOutputs <- MCMarginOutputs
CHECK_DEADLOCK FALSE
INVARIANTS ReplayTypeOK LotsAreBuckets InjectedOncePerMonth MarginAddsUp
PROPERTIES NoMoneyFromNothing
