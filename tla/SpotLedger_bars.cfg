SPECIFICATION Spec
CONSTANTS
  Bars = {1, 2}
  Engines = {"MACRO", "MICRO"}
  MaxBuy = 1
  MaxReports = 3
  Seed <- MCSeed
INVARIANT TypeOK
INVARIANT BucketsMatchLots
INVARIANT LotsMatchTrades
INVARIANT OnlySalesCompete


CHECK_DEADLOCK FALSE
