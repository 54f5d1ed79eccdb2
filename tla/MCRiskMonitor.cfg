\* One checker: monitorLoop. ForceCheckRisk runs the same steps under the same lock.
CONSTANTS
  Threshold = 1
  HalfOpenMaxTry = 1
  CountCap = 2
  Checkers = {loop}
  Traders = {t1}
  NoOne = NoOne
  InitialEquity = 100
  DailyLossLimit = 7
  MaxDrawdownPct = 10
  MinPnLThreshold <- MCMinPnLThreshold
  TradeResults <- MCTradeResults
  UnrealizedValues <- MCUnrealizedValues
  MaxLoss = 8
  MaxGain = 0
SPECIFICATION FairSpec
INVARIANTS
  EmergencyIsTripped
PROPERTIES
  TripIsNoticed
  BreachStopsTrading
