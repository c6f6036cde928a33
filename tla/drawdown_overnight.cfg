SPECIFICATION Spec
CONSTANTS
  Equities <- MCEquities
  LastDay = 1
  MaxCrashes = 0
  EntryDteLow = 1
  EntryDteHigh = 18
  ForceFlattenDte = 1
  MaxLossBp = 75
  DailyNewRiskBp = 200
  DrawdownFlattenBp = 500
  TakeProfitBp = 5000
  DefendBp = 20000
  MaxOpenStructures = 3
PROPERTY
  StaysTripped
