SPECIFICATION Spec
CONSTANTS
  Tickets = {"near_spread", "near_other"}
  ReusableIds = TRUE
  CallsMayFail = FALSE
  LastDay = 2
  MaxCrashes = 1
  MaxQty = 2
  MaxFills = 2
  NoTicket = NoTicket
  Expiry <- MCExpiry
  MaxLoss <- MCMaxLoss
  Legs <- MCLegs
  Marks <- MCMarks
  Equity = 100000
  EntryDteLow = 1
  EntryDteHigh = 18
  ForceFlattenDte = 1
  MaxLossBp = 75
  DailyNewRiskBp = 200
  DrawdownFlattenBp = 500
  TakeProfitBp = 5000
  DefendBp = 20000
  MaxOpenStructures = 3
INVARIANTS
  FlattenZoneCovered CoverInv
