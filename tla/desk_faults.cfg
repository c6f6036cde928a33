SPECIFICATION Spec
CONSTANTS
  Tickets = {"near_spread", "near_condor"}
  ReusableIds = FALSE
  CallsMayFail = TRUE
  LastDay = 3
  MaxCrashes = 2
  MaxQty = 1
  MaxFills = 1
  NoTicket = NoTicket
  Expiry <- MCExpiry
  MaxLoss <- MCMaxLoss
  Legs <- MCLegs
  Marks <- MCMarks
  Equity = 100000
  EntryDteLow = 1
  EntryDteHigh = 18
  ForceFlattenDte = 1
  MaxLossBp = 75
  DailyNewRiskBp = 100
  DrawdownFlattenBp = 500
  TakeProfitBp = 5000
  DefendBp = 20000
  MaxOpenStructures = 3
INVARIANTS
  TypeOK FillsNotInvented NeverReversed WorkingOrdersWereAllowed
  RecordingInv AllowInv ClosedOnceInv BudgetButForLost BudgetInv
PROPERTY
  LedgerSpec FillsReachTheJournal
