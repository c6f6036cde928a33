SPECIFICATION PassSpec
CHECK_DEADLOCK FALSE
CONSTANTS
    EntryDteLow = 1
    EntryDteHigh = 18
    ForceFlattenDte = 1
    MaxLossBp = 75
    DailyNewRiskBp = 200
    DrawdownFlattenBp = 500
    TakeProfitBp = 5000
    DefendBp = 20000
    MaxOpenStructures = 3
    MaxLots = 2
    RegimeMaxLots <- MCRegimeMaxLots
    MinCreditToWidthBp = 1500
    MaxSpreadBp = 2000
    MaxQuoteAgeMs = 5000
    FinalSessionMinutes = 15
    Cases <- MCCases
    Chains <- MCChains
    Settlements <- MCSettlements
INVARIANTS
    TypeOK
    LossWithinConcession
    ChargeCoversRisk
    LyingNeverHelps
    FlatAfterClose
    BuiltTicketsAreBelieved
    ShortlistIsDiverse
    FallbackIsBest
