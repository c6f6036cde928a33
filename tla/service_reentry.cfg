SPECIFICATION ServiceSpec
CONSTANTS
  MaxEntries = 26
  MaxExits = 0
  MaxFaults = 0
  FaultsUntil = 0
  ReusableIds = FALSE
  GateWindow = 9
  DecisionWindow = 8
  Capability <- MCCapability
  Candidates <- MCCandidates
  ServerTools <- MCServerTools
  Tickets = {1, 2}
  Worlds <- MCGoodWorld
INVARIANT
  TradesAreTrue
PROPERTY
  TripsAreShown
