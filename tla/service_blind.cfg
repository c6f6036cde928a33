SPECIFICATION ServiceSpec
CONSTANTS
  MaxEntries = 8
  MaxExits = 0
  MaxFaults = 1
  FaultsUntil = 9
  ReusableIds = FALSE
  GateWindow = 9
  DecisionWindow = 8
  Capability <- MCCapability
  Candidates <- MCCandidates
  ServerTools <- MCServerTools
  Tickets = {1}
  Worlds <- MCGoodWorld
PROPERTY
  BlindPassIsTheLast
