SPECIFICATION ServiceSpec
CONSTANTS
  MaxEntries = 18
  MaxExits = 1
  MaxFaults = 1
  FaultsUntil = 15
  ReusableIds = FALSE
  GateWindow = 9
  DecisionWindow = 8
  Capability <- MCCapability
  Candidates <- MCCandidates
  ServerTools <- MCServerTools
  Tickets = {1}
  Worlds <- MCWorlds
INVARIANTS
  ServiceTypeOK StartedIsUsable ReadyBuilds OrdersFollowReady
  GateViewIsDesks DecisionIsOnePass TradesAreTrue
PROPERTIES
  JournalSpec CallReturns
