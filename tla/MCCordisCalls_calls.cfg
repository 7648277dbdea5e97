SPECIFICATION FairSpec
CONSTANTS
  h1 = h1
  h2 = h2
  Hosts = {h1, h2}
  Teams = {{h1}, {h1, h2}}
  Steps = {1, 3}
  MaxTools = 2
  MaxFaults <- FaultsOfTeams
  Leaving = {{h1}}
INVARIANT CallsSafe
PROPERTIES ReceiptKept RunEnds
CHECK_DEADLOCK FALSE
