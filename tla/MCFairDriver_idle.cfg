SPECIFICATION Spec
CONSTANTS
  Scopes = {1, 2}
  HostKind = {1}
  Business = {2}
  ScopeOf <- Apart
  Manual = {}
  Recurring = {}
  Poison = {}
  Rosters <- AnyRoster
  MaxRounds = 2
  Burst = 3
  SweepLimit = 1
  MaxFence = 2
  MaxRivals = 1
  MaxFaults = 1
INVARIANTS VisitsSound IdleIsTrue ScopeTurn
