SPECIFICATION FairSpec
CONSTANTS
  Scopes = {1}
  HostKind = {1}
  Business = {2, 3}
  ScopeOf <- OneScope
  Manual = {}
  Recurring = {1}
  Poison = {2}
  Rosters <- AnyRoster
  MaxRounds = 1
  Burst = 3
  SweepLimit = 1
  MaxFence = 1
  MaxRivals = 0
  MaxFaults = 0
INVARIANTS HostBurst
PROPERTIES EffectServed
