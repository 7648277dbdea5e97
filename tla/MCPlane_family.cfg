SPECIFICATION FairSpec
CONSTANTS
  NoOne = NoOne
  top = top
  sub = sub
  base = base
  rival = rival
  user = user
  part = part
  k1 = k1
  k2 = k2
  Scopes <- OneScope
  ParentOf <- TopOnly
  Installs <- Family
  ScopeOf <- FamilyScope
  OwnerOf <- FamilyOwner
  Requires <- FamilyRequires
  Provides <- FamilyProvides
  Artifacts = {part}
  MaxEpochs = 1
  MaxFaults = 2
INVARIANTS TypeOK CleanupOrder
PROPERTIES DisposeSteps CleanupEnds
CHECK_DEADLOCK FALSE
