SPECIFICATION Spec
CONSTANTS
  NoOne = NoOne
  top = top
  sub = sub
  base = base
  rival = rival
  user = user
  part = part
  k1 = k1
  k2 = k2
  Scopes <- TwoScopes
  ParentOf <- TopAndSub
  Installs <- Market
  ScopeOf <- MarketScope
  OwnerOf <- MarketOwner
  Requires <- MarketRequires
  Provides <- MarketProvides
  Artifacts = {}
  MaxEpochs = 1
  MaxFaults = 0
INVARIANTS SlotsHold ClosedIsEmpty
PROPERTIES ImplementsLending
CHECK_DEADLOCK FALSE
SYMMETRY Rivals
CONSTRAINT UserFails
