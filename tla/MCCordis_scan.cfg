SPECIFICATION FairSpec
CONSTANTS
  NoOne = NoOne
  root = root
  left = left
  right = right
  user = user
  k1 = k1
  k2 = k2
  Fibers = {root, left, right, user}
  Keys = {k1, k2}
  OwnerOf <- Tree
  Requires <- Needs
  Provides <- Offers
  Rank <- Ids
  Batch = 1
  MayDispose = {left, user}
  MaxSeq <- Turns
INVARIANT Lifecycle
PROPERTY Converges
CHECK_DEADLOCK FALSE
