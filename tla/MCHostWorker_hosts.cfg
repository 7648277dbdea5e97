SPECIFICATION Spec
CONSTANTS
  h1 = h1
  h2 = h2
  Hosts = {h1, h2}
  Business = {1}
  Resources = {2}
  Classes = {"success", "failure"}
  MaxFence = 2
  MaxCrashes = 2
INVARIANTS TypeOK DispatchedOnce ReceiptDiscipline
PROPERTY ImplementsLife
SYMMETRY HostSymmetry
