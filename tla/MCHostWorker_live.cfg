SPECIFICATION FairSpec
CONSTANTS
  h1 = h1
  h2 = h2
  Hosts = {h1, h2}
  Business = {1}
  Resources = {2}
  Classes = {"success"}
  MaxFence = 1
  MaxCrashes = 2
PROPERTY WorkEnds
