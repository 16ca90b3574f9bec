SPECIFICATION Spec
CONSTANTS
  Properties = {prop1}
  Values <- MCValues
  Default = 0
  Connections = 2
  MaxPosts = 4
INVARIANTS
  TypeOK
  BurstLands
  Explained
PROPERTIES
  Settles
