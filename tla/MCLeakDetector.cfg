SPECIFICATION Spec
CONSTANTS
  b1 = b1
  b2 = b2
  b3 = b3
  b4 = b4
  b5 = b5
  g = g
  s = s
  NoName = NoName
  NoBlock = NoBlock
  Block <- MCBlock
  Name = {g, s, NoName}
  Index = {0}
  Place = {g, s}
  MaxVisits = 1
  Modules <- MCModules
INVARIANTS
  LeaksReported
  VerdictsStable
  ReportsAreWalks
PROPERTY PassEnds
CHECK_DEADLOCK FALSE
