SPECIFICATION Spec
CONSTANTS
  b1 = b1
  b2 = b2
  b3 = b3
  Block <- MCBlock
  Funs <- MCFuns
  MaxVisits = 2
INVARIANTS
  TypeOK
  PathsAreWalks
  FramesAreNested
  RecordedOnce
  DepthBounded
  NoPathMissed
PROPERTY Termination
CHECK_DEADLOCK FALSE
