SPECIFICATION Spec
CONSTANTS
  block = block
  g = g
  h = h
  s = s
  t = t
  u = u
  v = v
  NoName = NoName
  Block = {block}
  Name <- MCName
  Index = {0, 1}
  Place <- MCPlace
  Programs <- MCAll
INVARIANTS
  TypeOK
  ExactWhenDisciplined
  IdsAreIndices
  ClearedAtMostFrees
  ProgramKept
PROPERTY ScanEnds
CHECK_DEADLOCK FALSE
