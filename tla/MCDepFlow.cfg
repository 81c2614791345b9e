SPECIFICATION Spec
CONSTANTS
  t1 = t1
  t2 = t2
  t3 = t3
  p1 = p1
  NoTmp = NoTmp
  Tmp = {t1, t2, t3}
  Reg = {10, 11}
  Addr = {0, 1}
  Width = {1, 2}
  Size = {1, 2}
  Parked = {p1}
  ResultRegs = {10}
  MaxOperands = 2
  MaxReads = 1
  MaxWrites = 1
CONSTRAINT Explored
INVARIANTS
  TypeOK
  HeadIsFirst
  NoPhantom
  NoMissed
  WritesBounded
SYMMETRY Symmetry
CHECK_DEADLOCK FALSE
