SPECIFICATION Spec
CONSTANTS
  t1 = t1
  t2 = t2
  r1 = r1
  NoTmp = NoTmp
  Tmp = {t1, t2}
  Reg = {r1}
  Addr = {0, 1}
  Width = {1, 2}
  Ops <- MCOps
  Qops <- MCQops
  MaxReads = 2
  MaxWrites = 1
  MaxNodes = 2
INVARIANTS
  TypeOK
  NoRepeats
  OneNodePerReg
PROPERTIES
  Implements
  CallbacksAgree
SYMMETRY Symmetry
CHECK_DEADLOCK FALSE
