SPECIFICATION Spec
CONSTANTS
  t1 = t1
  t2 = t2
  r1 = r1
  Entries = 2
  Addresses <- OneRange
  Tmp = {t1, t2}
  Reg = {r1}
  Sizes = {1, 2}
  MaxLists = 6
  MaxNodes = 2
INVARIANTS
  TypeOK
  OwnedOnce
  AllFreed
  EntryPerByte
SYMMETRY Symmetry
CHECK_DEADLOCK FALSE
