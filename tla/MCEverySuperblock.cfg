SPECIFICATION Spec
CONSTANTS
  Thread = {t1, t2}
  NoThread = NoThread
  Block <- MCBlock
  Code <- MCCode
  Starts <- MCStarts
  Back <- MCBack
  MaxReads = 2
  MaxWrites = 1
SYMMETRY Symmetry
CHECK_DEADLOCK FALSE
INVARIANT EverySuperblock
