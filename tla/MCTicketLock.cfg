SPECIFICATION Spec
CONSTANTS
  Proc = {p1, p2, p3}
  Nobody = Nobody
  Mod = 4
  Slots = 2
INVARIANTS TypeOK MutualExclusion NoLostWakeup
PROPERTY Fair
