CONSTANTS
  t1 = t1
  t2 = t2
  t3 = t3
  Threads = {t1, t2, t3}
  SharedNests = TRUE
  Upgrades = TRUE
  MaxDepth = 2

SPECIFICATION Spec
SYMMETRY Alike
INVARIANT HoldersListed
CHECK_DEADLOCK FALSE
