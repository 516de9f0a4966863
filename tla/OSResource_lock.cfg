CONSTANTS
  t1 = t1
  t2 = t2
  t3 = t3
  Threads = {t1, t2, t3}
  SharedNests = FALSE
  Upgrades = FALSE
  MaxDepth = 2

SPECIFICATION FairSpec
INVARIANTS
  TypeOK
  ResourceInv
  ExclusiveAlone
PROPERTIES
  RWLockSpec
  WriterServed
  ReaderServed
