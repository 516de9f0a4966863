CONSTANTS
  t1 = t1
  t2 = t2
  Core = Core
  None = None
  Threads = {t1}
  Calls <- OneCaller
  Indices <- InRange
  NonBlock = FALSE
  Polite = TRUE
  Signals = FALSE
  CoreBulk = FALSE
  CapWrap = 0
  Budget = 5
  NumBuffers = 2

SPECIFICATION FairSpec
INVARIANT NoMissedWakeup
PROPERTY CallsReturn
