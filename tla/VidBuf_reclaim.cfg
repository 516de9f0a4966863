CONSTANTS
  t1 = t1
  t2 = t2
  Core = Core
  None = None
  Threads = {t1, t2}
  Calls <- DequeueAndPoll
  Indices <- InRangeOrBeyond
  NonBlock = TRUE
  Polite = FALSE
  Signals = TRUE
  CoreBulk = TRUE
  CapWrap = 3
  Budget = 3
  NumBuffers = 2

SPECIFICATION Spec
PROPERTY IdleOnlyRequeued
