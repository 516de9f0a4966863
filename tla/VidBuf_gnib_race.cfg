CONSTANTS
  t1 = t1
  t2 = t2
  Core = Core
  None = None
  Threads = {t1, t2}
  Calls <- CaptureAndControl
  Indices <- InRange
  NonBlock = FALSE
  Polite = TRUE
  Signals = FALSE
  CoreBulk = FALSE
  CapWrap = 0
  Budget = 3
  NumBuffers = 2

SPECIFICATION Spec
PROPERTY IdleOnlyRequeued
