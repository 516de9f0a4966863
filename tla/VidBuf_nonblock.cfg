CONSTANTS
  t1 = t1
  t2 = t2
  Core = Core
  None = None
  Threads = {t1, t2}
  Calls <- TwoCallers
  Indices <- InRange
  NonBlock = TRUE
  Polite = TRUE
  Signals = FALSE
  CoreBulk = FALSE
  CapWrap = 0
  Budget = 4
  NumBuffers = 2

SPECIFICATION Spec
INVARIANTS
  TypeOK
  QueueInv
  DmaTargetsActive
  NoForgottenBuffer
  MutualExclusion
PROPERTY
  FrameQueueSpec
