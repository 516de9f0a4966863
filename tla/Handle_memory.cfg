SPECIFICATION Spec
CONSTANTS
  f1 = f1
  f2 = f2
  Files = {f1, f2}
  Careful = {f1}
  MaxFrame = 2
  Planes = {1, 2}
  MaxReq = 3
  MaxMaps = 2
  Signals = FALSE
  Failures = {"h", "channel", "sem", "spinlock", "irp", "capture", "enable", "messages", "nocapture", "format", "buf", "memory", "dma", "bufirp", "ioctlsin", "in", "close"}
  Budget = 5
INVARIANTS NoDanglingPointer 
 
CHECK_DEADLOCK FALSE
