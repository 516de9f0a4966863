CONSTANTS
  t1 = t1
  t2 = t2
  t3 = t3
  s1 = s1
  None = None
  Threads = {t1, t2, t3}
  Timed = {t1}
  Setters = {s1}
  Types = {"Notification", "Synchronization"}
  Modes = {"KernelMode"}
  Counting = {TRUE, FALSE}
  Budget = 3

SPECIFICATION FairSpec
INVARIANTS
  TypeOK
  NoFlagSleptThrough
  OneWaiterPerSignal
PROPERTY SignalTaken
CHECK_DEADLOCK FALSE
