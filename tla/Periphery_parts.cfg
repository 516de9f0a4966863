CONSTANTS
  Heads = {h1, h2}
  SHeads = {s1}
  Entries = {e1, e2, e3}
  NoEntry = null
  Poison = poison
  WorkItems = {"item"}
  Dpcs = {"dpc"}
  Callers = {t1, t2}
  Routine <- Runs
  PageSize = 2
  MaxAddress = 5
  Buffers = {0, 1}
  Source = "ANALOGUE"
  Embedded = FALSE
  Params <- MCParams
  Levels <- MCLevels
  Mixers <- MCMixers
  Period = 2
  Periods = 4
  MaxFrames = 17
  NumBuffers = 3
  CommandLines <- MCCommandLines

SPECIFICATION FairSpec
INVARIANTS
  ListsMatch
  BoardHasBuffer
  PagesHeld
  CapsInForce
  MixerTold
  PlaysInOrder
  HeldMemoryExists
PROPERTIES
  RequestRuns
  Ends
CHECK_DEADLOCK FALSE
