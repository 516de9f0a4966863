CONSTANTS
  Machine <- TwoBoards
  Channels <- TwoAndOne
  Exposes = {TRUE, FALSE}
  MaxDevices = 2
  MaxLocal = 2
  Failing <- EarlyFailures
  Clients = {c1}
  Values = {v1, v2}
  Budget = 4

SPECIFICATION FairSpec
INVARIANTS
  NothingOutlivesItsBase
  NodesFound
  InputsFollow
  ChangeSignalled
PROPERTY ChangesDelivered
CHECK_DEADLOCK FALSE
