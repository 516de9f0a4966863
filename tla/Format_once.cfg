CONSTANTS
  Modulus = 65536
  Channels = {0, 1}
  Exposes = {FALSE}
  Fmts = {"BGR24", "Y8", "NV12"}
  Widths = {4}
  Heights = {0, 3}
  MaxW = 8
  MaxH = 4
  alignMask = 3
  Buffers = {1}
  Memories = {"MMAP", "USERPTR"}
  Ids <- TwoIds
  Modes <- TwoModes
  TypeOf <- VideoTypes
  LimitsOf <- TwoLimits
  Resizes = FALSE
  Changes = 2

SPECIFICATION Spec
INVARIANTS
  FillsFit
  FormatStays
PROPERTY PolicedWhenQueried
CHECK_DEADLOCK FALSE
