SPECIFICATION MCSpec
CONSTANTS
  AppBase = 2
  AppEnd = 6
  Top = 10
  SectorCells = 2
  PageCells = 1
  XferCells = 2
  PosMod = 4
  Cell <- MCCell
  Erased = "erased"
  Junk = "junk"
  DualBank = TRUE
  Faults = {"refuse", "report", "silent"}
  Races = {}
  HostAddrs = {3, 4, 6}
  Payloads <- LongPayload
  WordCells = 2
  AddrMax = 1000
  HostBlocks = {0, 1, 2}
  UploadMax = 4
  Free = "free"
  Credit = 5
INVARIANTS DfuTypeOK AcknowledgedIsKept ManifestIsDurable IdleHoldsNoData JobsAreSerialised StatusMatchesState
PROPERTIES BeyondAppIntact JobsEnd
