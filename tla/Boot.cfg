SPECIFICATION MCSpec
CONSTANTS
  AppBase = 2
  AppEnd = 6
  Top = 10
  SectorCells = 2
  PageCells = 1
  XferCells = 2
  PosMod = 4
  Cell <- MCCell
  Erased = "erased"
  Junk = "junk"
  DualBank = TRUE
  Faults = {"report"}
  Races = {}
  HostAddrs = {2, 4, 6}
  Payloads <- LongPayload
  WordCells = 2
  AddrMax = 1000
  HostBlocks = {0, 1, 2}
  UploadMax = 4
  Free = "free"
  Credit = 4
  StayBuilds = {FALSE, TRUE}
  WaitMs = 1
  DefaultMs = 1
  TriggerMs = 2
INVARIANTS BootTypeOK TimeoutBootsDefault BootsProgrammedEntry BootsSettledFlash TimeoutSparesErrors IdleHoldsNoData
PROPERTIES SilentHostIsLeft
CHECK_DEADLOCK FALSE
