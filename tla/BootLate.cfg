SPECIFICATION MCSpec
CONSTANTS
  AppBase = 2
  AppEnd = 6
  Top = 10
  SectorCells = 2
  PageCells = 1
  XferCells = 2
  PosMod = 4
  Cell <- MCCell
  Erased = "erased"
  Junk = "junk"
  DualBank = TRUE
  Faults = {"report"}
  Races = {"teardown", "leaving"}
  HostAddrs = {3, 4, 6}
  Payloads <- LongPayload
  WordCells = 2
  AddrMax = 1000
  HostBlocks = {0, 1, 2}
  UploadMax = 4
  Free = "free"
  Credit = 3
  StayBuilds = {FALSE}
  WaitMs = 1
  DefaultMs = 1
  TriggerMs = 2
INVARIANTS TimeoutBootsDefault
CHECK_DEADLOCK FALSE
