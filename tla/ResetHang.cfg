SPECIFICATION MCSpec
CONSTANTS
  AppBase = 4
  AppEnd = 8
  Top = 16
  SectorCells = 4
  PageCells = 2
  XferCells = 2
  PosMod = 8
  Cell <- MCCell
  Erased = "erased"
  Junk = "junk"
  DualBank = TRUE
  Faults = {}
  Races = {"cancel"}
  HostAddrs = {5}
  Payloads <- BothPayloads
  WordCells = 2
  AddrMax = 1000
  HostBlocks = {2}
  UploadMax = 4
  Free = "free"
  Credit = 5
PROPERTIES JobsEnd
