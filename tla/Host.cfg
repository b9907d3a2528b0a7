SPECIFICATION MCSpec
CONSTANTS
  AppBase = 2
  AppEnd = 6
  Top = 10
  SectorCells = 2
  PageCells = 1
  XferCells = 2
  PosMod = 4
  Cell <- MCCell
  Erased = "erased"
  Junk = "junk"
  DualBank = TRUE
  Faults = {"report"}
  Races = {}
  HostAddrs = {2, 3, 4, 5}
  Payloads <- MCPayloads
  WordCells = 2
  AddrMax = 1000
  HostBlocks = {0, 1, 2, 3}
  UploadMax = 4
  Free = "free"
  Sessions <- MCSessions
  NoExec = 0
  Lookalike <- MCLookalike
  Credit = 3
INVARIANTS ToolTypeOK StoredIsInFlash ErrorsHaveCause FreshUploadIsFlash
PROPERTIES SessionsEnd
