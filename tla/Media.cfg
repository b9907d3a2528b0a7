SPECIFICATION MCSpec
CONSTANTS
  AppBase = 2
  AppEnd = 6
  Top = 10
  SectorCells = 2
  PageCells = 1
  XferCells = 2
  PosMod = 4
  Cell <- MCCell
  Erased = "erased"
  Junk = "junk"
  DualBank = TRUE
  Faults = {"refuse", "report", "silent"}
  HostAddrs = {3, 4, 5}
  Payloads <- LongPayload
  Races = {}
INVARIANTS CacheCoherent CopyInBounds ProgramsErasedPages
PROPERTIES BeyondAppIntact KeepsStorePromise
