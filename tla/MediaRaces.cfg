SPECIFICATION MCSpec
CONSTANTS
  AppBase = 2
  AppEnd = 4
  Top = 8
  SectorCells = 2
  PageCells = 2
  XferCells = 2
  PosMod = 4
  Cell <- MCCell
  Erased = "erased"
  Junk = "junk"
  DualBank = TRUE
  Faults = {"report"}
  HostAddrs = {0, 2, 12}
  Payloads <- PlainPayloads
  Races = {"cancel"}
INVARIANTS MediaTypeOK CacheCoherent
PROPERTIES BootloaderIntact
