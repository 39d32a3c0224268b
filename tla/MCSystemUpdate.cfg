CONSTANTS
  AddrMod = 8
  Segments <- MCSegments
  Blocks <- MCBlocks
  FlagAddr = 3
  BootCells = {2}
  Erased = Erased
  Damaged = Damaged
  AppFlag = AppFlag
  BootCode = d0
  Scrambled = d0
  d0 = d0
  d1 = d1
  Data = {d0, d1}
  Programs <- Programmed
  NoHeader = NoHeader
  Headers = {NoHeader, h1}
  Seeds = {0, 1}
  SessionArgs = {}
  EraseRanges = {}
  LoadRanges = {}
  EncFlags = {TRUE, FALSE}
  SnMod = 2
  MaxTotal = 4
  MaxPos = 4
  Listening = TRUE
  File <- OneSegment
  Encrypted = FALSE
  FileHeader = h1
  OldImage <- Old
  Faults = {"power", "program", "erase"}
  MaxLosses = 2
  MaxCopies = 0
  MaxRuns = 3
SPECIFICATION SysSpec
PROPERTIES
  KeepsPromise
