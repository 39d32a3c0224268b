CONSTANTS
  AddrMod = 9
  Segments <- LargeSegments
  Blocks <- LargeBlocks
  FlagAddr = 3
  BootCells = {2}
  Erased = Erased
  Damaged = Damaged
  AppFlag = AppFlag
  BootCode = d0
  Scrambled = Scrambled
  d0 = d0
  d1 = d1
  Data = {d0, d1}
  Programs <- Programmed
  NoHeader = NoHeader
  Headers = {NoHeader, h1}
  Seeds = {0, 1}
  SessionArgs = {}
  EraseRanges = {}
  LoadRanges = {}
  EncFlags = {TRUE, FALSE}
  SnMod = 2
  MaxTotal = 3
  MaxPos = 3
  Listening = TRUE
  File <- TwoSegments
  Encrypted = TRUE
  FileHeader = h1
  OldImage <- LargeOld
  Faults = {}
  MaxLosses = 0
  MaxCopies = 1
  MaxRuns = 1
SPECIFICATION FairSysSpec
INVARIANTS
  SuccessIsTrue
PROPERTIES
  ToolEnds
  UpdateSucceeds
