CONSTANTS
  AddrMod = 6
  Segments <- SmallSegments
  Blocks <- SmallBlocks
  FlagAddr = 2
  BootCells = {1}
  Erased = Erased
  Damaged = Damaged
  AppFlag = AppFlag
  BootCode = d1
  Scrambled = d1
  Data = {d1}
  Programs <- Programmed
  NoHeader = NoHeader
  Headers = {NoHeader}
  Seeds = {0, 1}
  SessionArgs = {2}
  EraseRanges <- FlagErases
  LoadRanges <- FlagLoads
  EncFlags = {FALSE}
  SnMod = 1
  MaxTotal = 1
  MaxPos = 1
  Faults = {"power", "program", "erase"}
  Listening = FALSE
SPECIFICATION Spec
INVARIANTS
  EraseResultHonest
  EraseOutcomeReady
  ImageSound
  BootCodeIntact
PROPERTIES
  EraseRangeStable
  FlagOnlyByChecksum
