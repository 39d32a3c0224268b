CONSTANTS
  AddrMod = 8
  Segments <- MCSegments
  Blocks <- MCBlocks
  FlagAddr = 3
  BootCells = {2}
  Erased = Erased
  Damaged = Damaged
  AppFlag = AppFlag
  BootCode = BootCode
  Scrambled = Scrambled
  Data = {d1}
  Programs <- Programmed
  NoHeader = NoHeader
  Headers = {NoHeader, h1}
  Seeds = {0, 1, 2}
  SessionArgs = {0, 1, 2, 3, 9}
  EraseRanges = {}
  LoadRanges <- SomeLoads
  EncFlags = {TRUE, FALSE}
  SnMod = 2
  MaxTotal = 2
  MaxPos = 1
  Faults = {}
  Listening = FALSE
SPECIFICATION Spec
INVARIANTS
  UnlockedOnlyHere
  TransferWindow
