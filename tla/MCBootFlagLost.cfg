CONSTANTS
  AddrMod = 8
  Segments <- MCSegments
  Blocks <- MCBlocks
  FlagAddr = 3
  BootCells = {2}
  Erased = Erased
  Damaged = Damaged
  AppFlag = AppFlag
  BootCode = BootCode
  Scrambled = Scrambled
  Data = {d1}
  Programs <- Programmed
  NoHeader = NoHeader
  Headers = {NoHeader}
  Seeds = {0, 1}
  SessionArgs = {2}
  EraseRanges <- AppRanges
  LoadRanges <- SomeLoads
  EncFlags = {FALSE}
  SnMod = 2
  MaxTotal = 2
  MaxPos = 1
  Faults = {"power"}
  Listening = FALSE
SPECIFICATION Spec
PROPERTIES
  ChecksumOkIsBootable
