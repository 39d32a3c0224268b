CONSTANTS
  Buffers = {b1, b2, b3, b4}
  NRx = 1
  NTx = 2
  KeepsSent = TRUE
SPECIFICATION BufSpec
INVARIANT OneOwner
