CONSTANTS
  Size = 3
  Halfway = FALSE
  MaxSent = 4
  Announces <- ThreeMasters
  Self = 3
  OwnRank = 3
  Capacity = 2
  NChips = 1
  Pins = {p1, p2}
  Callers = {t1, t2}
  Buffers = {b1, b2, b3, b4, b5}
  NRx = 2
  NTx = 2
  KeepsSent = FALSE
  Second = 4
  Late = 1
  Early = 2
  Delay = 1
  MaxTime = 2
  Grain = 1
  Probes <- MCProbes
  BlockSize = 1024
  PlainSize = 1280
  Senders = {m1, m2}
  NumMod = 2
  MaxAge = 2
  MaxQueued = 1
  Fills = {0, 126}
  Refusals = {16, 51}
  MaxCalls = 2
SPECIFICATION PartsSpec
INVARIANTS
  WholeInOrder
  NoSharedItem
  SelectTrue
  FollowsSomeone
  AsksForDelay
  SlaveWhenCalibrated
  NoWriteLost
  ShownOrPending
  OneOwner
  BootBlocksSafe
  SelectExact
  ReadExact
  SetWithinASecond
  FramesFit
  HeardAsSent
  VerdictTrue
  DelayFits
  OffsetFits
PROPERTIES
  ImplementsQueue
  EventTaken
  PortFollows
  LostBySendOnly
  PoolRefills
