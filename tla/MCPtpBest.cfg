CONSTANTS
  Announces <- ThreeMasters
  Self = 3
  OwnRank = 3
  Capacity = 2
SPECIFICATION PortSpec
INVARIANT BestChosen
