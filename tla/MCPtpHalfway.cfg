CONSTANTS
  Size = 3
  Halfway = TRUE
  MaxSent = 4
SPECIFICATION NetSpec
INVARIANT SelectTrue
