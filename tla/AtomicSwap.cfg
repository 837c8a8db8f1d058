CONSTANTS
  k1 = k1
  k2 = k2
  b1 = b1
  b2 = b2
  Keys = {k1, k2}
  NoKey = NoKey
  Blocks = {b1, b2}
  NoBlock = NoBlock
  Bytes = {0, 1}
  Absent = Absent
  Lengths <- OneOrTwo
  SmallLimit = 2
  MaxWrites = 2
  SwapCrash = TRUE
  FreeCrash = FALSE
  MaxCrashes = 1
SPECIFICATION Spec
INVARIANT AllOrNothing
