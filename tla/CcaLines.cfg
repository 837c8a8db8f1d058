CONSTANTS
  s1 = s1
  s2 = s2
  s3 = s3
  Null = Null
  NRegions = 2
  TopLevel <- TwoRegionLevels
  TopCount <- TwoRegionCounts
  RegionAt <- TwoRegionAddresses
  W = 4
  HeaderElems = 1
  FirstLine = {0, 1}
  Slots = {s1, s2, s3}
  Units = {2, 3, 4, 5}
  Aligns = {1, 2}
  MaxCrashes = 1
SPECIFICATION Spec
SYMMETRY Symmetry
CHECK_DEADLOCK FALSE
INVARIANT DoubtCovers
