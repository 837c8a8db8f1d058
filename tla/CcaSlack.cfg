CONSTANTS
  s1 = s1
  s2 = s2
  s3 = s3
  Null = Null
  NRegions = 1
  TopLevel <- OneRegionLevel
  TopCount <- OneRegionCount
  RegionAt <- OneRegionAddress
  W = 8
  HeaderElems = 1
  FirstLine = {0, 1, 2, 3, 4, 5, 6, 7}
  Slots = {s1, s2, s3}
  Units = {16, 24}
  Aligns = {1, 16}
  MaxCrashes = 0
SPECIFICATION Spec
SYMMETRY Symmetry
CHECK_DEADLOCK FALSE
INVARIANT RunsExact
