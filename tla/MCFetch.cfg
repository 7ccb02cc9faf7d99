CONSTANTS
  MaxId = 6
  Batch = 2
  Limits <- TwoLimits
  MaxErr = 2
  MaxRuns = 2
  MaxFaults = 2
SPECIFICATION FairSpec
INVARIANTS
  TypeOK
  HonestRange
  CleanRunCovers
  UpToDate
PROPERTIES
  RangeGrows
  RunsEnd
