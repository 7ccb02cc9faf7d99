CONSTANTS
  NSections = 2
  Size = 2
  MaxId = 5
  Unreadable <- SecondOldest
  MaxRuns = 2
  MaxFaults = 1
SPECIFICATION FairSpec
INVARIANTS
  TypeOK
  CleanVisitCovers
  UpToDate
PROPERTIES
  RunsEnd
