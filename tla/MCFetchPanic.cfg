CONSTANTS
  MaxId = 4
  Batch = 2
  Limits <- OneLimit
  MaxErr = 2
  MaxRuns = 1
  MaxFaults = 1
SPECIFICATION Spec
INVARIANTS
  NoPanic
