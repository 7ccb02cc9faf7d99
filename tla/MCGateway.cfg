CONSTANTS
  w1 = w1
  w2 = w2
  Workers <- MCWorkers
  Posts <- FourPosts
  Unscrapable <- Smallest
  BATCH = 2
  MaxFaults = 2
SPECIFICATION FairSpec
INVARIANTS
  TypeOK
  NoWorkLost
  QueueNoDup
  QuitOnlyWhenArchived
  StaleOnlyInFlight
PROPERTIES
  ArchiveSpec
  EventuallyArchived
  DoneOrStale
