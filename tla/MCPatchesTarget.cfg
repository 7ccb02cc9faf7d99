CONSTANTS
  Posts <- FivePosts
  BATCH = 2
  noHeading = noHeading
  noNumber = noNumber
  NoHeading <- noHeading
  NoNumber <- noNumber
  Cats <- OneTwo
  Offers <- SomeOffers
  FrontPages <- SomeFrontPages
  Lists <- SomeLists
  MaxTime = 1
  MaxLosses = 1
  Layouts <- AllLayouts
  PriceLists <- SomePriceLists
  MaxVisits = 2
  MaxErrors = 1
  noFile = noFile
  Zero <- noFile
  NoPatch = NoPatch
  Gone = Gone
  Std <- Core
  Fetched <- Crates
  Files <- ThreeFiles
  Contents <- ThreeContents
  Original <- Sources
  PatchesOf <- SomePatches
  MaxStarts = 3
  MaxFailures = 2
SPECIFICATION Spec
INVARIANT
  RunSuffices
