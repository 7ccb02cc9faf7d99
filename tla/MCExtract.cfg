CONSTANTS
  Channels <- TwoChannels
  MessageIds <- TwoIds
  PeerOf <- TwoPeers
  Batch = 2
  Capacity = 1
  Databases <- MCDatabases
  Arrivals <- Edited
  MaxRuns = 2
  MaxFaults = 1
SPECIFICATION Spec
INVARIANTS
  TypeOK
  LinksFirst
  HonestLinks
  FileComplete
  NamesRight
