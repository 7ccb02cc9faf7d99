CONSTANTS
  a1 = a1
  a2 = a2
  channel = channel
  group = group
  bot = bot
  person = person
  name = name
  botName = botName
  personName = personName
  hash = hash
  nothing = nothing
  None = None
  Clients <- TwoClients
  Peers <- AllPeers
  Bots <- OneBot
  People <- OnePerson
  Names <- SomeNames
  Hashes <- HashAndNothing
  PeerOf <- ThePeers
  Titles = {}
  NameOf <- TheNames
  MaxKeys = 2
  MaxRuns = 2
  MaxFaults = 1
SPECIFICATION FairSpec
INVARIANTS
  TypeOK
  HonestCredentials
  CleanRunAdds
PROPERTIES
  RunsEnd
