CONSTANTS
  b1 = b1
  b2 = b2
  None = None
  Bots <- MCBots
  MaxReplies = 2
  MaxFaults = 1
SPECIFICATION FairSpec
INVARIANTS
  TypeOK
  Reachable
  HonestRows
PROPERTIES
  EveryoneReturns
