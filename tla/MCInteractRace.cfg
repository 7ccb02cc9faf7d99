CONSTANTS
  b1 = b1
  b2 = b2
  None = None
  Bots <- MCBots
  MaxReplies = 1
  MaxFaults = 0
SPECIFICATION Spec
PROPERTIES
  NoResponseIsTrue
