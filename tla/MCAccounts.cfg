CONSTANTS
  none = none
  NoRow <- none
  Keys <- ThreeKeys
  NoFile <- none
  Configurations <- MCConfigurations
  Channels <- ThreeRows
  AppOf <- MCAppOf
  MaxSessions = 6
  MaxRuns = 2
  MaxFaults = 2
SPECIFICATION Spec
INVARIANTS
  TypeOK
  OneClientEach
  NoSecondLogin
  EveryRowServed
  SavedAtEnd
