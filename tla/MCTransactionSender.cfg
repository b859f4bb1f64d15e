SPECIFICATION FairSpec
CONSTANTS
  MaxRetries = 3
  SimulateBeforeSend = TRUE
INVARIANT TypeOK
INVARIANT LandingsAccountedFor
PROPERTY Termination
PROPERTY KeepsContract
