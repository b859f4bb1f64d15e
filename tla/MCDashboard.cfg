SPECIFICATION FairSpec
CONSTANTS
  Sockets = {s1, s2}
  Fetches = {f1, f2}
  MaxVersion = 2
  MaxQueue = 2
INVARIANT TypeOK
INVARIANT OneConnection
INVARIANT NeverGivesUp
INVARIANT NothingLeftBehind
PROPERTY KeepsTrying
PROPERTY SettlesOrFails
