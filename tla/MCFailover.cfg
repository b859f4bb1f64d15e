SPECIFICATION FairSpec
CONSTANTS
  p = p
  f1 = f1
  f2 = f2
  Primary = p
  Fallbacks <- MCFallbacks
  Threshold = 3
INVARIANT TypeOK
PROPERTY FailoverIsEarned
PROPERTY SettlesOnHealthy
