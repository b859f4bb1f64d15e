SPECIFICATION ScannerSpec
CONSTANTS
  PoolStates <- MCPoolStates
  DexFee <- MCDexFee
  SlippageBps = 1
  BasisPoints = 10
  MinProfit <- MCMinProfit
  AmountIn = 1
  MaxMessage = 2
INVARIANT ScannerTypeOK
INVARIANT QuotesAreHonoured
INVARIANT DetoursBeatEveryPool
INVARIANT OrientationDoesNotMatter
