SPECIFICATION Spec
CONSTANTS
  p1 = p1
  t1 = t1
  t2 = t2
  t3 = t3
  Pools <- MCPools
  TradeIds <- MCTradeIds
  FeeWindow = 2
  EnvConfig <- MCEnvConfig
  Payloads <- MCPayloads
  Amounts <- MCAmounts
  Fees <- MCFees
  MaxDailyLoss = 7
SYMMETRY Symmetry
INVARIANT TypeOK
PROPERTY LossStaysCovered
PROPERTY NoFlapping
PROPERTY CongestionFollowsWindow
PROPERTY TradesStayWithinLimit
