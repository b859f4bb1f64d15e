SPECIFICATION OneDay
CONSTANTS
  p1 = p1
  p2 = p2
  t1 = t1
  t2 = t2
  t3 = t3
  l1 = l1
  l2 = l2
  Pools <- MCPools
  TradeIds <- MCTradeIds
  FeeWindow = 2
  Loops <- MCLoops
  Wallets = 2
  RouteOf <- MCRouteOf
  EnvConfig <- MCEnvConfig
  Payloads <- MCPayloads
  MaxBatch = 2
  HistoryCap = 2
PROPERTY DailyLossLimitStops
