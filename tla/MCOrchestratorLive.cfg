SPECIFICATION FairSpec
CONSTANTS
  p1 = p1
  t1 = t1
  l1 = l1
  l2 = l2
  Pools <- MCPools
  TradeIds <- MCTradeIds
  FeeWindow = 2
  Loops <- MCLoops
  Wallets = 2
  RouteOf <- MCRouteOf
  EnvConfig <- MCEnvConfig
  Payloads <- MCPayloads
  MaxBatch = 1
  HistoryCap = 1
PROPERTY PauseDrains
PROPERTY TradesSettle
PROPERTY ScanningGoesOn
PROPERTY ShutdownExits
