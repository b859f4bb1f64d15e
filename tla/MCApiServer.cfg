SPECIFICATION FairSpec
CONSTANTS
  c1 = c1
  Sockets = {c1}
  Page = 2
  MaxLimit = 3
  HistoryCap = 4
  MaxTrades = 6
  MaxScans = 2
INVARIANT TypeOK
INVARIANT StreamsHaveNoGap
INVARIANT AnswersAgree
PROPERTY StopSettles
