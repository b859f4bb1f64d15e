--------------------------- MODULE MCRiskManager ----------------------------
(* A small instance of RiskManager: a limit of 4 that a configuration may  *)
(* lower to 2, losses and profits of 1 and 3, a window of two fee samples  *)
(* under a fee limit of 1, and at most two trades, then one.               *)
EXTENDS RiskManager, TLC

CONSTANTS p1, t1, t2, t3

MCPools    == {p1}
MCTradeIds == {t1, t2, t3}
MCAmounts  == {1, 3}
MCFees     == {0, 1, 3}

MCEnvConfig ==
  [maxPositionSizeSol    |-> 1, dailyLossLimitSol |-> 4,
   maxConcurrentTrades   |-> 2, minLiquiditySol   |-> 1,
   minProfitThresholdSol |-> 1, maxPriorityFeeSol |-> 1,
   blacklistedPools      |-> {}]

MCPayloads ==
  {[dailyLossLimitSol |-> 2], [maxPriorityFeeSol |-> 2, maxConcurrentTrades |-> 1],
   [dailyLossLimitSol |-> 4]}

Symmetry == Permutations(MCTradeIds)
=============================================================================
