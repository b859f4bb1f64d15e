------------------------- MODULE MCOrchestratorLive -------------------------
(* Two scan loops and one route, for the liveness properties under the     *)
(* fairness of the code.                                                   *)
EXTENDS Orchestrator, TLC

CONSTANTS p1, t1, l1, l2

MCPools    == {p1}
MCTradeIds == {t1}
MCLoops    == {l1, l2}

MCRouteOf ==
  [t \in MCTradeIds |->
     [amountIn |-> 1, netProfit |-> 2, hops |-> {[poolAddress |-> p1, liquidity |-> 2]}]]

MCEnvConfig ==
  [maxPositionSizeSol    |-> 1, dailyLossLimitSol |-> 2,
   maxConcurrentTrades   |-> 2, minLiquiditySol   |-> 1,
   minProfitThresholdSol |-> 1, maxPriorityFeeSol |-> 1,
   blacklistedPools      |-> {}]

MCPayloads == {}
=============================================================================
