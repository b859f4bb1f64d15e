--------------------------- MODULE MCOrchestrator ---------------------------
(* Two scan loops that share two wallets and three routes over two pools.  *)
(* A payload blacklists the pool of the two better routes or allows one    *)
(* trade at a time.                                                        *)
EXTENDS Orchestrator, TLC

CONSTANTS p1, p2, t1, t2, t3, l1, l2

MCPools    == {p1, p2}
MCTradeIds == {t1, t2, t3}
MCLoops    == {l1, l2}

MCRouteOf ==
  t1 :> [amountIn |-> 1, netProfit |-> 2, hops |-> {[poolAddress |-> p1, liquidity |-> 2]}] @@
  t2 :> [amountIn |-> 1, netProfit |-> 2, hops |-> {[poolAddress |-> p1, liquidity |-> 2]}] @@
  t3 :> [amountIn |-> 1, netProfit |-> 1, hops |-> {[poolAddress |-> p2, liquidity |-> 2]}]

MCEnvConfig ==
  [maxPositionSizeSol    |-> 1, dailyLossLimitSol |-> 2,
   maxConcurrentTrades   |-> 2, minLiquiditySol   |-> 1,
   minProfitThresholdSol |-> 1, maxPriorityFeeSol |-> 1,
   blacklistedPools      |-> {}]

MCPayloads == {[blacklistedPools |-> {p1}], [maxConcurrentTrades |-> 1]}

\* t1 and t2 differ in nothing, nor do the loops.
Symmetry == Permutations({t1, t2}) \cup Permutations(MCLoops)

-----------------------------------------------------------------------------
(* One day, on which a trade that failed on chain cost FailureCost, more   *)
(* than the daily loss limit of MCEnvConfig.                               *)
FailureCost == 3

OneDay == Init /\ [][Next /\ ~risk'.resetDue]_vars

LostToday == FailureCost * Cardinality({t \in TradeIds : trades[t].engine = "failed"})

(* "Daily loss limit in SOL (bot stops trading if exceeded)": no trade     *)
(* starts once the trades of the day have lost more than the limit.  The   *)
(* orchestrator never calls recordLoss, so its circuit breaker cannot trip *)
(* (executeOpportunity).                                                   *)
DailyLossLimitStops ==
  [][LostToday > risk.config.dailyLossLimitSol
       => risk'.activeTrades \subseteq risk.activeTrades]_vars
=============================================================================
