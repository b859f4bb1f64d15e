----------------------------- MODULE RiskPolicy -----------------------------
(***************************************************************************)
(* The methods of the orchestrator's RiskManager                           *)
(* (orchestrator/src/risk/index.ts) as operators on its private state,     *)
(* which is one record.  RiskManager wraps them in actions of their own;   *)
(* Orchestrator calls several of them in one step, as the code does        *)
(* between two awaits.                                                     *)
(*                                                                         *)
(* SOL amounts are integers in a unit of the reader's choice: the code     *)
(* only adds, subtracts and compares them.  resetDue stands for            *)
(* Date.now() >= dailyResetTime.                                           *)
(***************************************************************************)
EXTENDS Integers, FiniteSets, Sequences

LOCAL INSTANCE SequencesExt

CONSTANTS
  Pools,        \* the pool addresses routes and blacklists name
  TradeIds,     \* the ids given to startTrade
  FeeWindow     \* how many fee samples are kept (20 in the code)

ASSUME FeeWindowAssumption == FeeWindow \in Nat \ {0}

(* The keys of RiskConfig that hold a number.                              *)
LimitKeys == {"maxPositionSizeSol", "dailyLossLimitSol", "maxConcurrentTrades",
              "minLiquiditySol", "minProfitThresholdSol", "maxPriorityFeeSol"}

ConfigKeys == LimitKeys \cup {"blacklistedPools"}

(* A payload sets some keys of a configuration.                            *)
IsPayload(p) ==
  /\ DOMAIN p \subseteq ConfigKeys
  /\ \A k \in DOMAIN p :
       IF k \in LimitKeys THEN p[k] \in Nat ELSE p[k] \subseteq Pools

RiskConfig ==
  [maxPositionSizeSol    : Nat, dailyLossLimitSol    : Nat,
   maxConcurrentTrades   : Nat, minLiquiditySol      : Nat,
   minProfitThresholdSol : Nat, maxPriorityFeeSol    : Nat,
   blacklistedPools      : SUBSET Pools]

(* { ...c, ...p }: the keys of p win.                                      *)
Merge(c, p) ==
  LET Value(k) == IF k \in DOMAIN p THEN p[k] ELSE c[k]
  IN  [maxPositionSizeSol    |-> Value("maxPositionSizeSol"),
       dailyLossLimitSol     |-> Value("dailyLossLimitSol"),
       maxConcurrentTrades   |-> Value("maxConcurrentTrades"),
       minLiquiditySol       |-> Value("minLiquiditySol"),
       minProfitThresholdSol |-> Value("minProfitThresholdSol"),
       maxPriorityFeeSol     |-> Value("maxPriorityFeeSol"),
       blacklistedPools      |-> Value("blacklistedPools")]

RiskState ==
  [config                 : RiskConfig,
   dailyLoss              : Nat,
   resetDue               : BOOLEAN,
   activeTrades           : SUBSET TradeIds,
   isCircuitBreakerActive : BOOLEAN,
   isCongested            : BOOLEAN,
   congestionHistory      : Seq(Nat)]

NewRiskManager(c) ==
  [config                 |-> c,
   dailyLoss              |-> 0,
   resetDue               |-> FALSE,
   activeTrades           |-> {},
   isCircuitBreakerActive |-> FALSE,
   isCongested            |-> FALSE,
   congestionHistory      |-> << >>]

-----------------------------------------------------------------------------
(* Daily loss                                                              *)

CheckDailyReset(rm) ==
  IF rm.resetDue
  THEN [rm EXCEPT !.dailyLoss = 0, !.isCircuitBreakerActive = FALSE,
                  !.resetDue = FALSE]
  ELSE rm

(* Bug: the limit itself is still allowed.                                 *)
RecordLossBeyondLimitOnly(rm, loss) ==
  LET day   == CheckDailyReset(rm)
      total == day.dailyLoss + loss
  IN  [day EXCEPT !.dailyLoss = total,
                  !.isCircuitBreakerActive = @ \/ total > day.config.dailyLossLimitSol]

RecordLoss(rm, loss) ==
  LET day   == CheckDailyReset(rm)
      total == day.dailyLoss + loss
  IN  [day EXCEPT !.dailyLoss = total,
                  !.isCircuitBreakerActive = @ \/ total >= day.config.dailyLossLimitSol]

(* Bug: a profit beyond the day's loss leaves a negative loss.             *)
RecordProfitUnclamped(rm, profit) ==
  LET day   == CheckDailyReset(rm)
      total == day.dailyLoss - profit
  IN  [day EXCEPT !.dailyLoss = total,
                  !.isCircuitBreakerActive = @ /\ 2 * total >= day.config.dailyLossLimitSol]

(* Bug: any profit under the limit, not under half of it, resets.          *)
RecordProfitEagerReset(rm, profit) ==
  LET day   == CheckDailyReset(rm)
      total == IF profit > day.dailyLoss THEN 0 ELSE day.dailyLoss - profit
  IN  [day EXCEPT !.dailyLoss = total,
                  !.isCircuitBreakerActive = @ /\ total >= day.config.dailyLossLimitSol]

RecordProfit(rm, profit) ==
  LET day   == CheckDailyReset(rm)
      total == IF profit > day.dailyLoss THEN 0 ELSE day.dailyLoss - profit
  IN  [day EXCEPT !.dailyLoss = total,
                  !.isCircuitBreakerActive = @ /\ 2 * total >= day.config.dailyLossLimitSol]

-----------------------------------------------------------------------------
(* Trade lifecycle                                                         *)

HasFreeSlot(rm) == Cardinality(rm.activeTrades) < rm.config.maxConcurrentTrades

(* Bug: one trade more than the limit.                                     *)
StartTradeOffByOne(rm, id) ==
  IF Cardinality(rm.activeTrades) <= rm.config.maxConcurrentTrades
  THEN [rm EXCEPT !.activeTrades = @ \cup {id}]
  ELSE rm

StartTrade(rm, id) ==
  IF HasFreeSlot(rm) THEN [rm EXCEPT !.activeTrades = @ \cup {id}] ELSE rm

(* Bug: completed under the route's id, which startTrade was never given.  *)
CompleteTradeByRouteId(rm, id) == rm

CompleteTrade(rm, id) == [rm EXCEPT !.activeTrades = @ \ {id}]

-----------------------------------------------------------------------------
(* Congestion                                                              *)

(* averageFee() > maxPriorityFeeSol, without the division.                 *)
AverageAbove(samples, limit) ==
  FoldSeq(LAMBDA x, y : x + y, 0, samples) > Len(samples) * limit

(* Bug: the sample pushed out of the window still counts.                  *)
FeedPriorityFeeSampleLateTrim(rm, fee) ==
  LET all  == Append(rm.congestionHistory, fee)
      kept == IF Len(all) > FeeWindow THEN Tail(all) ELSE all
  IN  [rm EXCEPT !.congestionHistory = kept,
                 !.isCongested = AverageAbove(all, rm.config.maxPriorityFeeSol)]

FeedPriorityFeeSample(rm, fee) ==
  LET all  == Append(rm.congestionHistory, fee)
      kept == IF Len(all) > FeeWindow THEN Tail(all) ELSE all
  IN  [rm EXCEPT !.congestionHistory = kept,
                 !.isCongested = AverageAbove(kept, rm.config.maxPriorityFeeSol)]

-----------------------------------------------------------------------------
(* Configuration and validation                                            *)

UpdateConfig(rm, payload) == [rm EXCEPT !.config = Merge(@, payload)]

(* What a route offers to validateOpportunity: the amount it puts in, its  *)
(* net profit and, for each hop, the pool and its liquidity.               *)
IsRoute(r) ==
  /\ r.amountIn \in Nat
  /\ r.netProfit \in Int
  /\ \A h \in r.hops : h.poolAddress \in Pools /\ h.liquidity \in Nat

WithinLimits(c, r) ==
  /\ r.amountIn <= c.maxPositionSizeSol
  /\ r.netProfit >= c.minProfitThresholdSol
  /\ \A h \in r.hops : h.liquidity >= c.minLiquiditySol
  /\ \A h \in r.hops : h.poolAddress \notin c.blacklistedPools

ValidateOpportunity(rm, r) ==
  /\ ~rm.isCircuitBreakerActive
  /\ ~rm.isCongested
  /\ HasFreeSlot(rm)
  /\ WithinLimits(rm.config, r)
  /\ r.netProfit < 0 => rm.dailyLoss - r.netProfit <= rm.config.dailyLossLimitSol
=============================================================================
