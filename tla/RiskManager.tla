---------------------------- MODULE RiskManager -----------------------------
(***************************************************************************)
(* The RiskManager on its own, called in any order by its clients and      *)
(* tests, while midnights pass.  Its promises are stated between two       *)
(* configuration changes, because updateConfig re-evaluates nothing: a     *)
(* limit lowered below the current loss, fee average or trade count takes  *)
(* effect at the next recordLoss, fee sample or startTrade only.           *)
(***************************************************************************)
EXTENDS RiskPolicy

CONSTANTS
  EnvConfig,     \* getRiskConfig(): the configuration of the environment
  Payloads,      \* the partial configurations updateConfig is given
  Amounts,       \* the sizes of losses and profits
  Fees,          \* the values of fee samples
  MaxDailyLoss   \* bound: no loss is recorded that would exceed it

ASSUME RiskConstants ==
  /\ EnvConfig \in RiskConfig
  /\ \A p \in Payloads : IsPayload(p)
  /\ Amounts \subseteq Nat
  /\ Fees \subseteq Nat
  /\ MaxDailyLoss \in Nat

VARIABLE risk

TypeOK == risk \in RiskState /\ Len(risk.congestionHistory) <= FeeWindow

Init == risk = NewRiskManager(EnvConfig)

(* Date.now() reaches dailyResetTime.                                      *)
Midnight == ~risk.resetDue /\ risk' = [risk EXCEPT !.resetDue = TRUE]

(* getStatus() and getDailyLoss() are not mere reads.                      *)
Status == risk' = CheckDailyReset(risk)

Loss(amount) ==
  /\ CheckDailyReset(risk).dailyLoss + amount <= MaxDailyLoss
  /\ risk' = RecordLoss(risk, amount)

Profit(amount) == risk' = RecordProfit(risk, amount)

Start(id) == risk' = StartTrade(risk, id)

Complete(id) == risk' = CompleteTrade(risk, id)

FeeSample(fee) == risk' = FeedPriorityFeeSample(risk, fee)

Configure(payload) == risk' = UpdateConfig(risk, payload)

Next ==
  \/ Midnight
  \/ Status
  \/ \E a \in Amounts : Loss(a) \/ Profit(a)
  \/ \E id \in TradeIds : Start(id) \/ Complete(id)
  \/ \E f \in Fees : FeeSample(f)
  \/ \E p \in Payloads : Configure(p)

Spec == Init /\ [][Next]_risk

-----------------------------------------------------------------------------
Limits == risk.config

(* There is no loss, it is under the limit, or the breaker is tripped.     *)
LossCovered(rm) ==
  \/ rm.dailyLoss = 0
  \/ rm.dailyLoss < rm.config.dailyLossLimitSol
  \/ rm.isCircuitBreakerActive

(* A loss that reaches the limit leaves the breaker tripped, and no        *)
(* sequence of profits, losses and midnights leaves it open while the loss *)
(* is at the limit (recordLoss, recordProfit, checkDailyReset), unless the *)
(* limit itself is changed under it.                                       *)
LossStaysCovered ==
  [][LossCovered(risk) /\ Limits' = Limits => LossCovered(risk')]_risk

(* On one day a tripped breaker opens only once profits have brought the   *)
(* loss under half of the limit, so that it does not flap at the limit.    *)
NoFlapping ==
  [][(risk.isCircuitBreakerActive /\ ~risk'.isCircuitBreakerActive /\ ~risk.resetDue)
       => 2 * risk'.dailyLoss < Limits.dailyLossLimitSol]_risk

(* The congestion flag tells the average of the samples kept, whatever     *)
(* left the window, until the fee limit changes.                           *)
CongestionAgrees(rm) ==
  rm.isCongested <=> AverageAbove(rm.congestionHistory, rm.config.maxPriorityFeeSol)

CongestionFollowsWindow ==
  [][CongestionAgrees(risk) /\ Limits' = Limits => CongestionAgrees(risk')]_risk

(* However starts and completions alternate, the trades under way never    *)
(* outgrow maxConcurrentTrades, unless it is lowered while they run.       *)
TradesFit(rm) == Cardinality(rm.activeTrades) <= rm.config.maxConcurrentTrades

TradesStayWithinLimit ==
  [][TradesFit(risk) /\ Limits' = Limits => TradesFit(risk')]_risk
=============================================================================
