-------------------------- MODULE RiskPolicyProofs --------------------------
(***************************************************************************)
(* What each method of the RiskManager preserves, for every configuration, *)
(* every amount and every set of trades.  RiskManagerProofs and            *)
(* OrchestratorProofs cite these lemmas for the actions that call them.    *)
(***************************************************************************)
EXTENDS RiskPolicy, FiniteSetTheorems, TLAPS

(* A new RiskManager is in a typed state (the constructor).                *)
LEMMA NewRiskManagerType ==
  ASSUME NEW c \in RiskConfig
  PROVE  NewRiskManager(c) \in RiskState
<1>1. 0 \in Nat /\ << >> \in Seq(Nat) /\ {} \in SUBSET TradeIds /\ FALSE \in BOOLEAN
  OBVIOUS
<1> QED
  BY <1>1, Zenon DEF NewRiskManager, RiskState

(* Merging keys into a configuration gives a configuration (updateConfig). *)
LEMMA MergeType ==
  ASSUME NEW c \in RiskConfig, NEW p, IsPayload(p)
  PROVE  Merge(c, p) \in RiskConfig
  BY SMT DEF RiskConfig, Merge, LimitKeys, ConfigKeys, IsPayload

(* A whole configuration is a payload: update_config passes one.           *)
LEMMA ConfigIsPayload ==
  ASSUME NEW c \in RiskConfig
  PROVE  IsPayload(c)
  BY SMT DEF RiskConfig, LimitKeys, ConfigKeys, IsPayload

(* checkDailyReset keeps the state typed.                                  *)
LEMMA CheckDailyResetType ==
  ASSUME NEW rm \in RiskState
  PROVE  CheckDailyReset(rm) \in RiskState
<1>1. 0 \in Nat /\ FALSE \in BOOLEAN
  OBVIOUS
<1>2. [rm EXCEPT !.dailyLoss = 0, !.isCircuitBreakerActive = FALSE,
                 !.resetDue = FALSE] \in RiskState
  BY <1>1, Zenon DEF RiskState
<1> QED
  BY <1>2 DEF CheckDailyReset

(* The new day's clock tick keeps the state typed.                         *)
LEMMA ResetDueType ==
  ASSUME NEW rm \in RiskState, NEW b \in BOOLEAN
  PROVE  [rm EXCEPT !.resetDue = b] \in RiskState
  BY SMT DEF RiskState

(* Setting the loss and the breaker keeps the state typed.                 *)
LEMMA LossAndBreakerType ==
  ASSUME NEW rm \in RiskState, NEW n \in Nat, NEW b \in BOOLEAN
  PROVE  [rm EXCEPT !.dailyLoss = n, !.isCircuitBreakerActive = b] \in RiskState
  BY Zenon DEF RiskState

(* A typed state has typed components.                                     *)
LEMMA Components ==
  ASSUME NEW rm \in RiskState
  PROVE  /\ rm.config \in RiskConfig
         /\ rm.config.dailyLossLimitSol \in Nat
         /\ rm.config.maxConcurrentTrades \in Nat
         /\ rm.dailyLoss \in Nat
         /\ rm.isCircuitBreakerActive \in BOOLEAN
         /\ rm.isCongested \in BOOLEAN
         /\ rm.resetDue \in BOOLEAN
         /\ rm.congestionHistory \in Seq(Nat)
         /\ rm.activeTrades \in SUBSET TradeIds
  BY SMT DEF RiskState, RiskConfig

(* checkDailyReset touches the loss, the breaker and the reset time only.  *)
LEMMA CheckDailyResetFields ==
  ASSUME NEW rm \in RiskState
  PROVE  /\ CheckDailyReset(rm).config = rm.config
         /\ CheckDailyReset(rm).activeTrades = rm.activeTrades
         /\ CheckDailyReset(rm).isCongested = rm.isCongested
         /\ CheckDailyReset(rm).congestionHistory = rm.congestionHistory
         /\ CheckDailyReset(rm) = rm \/ CheckDailyReset(rm).dailyLoss = 0
         /\ ~rm.resetDue => CheckDailyReset(rm) = rm
<1> DEFINE reset == [rm EXCEPT !.dailyLoss = 0, !.isCircuitBreakerActive = FALSE,
                               !.resetDue = FALSE]
<1>1. /\ reset.config = rm.config
      /\ reset.activeTrades = rm.activeTrades
      /\ reset.isCongested = rm.isCongested
      /\ reset.congestionHistory = rm.congestionHistory
      /\ reset.dailyLoss = 0
  BY Zenon DEF RiskState
<1>2. CheckDailyReset(rm) = IF rm.resetDue THEN reset ELSE rm
  BY Zenon DEF CheckDailyReset
<1> HIDE DEF reset
<1> QED
  BY <1>1, <1>2, Zenon

(* recordLoss keeps the state typed.                                       *)
LEMMA RecordLossType ==
  ASSUME NEW rm \in RiskState, NEW loss \in Nat
  PROVE  RecordLoss(rm, loss) \in RiskState
<1> DEFINE day   == CheckDailyReset(rm)
           total == day.dailyLoss + loss
           trips == day.isCircuitBreakerActive \/ total >= day.config.dailyLossLimitSol
<1>1. day \in RiskState
  BY CheckDailyResetType
<1>2. total \in Nat
  BY <1>1, Components
<1>3. trips \in BOOLEAN
  OBVIOUS
<1> HIDE DEF day
<1>4. [day EXCEPT !.dailyLoss = total, !.isCircuitBreakerActive = trips] \in RiskState
  BY <1>1, <1>2, <1>3, LossAndBreakerType
<1> QED
  BY <1>4, Zenon DEF RecordLoss, day

(* recordProfit keeps the state typed; a negative profit raises the loss.  *)
LEMMA RecordProfitType ==
  ASSUME NEW rm \in RiskState, NEW profit \in Int
  PROVE  RecordProfit(rm, profit) \in RiskState
<1> DEFINE day   == CheckDailyReset(rm)
           total == IF profit > day.dailyLoss THEN 0 ELSE day.dailyLoss - profit
           stays == day.isCircuitBreakerActive /\ 2 * total >= day.config.dailyLossLimitSol
<1>1. day \in RiskState
  BY CheckDailyResetType
<1>2. total \in Nat
  BY <1>1, Components
<1>3. stays \in BOOLEAN
  OBVIOUS
<1> HIDE DEF day
<1>4. [day EXCEPT !.dailyLoss = total, !.isCircuitBreakerActive = stays] \in RiskState
  BY <1>1, <1>2, <1>3, LossAndBreakerType
<1> QED
  BY <1>4, Zenon DEF RecordProfit, day

(* Setting the reset time, and a configuration, leave the rest alone.      *)
LEMMA OtherFields ==
  ASSUME NEW rm \in RiskState, NEW b, NEW c
  PROVE  /\ [rm EXCEPT !.resetDue = b].dailyLoss = rm.dailyLoss
         /\ [rm EXCEPT !.resetDue = b].isCircuitBreakerActive = rm.isCircuitBreakerActive
         /\ [rm EXCEPT !.resetDue = b].config = rm.config
         /\ [rm EXCEPT !.resetDue = b].activeTrades = rm.activeTrades
         /\ [rm EXCEPT !.resetDue = b].isCongested = rm.isCongested
         /\ [rm EXCEPT !.resetDue = b].congestionHistory = rm.congestionHistory
         /\ [rm EXCEPT !.config = c].dailyLoss = rm.dailyLoss
         /\ [rm EXCEPT !.config = c].isCircuitBreakerActive = rm.isCircuitBreakerActive
         /\ [rm EXCEPT !.config = c].config = c
         /\ [rm EXCEPT !.config = c].activeTrades = rm.activeTrades
         /\ [rm EXCEPT !.config = c].isCongested = rm.isCongested
         /\ [rm EXCEPT !.config = c].congestionHistory = rm.congestionHistory
  BY Zenon DEF RiskState

(* startTrade and completeTrade touch the trades only.                     *)
LEMMA TradeLifecycleFields ==
  ASSUME NEW rm \in RiskState, NEW id
  PROVE  /\ StartTrade(rm, id).activeTrades
                = IF HasFreeSlot(rm) THEN rm.activeTrades \cup {id} ELSE rm.activeTrades
         /\ StartTrade(rm, id).dailyLoss = rm.dailyLoss
         /\ StartTrade(rm, id).isCircuitBreakerActive = rm.isCircuitBreakerActive
         /\ StartTrade(rm, id).config = rm.config
         /\ StartTrade(rm, id).isCongested = rm.isCongested
         /\ StartTrade(rm, id).congestionHistory = rm.congestionHistory
         /\ CompleteTrade(rm, id).activeTrades = rm.activeTrades \ {id}
         /\ CompleteTrade(rm, id).dailyLoss = rm.dailyLoss
         /\ CompleteTrade(rm, id).isCircuitBreakerActive = rm.isCircuitBreakerActive
         /\ CompleteTrade(rm, id).config = rm.config
         /\ CompleteTrade(rm, id).isCongested = rm.isCongested
         /\ CompleteTrade(rm, id).congestionHistory = rm.congestionHistory
<1> DEFINE started == [rm EXCEPT !.activeTrades = @ \cup {id}]
           ended   == [rm EXCEPT !.activeTrades = @ \ {id}]
<1>1. /\ started.activeTrades = rm.activeTrades \cup {id}
      /\ started.dailyLoss = rm.dailyLoss
      /\ started.isCircuitBreakerActive = rm.isCircuitBreakerActive
      /\ started.config = rm.config
      /\ started.isCongested = rm.isCongested
      /\ started.congestionHistory = rm.congestionHistory
  BY Zenon DEF RiskState
<1>2. /\ ended.activeTrades = rm.activeTrades \ {id}
      /\ ended.dailyLoss = rm.dailyLoss
      /\ ended.isCircuitBreakerActive = rm.isCircuitBreakerActive
      /\ ended.config = rm.config
      /\ ended.isCongested = rm.isCongested
      /\ ended.congestionHistory = rm.congestionHistory
  BY Zenon DEF RiskState
<1>3. /\ StartTrade(rm, id) = IF HasFreeSlot(rm) THEN started ELSE rm
      /\ CompleteTrade(rm, id) = ended
  BY Zenon DEF StartTrade, CompleteTrade
<1> HIDE DEF started, ended
<1> QED
  BY <1>1, <1>2, <1>3, Zenon

(* feedPriorityFeeSample touches the window and the flag only, and they    *)
(* agree.                                                                  *)
LEMMA FeeSampleFields ==
  ASSUME NEW rm \in RiskState, NEW fee
  PROVE  LET after == FeedPriorityFeeSample(rm, fee)
         IN  /\ after.isCongested
                  <=> AverageAbove(after.congestionHistory, rm.config.maxPriorityFeeSol)
             /\ after.dailyLoss = rm.dailyLoss
             /\ after.isCircuitBreakerActive = rm.isCircuitBreakerActive
             /\ after.config = rm.config
             /\ after.activeTrades = rm.activeTrades
  BY Zenon DEF FeedPriorityFeeSample, RiskState

(* What recordLoss does to each part of the state.                         *)
LEMMA RecordLossFields ==
  ASSUME NEW rm \in RiskState, NEW loss \in Nat
  PROVE  LET day   == CheckDailyReset(rm)
             after == RecordLoss(rm, loss)
         IN  /\ after.dailyLoss = day.dailyLoss + loss
             /\ after.isCircuitBreakerActive
                  <=> \/ day.isCircuitBreakerActive
                      \/ day.dailyLoss + loss >= rm.config.dailyLossLimitSol
             /\ after.config = rm.config
             /\ after.activeTrades = rm.activeTrades
             /\ after.isCongested = rm.isCongested
             /\ after.congestionHistory = rm.congestionHistory
<1> DEFINE day   == CheckDailyReset(rm)
           total == day.dailyLoss + loss
           trips == day.isCircuitBreakerActive \/ total >= day.config.dailyLossLimitSol
           after == RecordLoss(rm, loss)
<1>1. after = [day EXCEPT !.dailyLoss = total, !.isCircuitBreakerActive = trips]
  BY Zenon DEF RecordLoss
<1>2. day \in RiskState
  BY CheckDailyResetType
<1>3. /\ day.config = rm.config
      /\ day.activeTrades = rm.activeTrades
      /\ day.isCongested = rm.isCongested
      /\ day.congestionHistory = rm.congestionHistory
  BY CheckDailyResetFields, Zenon
<1> HIDE DEF day, total, trips, after
<1>4. /\ after.dailyLoss = total
      /\ after.isCircuitBreakerActive = trips
      /\ after.config = day.config
      /\ after.activeTrades = day.activeTrades
      /\ after.isCongested = day.isCongested
      /\ after.congestionHistory = day.congestionHistory
  BY <1>1, <1>2, Zenon DEF RiskState
<1> QED
  BY <1>3, <1>4, Zenon DEF day, total, trips, after

(* What recordProfit does to each part of the state.                       *)
LEMMA RecordProfitFields ==
  ASSUME NEW rm \in RiskState, NEW profit \in Int
  PROVE  LET day   == CheckDailyReset(rm)
             total == IF profit > day.dailyLoss THEN 0 ELSE day.dailyLoss - profit
             after == RecordProfit(rm, profit)
         IN  /\ after.dailyLoss = total
             /\ after.isCircuitBreakerActive
                  <=> /\ day.isCircuitBreakerActive
                      /\ 2 * total >= rm.config.dailyLossLimitSol
             /\ after.config = rm.config
             /\ after.activeTrades = rm.activeTrades
             /\ after.isCongested = rm.isCongested
             /\ after.congestionHistory = rm.congestionHistory
<1> DEFINE day   == CheckDailyReset(rm)
           total == IF profit > day.dailyLoss THEN 0 ELSE day.dailyLoss - profit
           stays == day.isCircuitBreakerActive /\ 2 * total >= day.config.dailyLossLimitSol
           after == RecordProfit(rm, profit)
<1>1. after = [day EXCEPT !.dailyLoss = total, !.isCircuitBreakerActive = stays]
  BY Zenon DEF RecordProfit
<1>2. day \in RiskState
  BY CheckDailyResetType
<1>3. /\ day.config = rm.config
      /\ day.activeTrades = rm.activeTrades
      /\ day.isCongested = rm.isCongested
      /\ day.congestionHistory = rm.congestionHistory
  BY CheckDailyResetFields, Zenon
<1> HIDE DEF day, total, stays, after
<1>4. /\ after.dailyLoss = total
      /\ after.isCircuitBreakerActive = stays
      /\ after.config = day.config
      /\ after.activeTrades = day.activeTrades
      /\ after.isCongested = day.isCongested
      /\ after.congestionHistory = day.congestionHistory
  BY <1>1, <1>2, Zenon DEF RiskState
<1> QED
  BY <1>3, <1>4, Zenon DEF day, total, stays, after

(* startTrade and completeTrade keep the state typed.                      *)
LEMMA TradeLifecycleType ==
  ASSUME NEW rm \in RiskState, NEW id
  PROVE  /\ id \in TradeIds => StartTrade(rm, id) \in RiskState
         /\ CompleteTrade(rm, id) \in RiskState
  BY SMT DEF RiskState, StartTrade, CompleteTrade

(* updateConfig keeps the state typed.                                     *)
LEMMA UpdateConfigType ==
  ASSUME NEW rm \in RiskState, NEW p, IsPayload(p)
  PROVE  UpdateConfig(rm, p) \in RiskState
<1>1. Merge(rm.config, p) \in RiskConfig
  BY Components, MergeType
<1> QED
  BY <1>1, SMTT(20) DEF RiskState, UpdateConfig

(* A comparison is a Boolean.                                              *)
LEMMA ComparisonType == \A x, y : (x > y) \in BOOLEAN
  BY SMT

(* feedPriorityFeeSample keeps the state typed and the window bounded.     *)
LEMMA FeeSampleType ==
  ASSUME NEW rm \in RiskState, NEW fee \in Nat,
         Len(rm.congestionHistory) <= FeeWindow
  PROVE  /\ FeedPriorityFeeSample(rm, fee) \in RiskState
         /\ Len(FeedPriorityFeeSample(rm, fee).congestionHistory) <= FeeWindow
<1> DEFINE all  == Append(rm.congestionHistory, fee)
           kept == IF Len(all) > FeeWindow THEN Tail(all) ELSE all
           high == AverageAbove(kept, rm.config.maxPriorityFeeSol)
<1>1. all \in Seq(Nat) /\ Len(all) = Len(rm.congestionHistory) + 1
  BY Components
<1>2. kept \in Seq(Nat) /\ Len(kept) <= FeeWindow
  BY <1>1, FeeWindowAssumption, Components, SMTT(20)
<1>3. high \in BOOLEAN
  BY ComparisonType, Zenon DEF AverageAbove
<1> HIDE DEF kept, high
<1>4. [rm EXCEPT !.congestionHistory = kept, !.isCongested = high] \in RiskState
  BY <1>2, <1>3, Zenon DEF RiskState
<1>5. [rm EXCEPT !.congestionHistory = kept, !.isCongested = high].congestionHistory = kept
  BY Zenon DEF RiskState
<1>6. FeedPriorityFeeSample(rm, fee)
        = [rm EXCEPT !.congestionHistory = kept, !.isCongested = high]
  BY Zenon DEF FeedPriorityFeeSample, kept, high
<1> QED
  BY <1>2, <1>4, <1>5, <1>6
=============================================================================
