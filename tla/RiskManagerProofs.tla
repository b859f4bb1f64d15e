------------------------- MODULE RiskManagerProofs --------------------------
(***************************************************************************)
(* The RiskManager keeps its promises for every configuration, set of      *)
(* trades, amounts and fee window.                                         *)
(***************************************************************************)
EXTENDS RiskManager, RiskPolicyProofs

(* TypeOK alone does not bound the trades: their number means something    *)
(* only while there are finitely many.                                     *)
IInv == TypeOK /\ IsFiniteSet(risk.activeTrades)

(* The constructor establishes the invariant.                              *)
LEMMA InitIInv == Init => IInv
<1> SUFFICES ASSUME Init PROVE IInv
  OBVIOUS
<1>1. risk \in RiskState
  BY RiskConstants, NewRiskManagerType DEF Init
<1>2. risk.activeTrades = {} /\ risk.congestionHistory = << >>
  BY Zenon DEF Init, NewRiskManager
<1> QED
  BY <1>1, <1>2, FS_EmptySet, FeeWindowAssumption DEF IInv, TypeOK

(* Midnight moves the reset time only.                                     *)
LEMMA MidnightFields ==
  ASSUME risk \in RiskState, Midnight
  PROVE  /\ risk' \in RiskState
         /\ risk'.dailyLoss = risk.dailyLoss
         /\ risk'.isCircuitBreakerActive = risk.isCircuitBreakerActive
         /\ risk'.config = risk.config
         /\ risk'.activeTrades = risk.activeTrades
         /\ risk'.isCongested = risk.isCongested
         /\ risk'.congestionHistory = risk.congestionHistory
<1>1. TRUE \in BOOLEAN
  OBVIOUS
<1>2. risk' = [risk EXCEPT !.resetDue = TRUE]
  BY DEF Midnight
<1>3. [risk EXCEPT !.resetDue = TRUE] \in RiskState
  BY <1>1, ResetDueType, ZenonT(30)
<1> QED
  BY <1>2, <1>3, OtherFields, ZenonT(30)

(* A trade that starts or ends leaves loss and congestion alone.           *)
LEMMA TradeFields ==
  ASSUME risk \in RiskState, NEW id \in TradeIds, Start(id) \/ Complete(id)
  PROVE  /\ risk'.dailyLoss = risk.dailyLoss
         /\ risk'.isCircuitBreakerActive = risk.isCircuitBreakerActive
         /\ risk'.config = risk.config
         /\ risk'.isCongested = risk.isCongested
         /\ risk'.congestionHistory = risk.congestionHistory
<1>1. CASE risk' = StartTrade(risk, id)
  BY <1>1, TradeLifecycleFields, ZenonT(30)
<1>2. CASE risk' = CompleteTrade(risk, id)
  BY <1>2, TradeLifecycleFields, ZenonT(30)
<1> QED
  BY <1>1, <1>2 DEF Start, Complete

(* Every call keeps the invariant.                                         *)
LEMMA TypeStep == IInv /\ [Next]_risk => IInv'
<1> SUFFICES ASSUME IInv, [Next]_risk PROVE IInv'
  OBVIOUS
<1> USE DEF IInv, TypeOK
<1>1. CASE Midnight
  BY <1>1, MidnightFields
<1>2. CASE Status
  BY <1>2, CheckDailyResetType, CheckDailyResetFields DEF Status
<1>3. ASSUME NEW a \in Amounts, Loss(a) PROVE IInv'
  BY <1>3, RiskConstants, RecordLossType, RecordLossFields DEF Loss
<1>4. ASSUME NEW a \in Amounts, Profit(a) PROVE IInv'
  <2>1. a \in Int /\ risk \in RiskState /\ risk' = RecordProfit(risk, a)
    BY <1>4, RiskConstants DEF Profit
  <2>2. /\ risk' \in RiskState
        /\ risk'.activeTrades = risk.activeTrades
        /\ risk'.congestionHistory = risk.congestionHistory
    BY <2>1, RecordProfitType, RecordProfitFields, Zenon
  <2> QED
    BY <2>2
<1>5. ASSUME NEW id \in TradeIds, Start(id) PROVE IInv'
  <2>1. risk \in RiskState /\ risk' = StartTrade(risk, id)
    BY <1>5 DEF Start
  <2>2. /\ risk' \in RiskState
        /\ \/ risk'.activeTrades = risk.activeTrades
           \/ risk'.activeTrades = risk.activeTrades \cup {id}
        /\ risk'.congestionHistory = risk.congestionHistory
    BY <2>1, TradeLifecycleType, TradeLifecycleFields, Zenon
  <2> QED
    BY <2>2, FS_AddElement
<1>6. ASSUME NEW id \in TradeIds, Complete(id) PROVE IInv'
  <2>1. risk \in RiskState /\ risk' = CompleteTrade(risk, id)
    BY <1>6 DEF Complete
  <2>2. /\ risk' \in RiskState
        /\ risk'.activeTrades = risk.activeTrades \ {id}
        /\ risk'.congestionHistory = risk.congestionHistory
    BY <2>1, TradeLifecycleType, TradeLifecycleFields, Zenon
  <2> QED
    BY <2>2, FS_RemoveElement
<1>7. ASSUME NEW f \in Fees, FeeSample(f) PROVE IInv'
  BY <1>7, RiskConstants, FeeSampleType, FeeSampleFields DEF FeeSample
<1>8. ASSUME NEW p \in Payloads, Configure(p) PROVE IInv'
  BY <1>8, RiskConstants, UpdateConfigType, OtherFields DEF Configure, UpdateConfig
<1>9. CASE UNCHANGED risk
  BY <1>9
<1> QED
  BY <1>1, <1>2, <1>3, <1>4, <1>5, <1>6, <1>7, <1>8, <1>9 DEF Next

(* The invariant holds in every state of every run.                        *)
LEMMA Invariance == Spec => []IInv
  BY InitIInv, TypeStep, PTL DEF Spec

(* The state is typed and the fee window bounded, whatever the clients     *)
(* call.                                                                   *)
THEOREM TypeCorrect == Spec => []TypeOK
<1>1. IInv => TypeOK
  BY DEF IInv
<1> QED
  BY <1>1, Invariance, PTL

-----------------------------------------------------------------------------
(* A loss at the limit stays covered by the breaker until the limit        *)
(* changes.                                                                *)
THEOREM LossCoverage == Spec => LossStaysCovered
<1> DEFINE Keeps == LossCovered(risk) /\ Limits' = Limits => LossCovered(risk')
<1>1. IInv /\ [Next]_risk => [Keeps]_risk
  <2> SUFFICES ASSUME IInv, Next, LossCovered(risk), risk'.config = risk.config
               PROVE  LossCovered(risk')
    BY DEF Limits
  <2> DEFINE day == CheckDailyReset(risk)
  <2>1. risk \in RiskState /\ day \in RiskState
    BY CheckDailyResetType DEF IInv, TypeOK
  <2>2. LossCovered(day)
    BY <2>1, CheckDailyResetFields DEF LossCovered
  <2>3. day.dailyLoss \in Nat /\ risk.config.dailyLossLimitSol \in Nat
    BY <2>1, Components
  <2>4. day.config = risk.config
    BY <2>1, CheckDailyResetFields
  <2> USE DEF LossCovered
  <2>5. CASE Midnight
    BY <2>1, <2>5, MidnightFields
  <2>6. CASE Status
    BY <2>2, <2>6 DEF Status
  <2>7. ASSUME NEW a \in Amounts, Loss(a) PROVE LossCovered(risk')
    <3>1. a \in Nat /\ risk' = RecordLoss(risk, a)
      BY <2>7, RiskConstants DEF Loss
    <3> HIDE DEF day
    <3>2. /\ risk'.dailyLoss = day.dailyLoss + a
          /\ risk'.isCircuitBreakerActive
               <=> \/ day.isCircuitBreakerActive
                   \/ day.dailyLoss + a >= risk.config.dailyLossLimitSol
      BY <2>1, <3>1, RecordLossFields, Zenon DEF day
    <3> QED
      BY <2>3, <3>1, <3>2
  <2>8. ASSUME NEW a \in Amounts, Profit(a) PROVE LossCovered(risk')
    <3> DEFINE total == IF a > day.dailyLoss THEN 0 ELSE day.dailyLoss - a
    <3>1. a \in Nat /\ risk' = RecordProfit(risk, a)
      BY <2>8, RiskConstants DEF Profit
    <3> HIDE DEF day
    <3>2. /\ risk'.dailyLoss = total
          /\ risk'.isCircuitBreakerActive
               <=> /\ day.isCircuitBreakerActive
                   /\ 2 * total >= risk.config.dailyLossLimitSol
      BY <2>1, <3>1, RecordProfitFields DEF day
    <3> QED
      BY <2>2, <2>3, <2>4, <3>1, <3>2
  <2>9. ASSUME NEW id \in TradeIds, Start(id) \/ Complete(id) PROVE LossCovered(risk')
    <3>1. /\ risk'.dailyLoss = risk.dailyLoss
          /\ risk'.isCircuitBreakerActive = risk.isCircuitBreakerActive
      BY <2>1, <2>9, TradeFields, Zenon
    <3> QED
      BY <3>1
  <2>10. ASSUME NEW f \in Fees, FeeSample(f) PROVE LossCovered(risk')
    BY <2>1, <2>10, FeeSampleFields DEF FeeSample
  <2>11. ASSUME NEW p \in Payloads, Configure(p) PROVE LossCovered(risk')
    BY <2>1, <2>11, OtherFields DEF Configure, UpdateConfig
  <2> QED
    BY <2>5, <2>6, <2>7, <2>8, <2>9, <2>10, <2>11 DEF Next
<1> QED
  BY <1>1, Invariance, PTL DEF Spec, LossStaysCovered

-----------------------------------------------------------------------------
(* On one day the breaker opens only once the loss is under half of the    *)
(* limit.                                                                  *)
THEOREM BreakerDoesNotFlap == Spec => NoFlapping
<1> DEFINE Opens == /\ risk.isCircuitBreakerActive
                    /\ ~risk'.isCircuitBreakerActive
                    /\ ~risk.resetDue
           Low   == 2 * risk'.dailyLoss < Limits.dailyLossLimitSol
<1>1. IInv /\ [Next]_risk => [Opens => Low]_risk
  <2> SUFFICES ASSUME IInv, Next, Opens PROVE Low
    OBVIOUS
  <2>1. risk \in RiskState /\ CheckDailyReset(risk) = risk
    BY CheckDailyResetFields DEF IInv, TypeOK
  <2>2. risk.dailyLoss \in Nat /\ risk.config.dailyLossLimitSol \in Nat
    BY <2>1, Components
  <2>3. ASSUME NEW a \in Amounts, Profit(a) PROVE Low
    <3> DEFINE total == IF a > risk.dailyLoss THEN 0 ELSE risk.dailyLoss - a
    <3>1. a \in Int /\ risk' = RecordProfit(risk, a)
      BY <2>3, RiskConstants DEF Profit
    <3>2. /\ risk'.dailyLoss = total
          /\ risk'.isCircuitBreakerActive
               <=> /\ risk.isCircuitBreakerActive
                   /\ 2 * total >= risk.config.dailyLossLimitSol
      BY <2>1, <3>1, RecordProfitFields
    <3> QED
      BY <2>2, <3>1, <3>2 DEF Limits
  <2>4. CASE Midnight
    BY <2>1, <2>4, MidnightFields
  <2>5. CASE Status
    BY <2>1, <2>5 DEF Status
  <2>6. ASSUME NEW a \in Amounts, Loss(a) PROVE FALSE
    <3>1. a \in Nat /\ risk' = RecordLoss(risk, a)
      BY <2>6, RiskConstants DEF Loss
    <3> QED
      BY <2>1, <3>1, RecordLossFields, Zenon
  <2>7. ASSUME NEW id \in TradeIds, Start(id) \/ Complete(id) PROVE FALSE
    BY <2>1, <2>7, TradeFields, Zenon
  <2>8. ASSUME NEW f \in Fees, FeeSample(f) PROVE FALSE
    BY <2>1, <2>8, FeeSampleFields, Zenon DEF FeeSample
  <2>9. ASSUME NEW p \in Payloads, Configure(p) PROVE FALSE
    BY <2>1, <2>9, OtherFields, Zenon DEF Configure, UpdateConfig
  <2> QED
    BY <2>3, <2>4, <2>5, <2>6, <2>7, <2>8, <2>9 DEF Next
<1> QED
  BY <1>1, Invariance, PTL DEF Spec, NoFlapping

-----------------------------------------------------------------------------
(* The congestion flag follows the window until the fee limit changes.     *)
THEOREM CongestionFollows == Spec => CongestionFollowsWindow
<1> DEFINE Keeps == CongestionAgrees(risk) /\ Limits' = Limits => CongestionAgrees(risk')
<1>1. IInv /\ [Next]_risk => [Keeps]_risk
  <2> SUFFICES ASSUME IInv, Next, CongestionAgrees(risk), risk'.config = risk.config
               PROVE  CongestionAgrees(risk')
    BY DEF Limits
  <2>1. risk \in RiskState
    BY DEF IInv, TypeOK
  <2>2. \/ \E f \in Fees : FeeSample(f)
        \/ /\ risk'.isCongested = risk.isCongested
           /\ risk'.congestionHistory = risk.congestionHistory
    <3>1. ASSUME NEW a \in Amounts, Loss(a)
          PROVE  /\ risk'.isCongested = risk.isCongested
                 /\ risk'.congestionHistory = risk.congestionHistory
      <4>1. a \in Nat /\ risk' = RecordLoss(risk, a)
        BY <3>1, RiskConstants DEF Loss
      <4> QED
        BY <2>1, <4>1, RecordLossFields, Zenon
    <3>2. ASSUME NEW a \in Amounts, Profit(a)
          PROVE  /\ risk'.isCongested = risk.isCongested
                 /\ risk'.congestionHistory = risk.congestionHistory
      <4>1. a \in Int /\ risk' = RecordProfit(risk, a)
        BY <3>2, RiskConstants DEF Profit
      <4> QED
        BY <2>1, <4>1, RecordProfitFields, Zenon
    <3>3. ASSUME NEW id \in TradeIds, Start(id) \/ Complete(id)
          PROVE  /\ risk'.isCongested = risk.isCongested
                 /\ risk'.congestionHistory = risk.congestionHistory
      BY <2>1, <3>3, TradeFields, Zenon
    <3>4. ASSUME NEW p \in Payloads, Configure(p)
          PROVE  /\ risk'.isCongested = risk.isCongested
                 /\ risk'.congestionHistory = risk.congestionHistory
      BY <2>1, <3>4, OtherFields, Zenon DEF Configure, UpdateConfig
    <3>5. CASE Midnight
      BY <2>1, <3>5, MidnightFields
    <3>6. CASE Status
      BY <2>1, <3>6, CheckDailyResetFields DEF Status
    <3> QED
      BY <3>1, <3>2, <3>3, <3>4, <3>5, <3>6 DEF Next
  <2>3. ASSUME NEW f \in Fees, FeeSample(f) PROVE CongestionAgrees(risk')
    BY <2>1, <2>3, FeeSampleFields, Zenon DEF FeeSample, CongestionAgrees
  <2>4. CASE /\ risk'.isCongested = risk.isCongested
             /\ risk'.congestionHistory = risk.congestionHistory
    BY <2>4, Zenon DEF CongestionAgrees
  <2> QED
    BY <2>2, <2>3, <2>4
<1> QED
  BY <1>1, Invariance, PTL DEF Spec, CongestionFollowsWindow

-----------------------------------------------------------------------------
(* The trades under way stay within maxConcurrentTrades until it changes.  *)
THEOREM TradesWithinLimit == Spec => TradesStayWithinLimit
<1> DEFINE Keeps == TradesFit(risk) /\ Limits' = Limits => TradesFit(risk')
<1>1. IInv /\ [Next]_risk => [Keeps]_risk
  <2> SUFFICES ASSUME IInv, Next, TradesFit(risk), risk'.config = risk.config
               PROVE  TradesFit(risk')
    BY DEF Limits
  <2>1. risk \in RiskState /\ IsFiniteSet(risk.activeTrades)
    BY DEF IInv, TypeOK
  <2>2. /\ Cardinality(risk.activeTrades) \in Nat
        /\ risk.config.maxConcurrentTrades \in Nat
    BY <2>1, FS_CardinalityType, Components
  <2>3. ASSUME NEW id \in TradeIds, Start(id) PROVE TradesFit(risk')
    <3>1. risk' = StartTrade(risk, id)
      BY <2>3 DEF Start
    <3>2. risk'.activeTrades
            = IF HasFreeSlot(risk) THEN risk.activeTrades \cup {id} ELSE risk.activeTrades
      BY <2>1, <3>1, TradeLifecycleFields, Zenon
    <3>3. Cardinality(risk.activeTrades \cup {id}) <= Cardinality(risk.activeTrades) + 1
      <4>1. Cardinality(risk.activeTrades \cup {id})
              = IF id \in risk.activeTrades THEN Cardinality(risk.activeTrades)
                                            ELSE Cardinality(risk.activeTrades) + 1
        BY <2>1, FS_AddElement, Zenon
      <4> QED
        BY <2>2, <4>1
    <3>4. Cardinality(risk.activeTrades \cup {id}) \in Nat
      BY <2>1, FS_AddElement, FS_CardinalityType
    <3> QED
      BY <2>2, <3>2, <3>3, <3>4 DEF TradesFit, HasFreeSlot
  <2>4. ASSUME NEW id \in TradeIds, Complete(id) PROVE TradesFit(risk')
    <3>1. risk' = CompleteTrade(risk, id)
      BY <2>4 DEF Complete
    <3>2. risk'.activeTrades = risk.activeTrades \ {id}
      BY <2>1, <3>1, TradeLifecycleFields, Zenon
    <3>3. /\ Cardinality(risk.activeTrades \ {id}) <= Cardinality(risk.activeTrades)
          /\ Cardinality(risk.activeTrades \ {id}) \in Nat
      BY <2>1, FS_Subset, FS_CardinalityType
    <3> QED
      BY <2>2, <3>2, <3>3 DEF TradesFit
  <2>5. (\E id \in TradeIds : Start(id) \/ Complete(id))
          \/ risk'.activeTrades = risk.activeTrades
    <3>1. ASSUME NEW a \in Amounts, Loss(a)
          PROVE  risk'.activeTrades = risk.activeTrades
      <4>1. a \in Nat /\ risk' = RecordLoss(risk, a)
        BY <3>1, RiskConstants DEF Loss
      <4> QED
        BY <2>1, <4>1, RecordLossFields, Zenon
    <3>2. ASSUME NEW a \in Amounts, Profit(a)
          PROVE  risk'.activeTrades = risk.activeTrades
      <4>1. a \in Int /\ risk' = RecordProfit(risk, a)
        BY <3>2, RiskConstants DEF Profit
      <4> QED
        BY <2>1, <4>1, RecordProfitFields, Zenon
    <3>3. ASSUME NEW f \in Fees, FeeSample(f)
          PROVE  risk'.activeTrades = risk.activeTrades
      BY <2>1, <3>3, FeeSampleFields, Zenon DEF FeeSample
    <3>4. ASSUME NEW p \in Payloads, Configure(p)
          PROVE  risk'.activeTrades = risk.activeTrades
      BY <2>1, <3>4, OtherFields, Zenon DEF Configure, UpdateConfig
    <3>5. CASE Midnight
      BY <2>1, <3>5, MidnightFields
    <3>6. CASE Status
      BY <2>1, <3>6, CheckDailyResetFields DEF Status
    <3> QED
      BY <3>1, <3>2, <3>3, <3>4, <3>5, <3>6 DEF Next
  <2>6. CASE risk'.activeTrades = risk.activeTrades
    BY <2>6 DEF TradesFit
  <2> QED
    BY <2>3, <2>4, <2>5, <2>6
<1> QED
  BY <1>1, Invariance, PTL DEF Spec, TradesStayWithinLimit
=============================================================================
