------------------------- MODULE OrchestratorProofs -------------------------
(***************************************************************************)
(* The orchestrator for every number of loops, wallets and routes, every   *)
(* configuration and every history cap: its state is typed, a running      *)
(* process has a loop, the RiskManager's slots are the trades under way,   *)
(* trades start within the limits of the moment, wallets are given equal   *)
(* shares, and the books of the process are those of TradeLedger.          *)
(***************************************************************************)
EXTENDS Orchestrator, RiskPolicyProofs, SequenceTheorems, FiniteSetTheorems

(* A scan returns a sequence of routes (BatchScanner.scan).                *)
LEMMA BatchType ==
  ASSUME NEW b \in Batches
  PROVE  b \in Seq(TradeIds)
<1>1. PICK n \in 0..MaxBatch : b \in [1..n -> {t \in TradeIds : trades[t].status = "new"}]
  BY DEF Batches
<1>2. n \in Nat
  BY OrchestratorConstants
<1> QED
  BY <1>1, <1>2

(* Routes have the parts validateOpportunity reads.                        *)
LEMMA RouteType ==
  ASSUME NEW t \in TradeIds
  PROVE  RouteOf[t].netProfit \in Int /\ RouteOf[t].amountIn \in Nat
  BY OrchestratorConstants DEF IsRoute

(* The rotation never leaves the wallets.                                  *)
LEMMA WalletAfterType ==
  ASSUME activeWallets \in 0..Wallets, activeWallets > 0, NEW i \in Nat
  PROVE  WalletAfter(i) \in Nat /\ i % activeWallets \in 0..Wallets
  BY OrchestratorConstants DEF WalletAfter

(* The history never outgrows its cap (broadcastTrade).                    *)
LEMMA PushedType ==
  ASSUME tradeHistory \in Seq(TradeIds), Len(tradeHistory) <= HistoryCap,
         NEW t \in TradeIds
  PROVE  Pushed(t) \in Seq(TradeIds) /\ Len(Pushed(t)) <= HistoryCap
<1>1. HistoryCap \in Nat \ {0}
  BY OrchestratorConstants
<1> QED
  BY <1>1 DEF Pushed

(* Timers, suspended loops and the loops a handler starts are loop states. *)
LEMMA LoopTypes ==
  /\ IdleLoop \in LoopState /\ TimedLoop \in LoopState
  /\ NewTrade \in TradeState
  /\ \A x \in LoopState : x.batch \in Seq(TradeIds)
<1>1. << >> \in Seq(TradeIds)
  OBVIOUS
<1>2. NoWallet \in 0..Wallets
  BY OrchestratorConstants DEF NoWallet
<1> QED
  BY <1>1, <1>2 DEF IdleLoop, TimedLoop, LoopState, NewTrade, TradeState

-----------------------------------------------------------------------------
(* Type correctness                                                        *)

(* What a loop does between two awaits keeps the state typed.              *)
LEMMA LoopStepType ==
  ASSUME TypeOK, NEW l \in Loops, LoopStep(l)
  PROVE  TypeOK'
<1> USE DEF TypeOK, books, rotation
<1>0. /\ loops[l] \in LoopState
      /\ loops[l].batch \in Seq(TradeIds)
      /\ \A t \in TradeIds : trades[t] \in TradeState
  BY LoopTypes
<1>1. CASE Tick(l)
  <2>1. CASE ~MayScan /\ loops' = [loops EXCEPT ![l] = IdleLoop] /\ UNCHANGED trades
    BY <1>1, <2>1, LoopTypes DEF Tick
  <2>2. ASSUME NEW b \in Batches,
               loops' = [loops EXCEPT ![l].pc = "next", ![l].batch = b],
               trades' = [t \in TradeIds |-> IF \E i \in DOMAIN b : b[i] = t
                                            THEN [trades[t] EXCEPT !.status = "scanned"]
                                            ELSE trades[t]]
        PROVE  TypeOK'
    <3>1. b \in Seq(TradeIds)
      BY BatchType
    <3>2. [loops[l] EXCEPT !.pc = "next", !.batch = b] \in LoopState
      BY <1>0, <3>1 DEF LoopState
    <3>3. loops' \in [Loops -> LoopState]
      BY <2>2, <3>2
    <3>4. ASSUME NEW t \in TradeIds
          PROVE  [trades[t] EXCEPT !.status = "scanned"] \in TradeState
      BY <1>0 DEF TradeState
    <3>5. trades' \in [TradeIds -> TradeState]
      BY <1>0, <2>2, <3>4
    <3> QED
      BY <1>1, <3>3, <3>5 DEF Tick
  <2> QED
    BY <1>1, <2>1, <2>2 DEF Tick
<1>2. ASSUME loops[l].batch # << >>
      PROVE  NextRoute(l) \in [Loops -> LoopState]
  <2>1. Tail(loops[l].batch) \in Seq(TradeIds)
    BY <1>0, <1>2
  <2>2. [loops[l] EXCEPT !.batch = Tail(@)] \in LoopState
    BY <1>0, <2>1 DEF LoopState
  <2> QED
    BY <2>2 DEF NextRoute
<1>3. CASE Reject(l)
  BY <1>2, <1>3 DEF Reject, AtRoute
<1>4. CASE DropWithoutWallet(l)
  <2>1. PICK t \in TradeIds : AtRoute(l, t) /\ risk' = WithoutWallet(t)
                               /\ loops' = NextRoute(l)
    BY <1>4 DEF DropWithoutWallet
  <2>2. risk' \in RiskState
    BY <2>1, TradeLifecycleType DEF WithoutWallet
  <2> QED
    BY <1>2, <1>4, <2>1, <2>2 DEF DropWithoutWallet, AtRoute
<1>5. CASE Execute(l)
  <2>1. PICK t \in TradeIds :
          /\ AtRoute(l, t)
          /\ activeWallets > 0
          /\ loops' = [loops EXCEPT ![l] = [pc |-> "executing", batch |-> Tail(@.batch),
                                            trade |-> t]]
          /\ risk' = StartTrade(risk, t)
          /\ trades' = [trades EXCEPT ![t] = [status |-> "pending",
                                              wallet |-> currentIndex % activeWallets,
                                              engine |-> "asked"]]
    BY <1>5 DEF Execute
  <2>2. risk' \in RiskState
    BY <2>1, TradeLifecycleType
  <2>3. [pc |-> "executing", batch |-> Tail(loops[l].batch), trade |-> t] \in LoopState
    BY <1>0, <2>1 DEF LoopState, AtRoute
  <2>4. loops' \in [Loops -> LoopState]
    BY <2>1, <2>3
  <2>5. [status |-> "pending", wallet |-> currentIndex % activeWallets, engine |-> "asked"]
          \in TradeState
    BY <2>1, WalletAfterType DEF TradeState
  <2>6. trades' \in [TradeIds -> TradeState]
    BY <2>1, <2>5
  <2>7. currentIndex' \in Nat
    BY <1>5, <2>1, WalletAfterType DEF Execute
  <2> QED
    BY <1>5, <2>2, <2>4, <2>6, <2>7 DEF Execute
<1>6. CASE FinishScan(l)
  <2>1. risk' \in RiskState
    BY <1>6, CheckDailyResetType DEF FinishScan
  <2>2. [loops[l] EXCEPT !.pc = "publishScan"] \in LoopState
    BY <1>0 DEF LoopState
  <2> QED
    BY <1>6, <2>1, <2>2 DEF FinishScan
<1>7. ASSUME NEW answer \in {"earned", "failed"},
             EngineAnswers(l, answer)
      PROVE  TypeOK'
  <2>1. PICK t \in TradeIds :
          /\ trades' = [trades EXCEPT
                          ![t].status = IF answer = "earned" THEN "submitted" ELSE "confirmed",
                          ![t].engine = answer]
          /\ totalProfit' = totalProfit + RouteOf[t].netProfit
          /\ risk' = RecordProfit(risk, RouteOf[t].netProfit)
          /\ tradeHistory' = Pushed(t)
          /\ loops' = [loops EXCEPT ![l].pc = "publishTrade"]
    BY <1>7 DEF EngineAnswers
  <2>2. risk' \in RiskState /\ totalProfit' \in Int
    BY <2>1, RouteType, RecordProfitType
  <2>3. tradeHistory' \in Seq(TradeIds) /\ Len(tradeHistory') <= HistoryCap
    BY <2>1, PushedType
  <2>4. [loops[l] EXCEPT !.pc = "publishTrade"] \in LoopState
    BY <1>0 DEF LoopState
  <2>5. [trades[t] EXCEPT !.status = IF answer = "earned" THEN "submitted" ELSE "confirmed",
                          !.engine = answer] \in TradeState
    BY <1>0 DEF TradeState
  <2>6. trades' \in [TradeIds -> TradeState]
    BY <2>1, <2>5
  <2>7. tradesExecuted' \in Nat
    BY <1>7 DEF EngineAnswers, Counted
  <2> QED
    BY <1>7, <2>1, <2>2, <2>3, <2>4, <2>6, <2>7 DEF EngineAnswers
<1>8. CASE TradePublished(l)
  <2>1. risk' \in RiskState
    BY <1>8, TradeLifecycleType DEF TradePublished
  <2>2. [loops[l] EXCEPT !.pc = "next", !.trade = NoTrade] \in LoopState
    BY <1>0 DEF LoopState
  <2> QED
    BY <1>8, <2>1, <2>2 DEF TradePublished
<1>9. CASE ScanPublished(l)
  BY <1>9, LoopTypes DEF ScanPublished
<1> QED
  BY <1>1, <1>3, <1>4, <1>5, <1>6, <1>7, <1>8, <1>9 DEF LoopStep

(* start() and the constructors give a typed state.                        *)
LEMMA InitType == Init => TypeOK
<1> SUFFICES ASSUME Init PROVE TypeOK
  OBVIOUS
<1>1. risk \in RiskState
  BY OrchestratorConstants, NewRiskManagerType DEF Init
<1>2. loops \in [Loops -> LoopState]
  BY LoopTypes DEF Init
<1>3. trades \in [TradeIds -> TradeState]
  BY LoopTypes DEF Init
<1>4. commandsOn \in BOOLEAN /\ isRunning \in BOOLEAN
  BY DEF Init
<1>5. tradeHistory \in Seq(TradeIds) /\ Len(tradeHistory) <= HistoryCap
  BY OrchestratorConstants DEF Init
<1>6. activeWallets \in 0..Wallets
  BY OrchestratorConstants DEF Init
<1> QED
  BY <1>1, <1>2, <1>3, <1>4, <1>5, <1>6 DEF Init, TypeOK

(* A new loop is typed.                                                    *)
LEMMA StartScanLoopType ==
  ASSUME TypeOK, NEW l \in Loops, StartScanLoop(l)
  PROVE  loops' \in [Loops -> LoopState] /\ scanInterval' \in Loops \cup {NoLoop}
  BY LoopTypes DEF TypeOK, StartScanLoop

(* Every step keeps the state typed.                                       *)
LEMMA TypeStep == TypeOK /\ [Next]_vars => TypeOK'
<1> SUFFICES ASSUME TypeOK, [Next]_vars PROVE TypeOK'
  OBVIOUS
<1> USE DEF TypeOK, books, rotation
<1>1. CASE ConnectRedis
  BY <1>1 DEF ConnectRedis, LoadFromEnv
<1>2. CASE FinishStart
  <2>1. risk' \in RiskState /\ isRunning' \in BOOLEAN
    BY <1>2, CheckDailyResetType DEF FinishStart
  <2> QED
    BY <1>2, <2>1, StartScanLoopType DEF FinishStart
<1>3. ASSUME NEW l \in Loops, LoopStep(l) PROVE TypeOK'
  BY <1>3, LoopStepType
<1>4. CASE Pause
  <2>1. isRunning' \in BOOLEAN
    BY <1>4 DEF Pause
  <2> QED
    BY <1>4, <2>1 DEF Pause
<1>5. CASE Resume
  <2>1. isRunning' \in BOOLEAN
    BY <1>5 DEF Resume
  <2> QED
    BY <1>5, <2>1, StartScanLoopType DEF Resume
<1>6. ASSUME NEW p \in Payloads, Configure(p) PROVE TypeOK'
  <2>1. Merge(EnvConfig, p) \in RiskConfig
    BY OrchestratorConstants, MergeType
  <2>2. risk' \in RiskState
    BY <1>6, <2>1, ConfigIsPayload, UpdateConfigType DEF Configure
  <2> QED
    BY <1>6, <2>2 DEF Configure
<1>7. CASE Stop
  <2>1. isRunning' \in BOOLEAN
    BY <1>7 DEF Stop
  <2>2. loops' \in [Loops -> LoopState]
    BY <1>7, LoopTypes DEF Stop
  <2> QED
    BY <1>7, <2>1, <2>2 DEF Stop
<1>8. CASE ApiClosed \/ Exit
  BY <1>8 DEF ApiClosed, Exit
<1>9. CASE Midnight
  <2>1. TRUE \in BOOLEAN
    OBVIOUS
  <2>2. risk' \in RiskState
    BY <1>9, <2>1, ResetDueType, Zenon DEF Midnight
  <2> QED
    BY <1>9, <2>2 DEF Midnight
<1>10. CASE UNCHANGED vars
  BY <1>10 DEF vars
<1>11. CASE Gone
  BY <1>10, <1>11 DEF Gone
<1> QED
  BY <1>1, <1>2, <1>3, <1>4, <1>5, <1>6, <1>7, <1>8, <1>9, <1>10, <1>11 DEF Next

(* The state is typed, and the trade history capped, in every run.         *)
THEOREM TypeCorrect == Spec => []TypeOK
  BY InitType, TypeStep, PTL DEF Spec

-----------------------------------------------------------------------------
(* A process that means to run has a loop that will scan, in whatever      *)
(* order start(), commands and signals come.                               *)
THEOREM RunningProcessHasLoop == Spec => []RunningHasLoop
<1>1. Init => RunningHasLoop
  BY DEF Init, RunningHasLoop
<1>2. TypeOK /\ RunningHasLoop /\ [Next]_vars => RunningHasLoop'
  <2> SUFFICES ASSUME TypeOK, RunningHasLoop, [Next]_vars, isRunning'
               PROVE  \E l \in Loops : loops'[l].pc # "idle"
    BY DEF RunningHasLoop, Alive
  <2> USE DEF TypeOK, Alive, RunningHasLoop, books, rotation
  <2>1. ASSUME NEW l \in Loops, StartScanLoop(l) PROVE loops'[l].pc # "idle"
    BY <2>1 DEF StartScanLoop, TimedLoop
  <2>2. CASE FinishStart \/ Resume
    BY <2>1, <2>2 DEF FinishStart, Resume
  <2>3. ASSUME NEW l \in Loops, LoopStep(l) PROVE loops'[l].pc # "idle"
    <3>1. CASE Tick(l)
      BY <2>3, <3>1, LoopTypes DEF Tick, MayScan, LoopState
    <3>2. CASE Reject(l) \/ DropWithoutWallet(l)
      BY <3>2, LoopTypes, ZenonT(40) DEF Reject, DropWithoutWallet, AtRoute, NextRoute, LoopState
    <3>3. CASE Execute(l)
      BY <3>3 DEF Execute
    <3>4. CASE FinishScan(l)
      BY <3>4 DEF FinishScan, LoopState
    <3>5. ASSUME NEW answer \in {"earned", "failed"},
                 EngineAnswers(l, answer)
          PROVE  loops'[l].pc # "idle"
      BY <3>5 DEF EngineAnswers, LoopState
    <3>6. CASE TradePublished(l)
      BY <3>6 DEF TradePublished, LoopState
    <3>7. CASE ScanPublished(l)
      BY <3>7 DEF ScanPublished, MayScan, TimedLoop
    <3> QED
      BY <2>3, <3>1, <3>2, <3>3, <3>4, <3>5, <3>6, <3>7 DEF LoopStep
  <2>4. CASE Pause \/ Stop
    BY <2>4 DEF Pause, Stop
  <2>5. CASE ConnectRedis \/ ApiClosed \/ Exit \/ Midnight
              \/ (\E p \in Payloads : Configure(p))
    BY <2>5 DEF ConnectRedis, ApiClosed, Exit, Midnight, Configure
  <2>6. CASE UNCHANGED vars
    BY <2>6 DEF vars
  <2>7. CASE Gone
    BY <2>6, <2>7 DEF Gone
  <2> QED
    BY <2>2, <2>3, <2>4, <2>5, <2>6, <2>7 DEF Next
<1> QED
  BY <1>1, <1>2, TypeCorrect, PTL DEF Spec

-----------------------------------------------------------------------------
(* The RiskManager's slots are the trades under way                        *)

(* Why ActiveTradesAreInFlight is not inductive by itself: that the loops  *)
(* never wait on the same trade rests on the batches being disjoint, and   *)
(* that on a scan taking only routes nobody has taken.                     *)
QueuedAreScanned ==
  \A l \in Loops : \A i \in DOMAIN loops[l].batch :
    trades[loops[l].batch[i]].status = "scanned"

QueuedOnce ==
  \A k, l \in Loops : \A i \in DOMAIN loops[k].batch : \A j \in DOMAIN loops[l].batch :
    loops[k].batch[i] = loops[l].batch[j] => k = l /\ i = j

FlyingAreStarted ==
  \A l \in Loops :
    InFlight(l) => /\ loops[l].trade \in TradeIds
                   /\ trades[loops[l].trade].status \in {"pending", "submitted", "confirmed"}

OneHolder == QueuedAreScanned /\ QueuedOnce /\ FlyingAreStarted

(* A step that adds nothing to a batch, puts nothing in flight and changes *)
(* no status keeps every route with its holder.                            *)
LEMMA HoldersShrink ==
  ASSUME TypeOK, OneHolder, UNCHANGED trades,
         \A l \in Loops : loops'[l].batch = loops[l].batch \/ loops'[l].batch = << >>,
         \A l \in Loops : InFlight(l)' => InFlight(l) /\ loops'[l].trade = loops[l].trade
  PROVE  OneHolder'
<1>1. QueuedAreScanned'
  BY DEF OneHolder, QueuedAreScanned
<1>2. QueuedOnce'
  BY DEF OneHolder, QueuedOnce
<1>3. FlyingAreStarted'
  BY DEF OneHolder, FlyingAreStarted
<1> QED
  BY <1>1, <1>2, <1>3 DEF OneHolder

(* Taking the first route out of a batch leaves the rest in place.         *)
LEMMA TailOfBatch ==
  ASSUME NEW b \in Seq(TradeIds), b # << >>
  PROVE  /\ Head(b) = b[1] /\ 1 \in DOMAIN b
         /\ \A i \in DOMAIN Tail(b) :
              i + 1 \in DOMAIN b /\ Tail(b)[i] = b[i + 1] /\ i \in Nat /\ i + 1 # 1
  OBVIOUS

(* Routes other than the first stay scanned, and queued once.              *)
LEMMA HoldersAdvance ==
  ASSUME TypeOK, OneHolder, NEW l \in Loops, loops[l].batch # << >>,
         loops'[l].batch = Tail(loops[l].batch),
         \A k \in Loops : k # l => loops'[k] = loops[k],
         \A t \in TradeIds : t # Head(loops[l].batch) => trades'[t] = trades[t]
  PROVE  QueuedAreScanned' /\ QueuedOnce'
<1> DEFINE b == loops[l].batch
<1>1. b \in Seq(TradeIds) /\ \A k \in Loops : loops[k].batch \in Seq(TradeIds)
  BY LoopTypes DEF TypeOK
<1>2. /\ Head(b) = b[1] /\ 1 \in DOMAIN b
      /\ \A i \in DOMAIN Tail(b) :
           i + 1 \in DOMAIN b /\ Tail(b)[i] = b[i + 1] /\ i \in Nat /\ i + 1 # 1
  BY <1>1, TailOfBatch
<1>3. ASSUME NEW k \in Loops, NEW i \in DOMAIN loops'[k].batch
      PROVE  \E j \in DOMAIN loops[k].batch :
               /\ loops'[k].batch[i] = loops[k].batch[j]
               /\ k = l => j = i + 1 /\ i \in Nat
               /\ k # l => j = i
               /\ loops[k].batch[j] # Head(b)
  <2>1. CASE k = l
    <3>1. i \in DOMAIN Tail(b) /\ loops'[k].batch[i] = Tail(b)[i]
      BY <2>1
    <3>2. i + 1 \in DOMAIN b /\ Tail(b)[i] = b[i + 1] /\ i \in Nat /\ i + 1 # 1
      BY <1>2, <3>1
    <3>3. b[i + 1] # b[1]
      BY <1>2, <3>2 DEF OneHolder, QueuedOnce
    <3> QED
      BY <1>2, <2>1, <3>1, <3>2, <3>3
  <2>2. CASE k # l
    <3>1. loops'[k].batch = loops[k].batch
      BY <2>2
    <3> QED
      BY <1>2, <2>2, <3>1 DEF OneHolder, QueuedOnce
  <2> QED
    BY <2>1, <2>2
<1> HIDE DEF b
<1>4. QueuedAreScanned'
  <2> SUFFICES ASSUME NEW k \in Loops, NEW i \in DOMAIN loops'[k].batch
               PROVE  trades'[loops'[k].batch[i]].status = "scanned"
    BY DEF QueuedAreScanned
  <2>1. PICK j \in DOMAIN loops[k].batch :
          loops'[k].batch[i] = loops[k].batch[j] /\ loops[k].batch[j] # Head(b)
    BY <1>3
  <2>2. loops[k].batch[j] \in TradeIds
    BY <1>1
  <2> QED
    BY <2>1, <2>2 DEF b, OneHolder, QueuedAreScanned
<1>5. QueuedOnce'
  <2> SUFFICES ASSUME NEW k \in Loops, NEW m \in Loops,
                      NEW i \in DOMAIN loops'[k].batch, NEW j \in DOMAIN loops'[m].batch,
                      loops'[k].batch[i] = loops'[m].batch[j]
               PROVE  k = m /\ i = j
    BY DEF QueuedOnce
  <2>1. PICK x \in DOMAIN loops[k].batch :
          /\ loops'[k].batch[i] = loops[k].batch[x]
          /\ k = l => x = i + 1 /\ i \in Nat
          /\ k # l => x = i
    BY <1>3
  <2>2. PICK y \in DOMAIN loops[m].batch :
          /\ loops'[m].batch[j] = loops[m].batch[y]
          /\ m = l => y = j + 1 /\ j \in Nat
          /\ m # l => y = j
    BY <1>3
  <2>3. loops[k].batch[x] = loops[m].batch[y]
    BY <2>1, <2>2, Zenon
  <2>4. k = m /\ x = y
    BY <2>3 DEF OneHolder, QueuedOnce
  <2>5. CASE k = l
    <3>1. x = i + 1 /\ y = j + 1 /\ x = y /\ i \in Nat /\ j \in Nat
      BY <2>1, <2>2, <2>4, <2>5, Zenon
    <3>2. \A a, c \in Nat : a + 1 = c + 1 => a = c
      OBVIOUS
    <3> QED
      BY <2>4, <3>1, <3>2, Zenon
  <2>6. CASE k # l
    BY <2>1, <2>2, <2>4, <2>6, Zenon
  <2> QED
    BY <2>4, <2>5, <2>6
<1> QED
  BY <1>4, <1>5

(* A scan takes each route once, and none that anybody has taken.          *)
LEMMA BatchFacts ==
  ASSUME NEW b \in Batches
  PROVE  /\ b \in Seq(TradeIds)
         /\ \A i \in DOMAIN b : b[i] \in TradeIds /\ trades[b[i]].status = "new"
         /\ \A i, j \in DOMAIN b : b[i] = b[j] => i = j
<1>1. PICK n \in 0..MaxBatch : b \in [1..n -> {t \in TradeIds : trades[t].status = "new"}]
  BY DEF Batches
<1>2. \A i, j \in DOMAIN b : i < j => b[i] # b[j]
  BY DEF Batches
<1>3. DOMAIN b \subseteq Int
  BY <1>1, OrchestratorConstants
<1>4. \A i, j \in DOMAIN b : b[i] = b[j] => i = j
  BY <1>2, <1>3
<1> QED
  BY <1>1, <1>4, BatchType

(* A scan hands its routes to one loop.                                    *)
LEMMA HoldersScan ==
  ASSUME TypeOK, OneHolder, NEW l \in Loops, NEW b \in Batches,
         loops'[l].batch = b, loops'[l].pc = "next",
         \A k \in Loops : k # l => loops'[k] = loops[k],
         \A i \in DOMAIN b : trades'[b[i]].status = "scanned",
         \A t \in TradeIds : trades[t].status # "new" => trades'[t] = trades[t]
  PROVE  OneHolder'
<1>0. \A k \in Loops : \A i \in DOMAIN loops[k].batch :
        loops[k].batch[i] \in TradeIds /\ trades[loops[k].batch[i]].status = "scanned"
  BY LoopTypes DEF TypeOK, OneHolder, QueuedAreScanned
<1>1. ASSUME NEW k \in Loops, k # l, NEW i \in DOMAIN loops'[k].batch
      PROVE  /\ i \in DOMAIN loops[k].batch
             /\ loops'[k].batch[i] = loops[k].batch[i]
             /\ loops'[k].batch[i] \in TradeIds
             /\ trades[loops'[k].batch[i]].status = "scanned"
  <2>1. loops'[k] = loops[k]
    BY <1>1
  <2>2. i \in DOMAIN loops[k].batch
    BY <2>1, Zenon
  <2>3. loops'[k].batch[i] = loops[k].batch[i]
    BY <2>1, Zenon
  <2>4. loops[k].batch[i] \in TradeIds
    BY <1>0, <2>2, Zenon
  <2>5. trades[loops[k].batch[i]].status = "scanned"
    BY <1>0, <2>2, Zenon
  <2> QED
    BY <2>2, <2>3, <2>4, <2>5, ZenonT(30)
<1>2. QueuedAreScanned'
  <2> SUFFICES ASSUME NEW k \in Loops, NEW i \in DOMAIN loops'[k].batch
               PROVE  trades'[loops'[k].batch[i]].status = "scanned"
    BY Zenon DEF QueuedAreScanned
  <2>1. CASE k = l
    BY <2>1
  <2>2. CASE k # l
    <3>1. /\ loops'[k].batch[i] \in TradeIds
          /\ trades[loops'[k].batch[i]].status = "scanned"
      BY <1>1, <2>2, Zenon
    <3>2. trades'[loops'[k].batch[i]] = trades[loops'[k].batch[i]]
      BY <3>1
    <3> QED
      BY <3>1, <3>2, Zenon
  <2> QED
    BY <2>1, <2>2
<1>3. QueuedOnce'
  <2>1. ASSUME NEW k \in Loops, k # l, NEW i \in DOMAIN loops'[k].batch, NEW j \in DOMAIN b
        PROVE  loops'[k].batch[i] # b[j]
    <3>1. trades[loops'[k].batch[i]].status = "scanned"
      BY <1>1, <2>1, Zenon
    <3>2. trades[b[j]].status = "new"
      BY <2>1, BatchFacts, Zenon
    <3> QED
      BY <3>1, <3>2
  <2> SUFFICES ASSUME NEW k \in Loops, NEW m \in Loops,
                      NEW i \in DOMAIN loops'[k].batch, NEW j \in DOMAIN loops'[m].batch,
                      loops'[k].batch[i] = loops'[m].batch[j]
               PROVE  k = m /\ i = j
    BY Zenon DEF QueuedOnce
  <2>2. CASE k = l /\ m = l
    BY <2>2, BatchFacts, ZenonT(40)
  <2>3. CASE k = l /\ m # l
    BY <2>1, <2>3, Zenon
  <2>4. CASE k # l /\ m = l
    BY <2>1, <2>4, Zenon
  <2>5. CASE k # l /\ m # l
    <3>1. loops'[k] = loops[k] /\ loops'[m] = loops[m]
      BY <2>5
    <3>2. /\ i \in DOMAIN loops[k].batch /\ j \in DOMAIN loops[m].batch
          /\ loops[k].batch[i] = loops[m].batch[j]
      BY <3>1, Zenon
    <3> QED
      BY <3>2 DEF OneHolder, QueuedOnce
  <2> QED
    BY <2>2, <2>3, <2>4, <2>5
<1>4. FlyingAreStarted'
  <2> SUFFICES ASSUME NEW k \in Loops, InFlight(k)'
               PROVE  /\ loops'[k].trade \in TradeIds
                      /\ trades'[loops'[k].trade].status
                           \in {"pending", "submitted", "confirmed"}
    BY DEF FlyingAreStarted
  <2>1. k # l /\ loops'[k] = loops[k] /\ InFlight(k)
    BY DEF InFlight
  <2>2. /\ loops[k].trade \in TradeIds
        /\ trades[loops[k].trade].status \in {"pending", "submitted", "confirmed"}
    BY <2>1 DEF OneHolder, FlyingAreStarted
  <2>3. trades'[loops[k].trade] = trades[loops[k].trade]
    BY <2>2
  <2> QED
    BY <2>1, <2>2, <2>3
<1> QED
  BY <1>2, <1>3, <1>4 DEF OneHolder

(* The next route leaves the batch, for an engine call or for good.        *)
LEMMA HoldersNextRoute ==
  ASSUME TypeOK, OneHolder, NEW l \in Loops, NEW t \in TradeIds, AtRoute(l, t)
  PROVE  /\ loops' = NextRoute(l) /\ UNCHANGED trades => OneHolder'
         /\ Execute(l) => OneHolder'
         /\ trades[t].status = "scanned"
<1>0. /\ loops[l] \in LoopState /\ loops[l].batch \in Seq(TradeIds)
      /\ loops[l].batch # << >> /\ t = Head(loops[l].batch) /\ loops[l].pc = "next"
  BY LoopTypes DEF TypeOK, AtRoute
<1>1. trades[t].status = "scanned"
  BY <1>0, TailOfBatch DEF OneHolder, QueuedAreScanned
<1>2. ASSUME loops' = NextRoute(l), UNCHANGED trades
      PROVE  OneHolder'
  <2>1. /\ loops'[l].batch = Tail(loops[l].batch) /\ loops'[l].pc = "next"
        /\ \A k \in Loops : k # l => loops'[k] = loops[k]
    BY <1>0, <1>2 DEF TypeOK, NextRoute, LoopState
  <2>2. QueuedAreScanned' /\ QueuedOnce'
    BY <1>0, <1>2, <2>1, HoldersAdvance
  <2>3. FlyingAreStarted'
    BY <1>2, <2>1 DEF OneHolder, FlyingAreStarted, InFlight
  <2> QED
    BY <2>2, <2>3 DEF OneHolder
<1>3. ASSUME Execute(l)
      PROVE  OneHolder'
  <2>1. PICK u \in TradeIds :
          /\ AtRoute(l, u)
          /\ loops' = [loops EXCEPT ![l] = [pc |-> "executing", batch |-> Tail(@.batch),
                                            trade |-> u]]
          /\ trades' = [trades EXCEPT ![u] = [status |-> "pending",
                                              wallet |-> currentIndex % activeWallets,
                                              engine |-> "asked"]]
    BY <1>3 DEF Execute
  <2>2. u = t
    BY <1>0, <2>1 DEF AtRoute
  <2>3. /\ loops'[l].batch = Tail(loops[l].batch) /\ loops'[l].trade = t
        /\ \A k \in Loops : k # l => loops'[k] = loops[k]
        /\ \A v \in TradeIds : v # t => trades'[v] = trades[v]
        /\ trades'[t].status = "pending"
    BY <2>1, <2>2 DEF TypeOK
  <2>4. QueuedAreScanned' /\ QueuedOnce'
    BY <1>0, <2>3, HoldersAdvance
  <2>5. FlyingAreStarted'
    BY <1>1, <2>3 DEF OneHolder, FlyingAreStarted, InFlight
  <2> QED
    BY <2>4, <2>5 DEF OneHolder
<1> QED
  BY <1>1, <1>2, <1>3

(* Every step leaves each route with at most one holder.                   *)
LEMMA HolderStep == TypeOK /\ OneHolder /\ [Next]_vars => OneHolder'
<1> SUFFICES ASSUME TypeOK, OneHolder, [Next]_vars PROVE OneHolder'
  OBVIOUS
<1> USE DEF books, rotation
<1>0. \A l \in Loops : loops[l] \in LoopState
  BY DEF TypeOK
<1>1. ASSUME NEW l \in Loops, StartScanLoop(l), UNCHANGED trades PROVE OneHolder'
  BY <1>1, HoldersShrink DEF TypeOK, StartScanLoop, IdleLoop, TimedLoop, InFlight
<1>2. CASE FinishStart \/ Resume
  BY <1>1, <1>2 DEF FinishStart, Resume
<1>3. ASSUME NEW l \in Loops, Tick(l) PROVE OneHolder'
  <2>1. CASE loops' = [loops EXCEPT ![l] = IdleLoop] /\ UNCHANGED trades
    BY <2>1, HoldersShrink DEF TypeOK, IdleLoop, InFlight
  <2>2. ASSUME NEW b \in Batches,
               loops' = [loops EXCEPT ![l].pc = "next", ![l].batch = b],
               trades' = [t \in TradeIds |-> IF \E i \in DOMAIN b : b[i] = t
                                             THEN [trades[t] EXCEPT !.status = "scanned"]
                                             ELSE trades[t]]
        PROVE  OneHolder'
    <3>1. /\ loops'[l].batch = b /\ loops'[l].pc = "next"
          /\ \A k \in Loops : k # l => loops'[k] = loops[k]
      BY <1>0, <2>2 DEF TypeOK, LoopState
    <3>2. \A i \in DOMAIN b : b[i] \in TradeIds /\ trades[b[i]].status = "new"
      BY BatchFacts
    <3>3. ASSUME NEW i \in DOMAIN b PROVE trades'[b[i]].status = "scanned"
      <4>1. trades'[b[i]] = [trades[b[i]] EXCEPT !.status = "scanned"]
        BY <2>2, <3>2, Zenon
      <4>2. trades[b[i]] \in TradeState
        BY <3>2 DEF TypeOK
      <4> QED
        BY <4>1, <4>2 DEF TradeState
    <3>4. ASSUME NEW t \in TradeIds, trades[t].status # "new" PROVE trades'[t] = trades[t]
      <4>1. ~(\E i \in DOMAIN b : b[i] = t)
        BY <3>2, <3>4, Zenon
      <4> QED
        BY <2>2, <4>1, Zenon
    <3> HIDE <2>2
    <3> QED
      BY <3>1, <3>3, <3>4, HoldersScan, Zenon
  <2> QED
    BY <1>3, <2>1, <2>2 DEF Tick
<1>4. ASSUME NEW l \in Loops, Reject(l) \/ DropWithoutWallet(l) PROVE OneHolder'
  <2>1. PICK t \in TradeIds : AtRoute(l, t) /\ loops' = NextRoute(l) /\ UNCHANGED trades
    BY <1>4 DEF Reject, DropWithoutWallet
  <2> QED
    BY <2>1, HoldersNextRoute
<1>5. ASSUME NEW l \in Loops, Execute(l) PROVE OneHolder'
  <2>1. PICK t \in TradeIds : AtRoute(l, t)
    BY <1>5 DEF Execute
  <2> QED
    BY <1>5, <2>1, HoldersNextRoute
<1>6. ASSUME NEW l \in Loops, FinishScan(l) PROVE OneHolder'
  <2>1. /\ \A k \in Loops : loops'[k].batch = loops[k].batch
        /\ loops'[l].pc = "publishScan"
        /\ \A k \in Loops : k # l => loops'[k] = loops[k]
        /\ UNCHANGED trades
    BY <1>0, <1>6 DEF FinishScan, LoopState, TypeOK
  <2> QED
    BY <2>1, HoldersShrink DEF InFlight
<1>7. ASSUME NEW l \in Loops, NEW answer \in {"earned", "failed"},
             EngineAnswers(l, answer)
      PROVE  OneHolder'
  <2>1. PICK t \in TradeIds :
          /\ loops[l].pc = "executing" /\ loops[l].trade = t
          /\ trades' = [trades EXCEPT
                          ![t].status = IF answer = "earned" THEN "submitted" ELSE "confirmed",
                          ![t].engine = answer]
          /\ loops' = [loops EXCEPT ![l].pc = "publishTrade"]
    BY <1>7 DEF EngineAnswers
  <2>2. /\ \A k \in Loops : /\ loops'[k].batch = loops[k].batch
                            /\ loops'[k].trade = loops[k].trade
                            /\ InFlight(k)' <=> InFlight(k)
        /\ \A u \in TradeIds : u # t => trades'[u] = trades[u]
        /\ trades'[t].status \in {"submitted", "confirmed"}
    BY <1>0, <2>1 DEF TypeOK, LoopState, TradeState, InFlight
  <2>3. trades[t].status # "scanned"
    BY <2>1 DEF OneHolder, FlyingAreStarted, InFlight
  <2>4. QueuedAreScanned'
    <3>1. \A k \in Loops : \A i \in DOMAIN loops[k].batch : loops[k].batch[i] \in TradeIds
      BY LoopTypes DEF TypeOK
    <3> QED
      BY <2>2, <2>3, <3>1 DEF OneHolder, QueuedAreScanned
  <2>5. QueuedOnce'
    BY <2>2 DEF OneHolder, QueuedOnce
  <2>6. FlyingAreStarted'
    BY <2>2 DEF OneHolder, FlyingAreStarted
  <2> QED
    BY <2>4, <2>5, <2>6 DEF OneHolder
<1>8. ASSUME NEW l \in Loops, TradePublished(l) PROVE OneHolder'
  <2>1. /\ \A k \in Loops : loops'[k].batch = loops[k].batch
        /\ loops'[l].pc = "next"
        /\ \A k \in Loops : k # l => loops'[k] = loops[k]
        /\ UNCHANGED trades
    BY <1>0, <1>8 DEF TradePublished, LoopState, TypeOK
  <2> QED
    BY <2>1, HoldersShrink DEF InFlight
<1>9. ASSUME NEW l \in Loops, ScanPublished(l) PROVE OneHolder'
  BY <1>9, HoldersShrink DEF ScanPublished, TypeOK, IdleLoop, TimedLoop, InFlight
<1>10. CASE Stop
  BY <1>10, HoldersShrink DEF Stop, TypeOK, IdleLoop, InFlight
<1>11. CASE UNCHANGED <<loops, trades>>
  BY <1>11, HoldersShrink DEF InFlight
<1>12. CASE ConnectRedis \/ Pause \/ ApiClosed \/ Exit \/ Midnight \/ Gone
              \/ (\E p \in Payloads : Configure(p)) \/ UNCHANGED vars
  BY <1>11, <1>12 DEF ConnectRedis, Pause, ApiClosed, Exit, Midnight, Gone, Configure, vars
<1> QED
  BY <1>2, <1>3, <1>4, <1>5, <1>6, <1>7, <1>8, <1>9, <1>10, <1>12 DEF Next, LoopStep

(* Nothing is queued or under way before start().                          *)
LEMMA InitHolder == Init => OneHolder /\ ActiveTradesAreInFlight
<1> SUFFICES ASSUME Init PROVE OneHolder /\ ActiveTradesAreInFlight
  OBVIOUS
<1>1. \A l \in Loops : loops[l] = IdleLoop
  BY DEF Init
<1>2. \A l \in Loops : loops[l].batch = << >> /\ ~InFlight(l)
  BY <1>1 DEF IdleLoop, InFlight
<1>3. risk.activeTrades = {}
  BY Zenon DEF Init, NewRiskManager
<1> QED
  BY <1>2, <1>3 DEF OneHolder, QueuedAreScanned, QueuedOnce, FlyingAreStarted,
                    ActiveTradesAreInFlight

(* A step that starts and ends no trade changes neither side.              *)
LEMMA SameFlights ==
  ASSUME ActiveTradesAreInFlight, risk'.activeTrades = risk.activeTrades,
         \A l \in Loops : InFlight(l)' <=> InFlight(l),
         \A l \in Loops : InFlight(l) => loops'[l].trade = loops[l].trade
  PROVE  ActiveTradesAreInFlight'
  BY DEF ActiveTradesAreInFlight

(* A started trade takes a slot.                                           *)
LEMMA ExecuteSlots ==
  ASSUME TypeOK, OneHolder, ActiveTradesAreInFlight, NEW l \in Loops, Execute(l)
  PROVE  ActiveTradesAreInFlight'
<1>1. PICK t \in TradeIds :
        /\ AtRoute(l, t) /\ Accepted(t)
        /\ loops' = [loops EXCEPT ![l] = [pc |-> "executing", batch |-> Tail(@.batch),
                                          trade |-> t]]
        /\ risk' = StartTrade(risk, t)
  BY DEF Execute
<1>2. trades[t].status = "scanned"
  BY <1>1, HoldersNextRoute
<1>3. risk'.activeTrades = risk.activeTrades \cup {t}
  <2>1. HasFreeSlot(risk)
    BY <1>1 DEF Accepted, ValidateOpportunity
  <2> QED
    BY <1>1, <2>1, TradeLifecycleFields, Zenon DEF TypeOK
<1>4. /\ ~InFlight(l) /\ InFlight(l)' /\ loops'[l].trade = t
      /\ \A k \in Loops : k # l => loops'[k] = loops[k] /\ (InFlight(k)' <=> InFlight(k))
  BY <1>1 DEF TypeOK, AtRoute, InFlight
<1>5. \A k \in Loops : InFlight(k) => loops[k].trade # t
  BY <1>2 DEF OneHolder, FlyingAreStarted
<1> QED
  BY <1>3, <1>4, <1>5 DEF ActiveTradesAreInFlight

(* A trade that is over gives its slot back.                               *)
LEMMA PublishedSlots ==
  ASSUME TypeOK, ActiveTradesAreInFlight, NEW l \in Loops, TradePublished(l)
  PROVE  ActiveTradesAreInFlight'
<1>1. /\ loops[l].pc = "publishTrade"
      /\ risk' = CompleteTrade(risk, loops[l].trade)
      /\ loops' = [loops EXCEPT ![l].pc = "next", ![l].trade = NoTrade]
  BY DEF TradePublished
<1>2. risk'.activeTrades = risk.activeTrades \ {loops[l].trade}
  BY <1>1, TradeLifecycleFields, Zenon DEF TypeOK
<1>3. /\ InFlight(l) /\ ~InFlight(l)'
      /\ \A k \in Loops : k # l => loops'[k] = loops[k] /\ (InFlight(k)' <=> InFlight(k))
  BY <1>1 DEF TypeOK, LoopState, InFlight
<1> QED
  BY <1>2, <1>3 DEF ActiveTradesAreInFlight

(* A trade dropped for want of a wallet takes no slot.                     *)
LEMMA DroppedSlots ==
  ASSUME TypeOK, OneHolder, ActiveTradesAreInFlight, NEW l \in Loops, DropWithoutWallet(l)
  PROVE  risk'.activeTrades = risk.activeTrades
<1>1. PICK t \in TradeIds : AtRoute(l, t) /\ risk' = CompleteTrade(StartTrade(risk, t), t)
  BY DEF DropWithoutWallet, WithoutWallet
<1>2. t \notin risk.activeTrades
  <2>1. trades[t].status = "scanned"
    BY <1>1, HoldersNextRoute
  <2> QED
    BY <2>1 DEF ActiveTradesAreInFlight, OneHolder, FlyingAreStarted
<1>3. StartTrade(risk, t) \in RiskState
  BY TradeLifecycleType DEF TypeOK
<1>4. risk'.activeTrades = StartTrade(risk, t).activeTrades \ {t}
  BY <1>1, <1>3, TradeLifecycleFields, Zenon
<1>5. \/ StartTrade(risk, t).activeTrades = risk.activeTrades
      \/ StartTrade(risk, t).activeTrades = risk.activeTrades \cup {t}
  BY TradeLifecycleFields, Zenon DEF TypeOK
<1> QED
  BY <1>2, <1>4, <1>5

(* The slots the RiskManager counts are the trades under way, whatever     *)
(* the number of loops and the order of commands.                          *)
THEOREM SlotsAreTradesUnderWay == Spec => []ActiveTradesAreInFlight
<1>1. TypeOK /\ OneHolder /\ ActiveTradesAreInFlight /\ [Next]_vars
        => ActiveTradesAreInFlight'
  <2> SUFFICES ASSUME TypeOK, OneHolder, ActiveTradesAreInFlight, [Next]_vars
               PROVE  ActiveTradesAreInFlight'
    OBVIOUS
  <2> USE DEF books, rotation
  <2>0. risk \in RiskState /\ \A l \in Loops : loops[l] \in LoopState
    BY DEF TypeOK
  <2>1. ASSUME NEW l \in Loops, StartScanLoop(l), risk'.activeTrades = risk.activeTrades
        PROVE  ActiveTradesAreInFlight'
    BY <2>1, SameFlights DEF TypeOK, StartScanLoop, IdleLoop, TimedLoop, InFlight
  <2>2. CASE FinishStart \/ Resume
    <3>1. risk'.activeTrades = risk.activeTrades
      BY <2>0, <2>2, CheckDailyResetFields DEF FinishStart, Resume
    <3> QED
      BY <2>1, <2>2, <3>1 DEF FinishStart, Resume
  <2>3. ASSUME NEW l \in Loops, Tick(l) PROVE ActiveTradesAreInFlight'
    <3>1. /\ loops[l].pc = "timer" /\ loops'[l].pc \in {"idle", "next"}
          /\ \A k \in Loops : k # l => loops'[k] = loops[k]
      BY <2>0, <2>3 DEF Tick, TypeOK, LoopState, IdleLoop
    <3> QED
      BY <2>3, <3>1, SameFlights DEF Tick, InFlight
  <2>4. ASSUME NEW l \in Loops, Reject(l) \/ DropWithoutWallet(l)
        PROVE  ActiveTradesAreInFlight'
    <3>1. risk'.activeTrades = risk.activeTrades
      BY <2>4, DroppedSlots DEF Reject
    <3>2. \A k \in Loops : loops'[k].pc = loops[k].pc /\ loops'[k].trade = loops[k].trade
      <4>1. loops' = NextRoute(l)
        BY <2>4 DEF Reject, DropWithoutWallet
      <4>2. loops' = [loops EXCEPT ![l] = [loops[l] EXCEPT !.batch = Tail(@)]]
        BY <4>1 DEF NextRoute
      <4> QED
        BY <2>0, <4>2 DEF TypeOK, LoopState
    <3> QED
      BY <3>1, <3>2, SameFlights DEF InFlight
  <2>5. ASSUME NEW l \in Loops, FinishScan(l) PROVE ActiveTradesAreInFlight'
    <3>1. risk'.activeTrades = risk.activeTrades
      BY <2>0, <2>5, CheckDailyResetFields DEF FinishScan
    <3>2. /\ loops[l].pc = "next" /\ loops'[l].pc = "publishScan"
          /\ \A k \in Loops : k # l => loops'[k] = loops[k]
      BY <2>0, <2>5 DEF FinishScan, TypeOK, LoopState
    <3> QED
      BY <3>1, <3>2, SameFlights DEF InFlight
  <2>6. ASSUME NEW l \in Loops, NEW answer \in {"earned", "failed"},
               EngineAnswers(l, answer)
        PROVE  ActiveTradesAreInFlight'
    <3>1. PICK t \in TradeIds :
            /\ loops[l].pc = "executing"
            /\ risk' = RecordProfit(risk, RouteOf[t].netProfit)
            /\ loops' = [loops EXCEPT ![l].pc = "publishTrade"]
      BY <2>6 DEF EngineAnswers
    <3>2. risk'.activeTrades = risk.activeTrades
      BY <2>0, <3>1, RouteType, RecordProfitFields, Zenon
    <3>3. \A k \in Loops : /\ loops'[k].trade = loops[k].trade
                           /\ InFlight(k)' <=> InFlight(k)
      BY <2>0, <3>1 DEF TypeOK, LoopState, InFlight
    <3> QED
      BY <3>2, <3>3, SameFlights
  <2>7. ASSUME NEW l \in Loops, ScanPublished(l) PROVE ActiveTradesAreInFlight'
    BY <2>7, SameFlights DEF ScanPublished, TypeOK, IdleLoop, TimedLoop, InFlight
  <2>8. CASE Stop
    BY <2>8, SameFlights DEF Stop, TypeOK, IdleLoop, InFlight
  <2>9. CASE Midnight
    BY <2>0, <2>9, OtherFields, SameFlights DEF Midnight, InFlight
  <2>10. ASSUME NEW p \in Payloads, Configure(p) PROVE ActiveTradesAreInFlight'
    BY <2>0, <2>10, OtherFields, SameFlights DEF Configure, UpdateConfig, InFlight
  <2>11. CASE ConnectRedis \/ Pause \/ ApiClosed \/ Exit \/ Gone \/ UNCHANGED vars
    BY <2>11, SameFlights
       DEF ConnectRedis, Pause, ApiClosed, Exit, Gone, vars, InFlight
  <2> QED
    BY <2>2, <2>3, <2>4, <2>5, <2>6, <2>7, <2>8, <2>9, <2>10, <2>11,
       ExecuteSlots, PublishedSlots DEF Next, LoopStep
<1> QED
  BY <1>1, InitHolder, HolderStep, TypeCorrect, PTL DEF Spec

-----------------------------------------------------------------------------
(* Trades.  A trade starts only within the limits in force: the check of   *)
(* the RiskManager and the start of the trade are one stretch of code      *)
(* without an await, and nothing else takes a slot.  And the process keeps *)
(* the ledger of trades, so that nothing begun is lost.                    *)

(* The slots are known to be the trades under way; Cardinality needs that  *)
(* they are finitely many.                                                 *)
LimitsInv ==
  TypeOK /\ OneHolder /\ ActiveTradesAreInFlight /\ IsFiniteSet(risk.activeTrades)

(* Only the start of a trade and its end change the slots: no command, no  *)
(* midnight and no answer of the engine does.                              *)
LEMMA OnlyTradesChangeSlots ==
  ASSUME LimitsInv, [Next]_vars,
         \A l \in Loops : ~Execute(l) /\ ~TradePublished(l)
  PROVE  risk'.activeTrades = risk.activeTrades
<1>0. risk \in RiskState /\ TypeOK /\ OneHolder /\ ActiveTradesAreInFlight
  BY DEF LimitsInv, TypeOK
<1> USE DEF books, rotation
<1>1. CASE FinishStart
  BY <1>0, <1>1, CheckDailyResetFields DEF FinishStart
<1>2. ASSUME NEW l \in Loops, LoopStep(l) PROVE risk'.activeTrades = risk.activeTrades
  <2>1. CASE Tick(l) \/ Reject(l) \/ ScanPublished(l)
    BY <2>1 DEF Tick, Reject, ScanPublished
  <2>2. CASE DropWithoutWallet(l)
    BY <1>0, <2>2, DroppedSlots
  <2>3. CASE FinishScan(l)
    BY <1>0, <2>3, CheckDailyResetFields DEF FinishScan
  <2>4. ASSUME NEW answer \in {"earned", "failed"}, EngineAnswers(l, answer)
        PROVE  risk'.activeTrades = risk.activeTrades
    <3>1. PICK t \in TradeIds : risk' = RecordProfit(risk, RouteOf[t].netProfit)
      BY <2>4 DEF EngineAnswers
    <3> QED
      BY <1>0, <3>1, RouteType, RecordProfitFields, Zenon
  <2> QED
    BY <1>2, <2>1, <2>2, <2>3, <2>4 DEF LoopStep
<1>3. CASE Resume
  BY <1>3 DEF Resume
<1>4. ASSUME NEW p \in Payloads, Configure(p) PROVE risk'.activeTrades = risk.activeTrades
  BY <1>0, <1>4, OtherFields DEF Configure, UpdateConfig
<1>5. CASE Midnight
  BY <1>0, <1>5, OtherFields DEF Midnight
<1>6. CASE ConnectRedis \/ Pause \/ Stop \/ ApiClosed \/ Exit \/ Gone \/ UNCHANGED vars
  BY <1>6 DEF ConnectRedis, Pause, Stop, ApiClosed, Exit, Gone, vars
<1> QED
  BY <1>1, <1>2, <1>3, <1>4, <1>5, <1>6 DEF Next

(* A trade that starts has been accepted against the configuration and the *)
(* slots of that very moment (startScanLoop, executeOpportunity).          *)
LEMMA StartedWithinLimits ==
  ASSUME LimitsInv, NEW l \in Loops, Execute(l)
  PROVE  /\ IsFiniteSet(risk'.activeTrades)
         /\ \A t \in risk'.activeTrades \ risk.activeTrades :
              WithinLimits(risk.config, RouteOf[t])
         /\ Cardinality(risk'.activeTrades) <= risk.config.maxConcurrentTrades
<1>0. risk \in RiskState /\ IsFiniteSet(risk.activeTrades)
  BY DEF LimitsInv, TypeOK
<1>1. PICK t \in TradeIds : Accepted(t) /\ risk' = StartTrade(risk, t)
  BY DEF Execute
<1>2. HasFreeSlot(risk) /\ WithinLimits(risk.config, RouteOf[t])
  BY <1>1 DEF Accepted, ValidateOpportunity
<1>3. risk'.activeTrades = risk.activeTrades \cup {t}
  BY <1>0, <1>1, <1>2, TradeLifecycleFields, Zenon
<1>4. /\ IsFiniteSet(risk'.activeTrades)
      /\ Cardinality(risk'.activeTrades)
           = IF t \in risk.activeTrades THEN Cardinality(risk.activeTrades)
                                        ELSE Cardinality(risk.activeTrades) + 1
  BY <1>0, <1>3, FS_AddElement, Zenon
<1>5. /\ Cardinality(risk.activeTrades) \in Nat
      /\ risk.config.maxConcurrentTrades \in Nat
  BY <1>0, FS_CardinalityType, Components
<1>6. Cardinality(risk'.activeTrades) <= risk.config.maxConcurrentTrades
  BY <1>2, <1>4, <1>5 DEF HasFreeSlot
<1> QED
  BY <1>2, <1>3, <1>4, <1>6

(* A trade that ends leaves finitely many.                                 *)
LEMMA EndedTrade ==
  ASSUME LimitsInv, NEW l \in Loops, TradePublished(l)
  PROVE  IsFiniteSet(risk'.activeTrades) /\ risk'.activeTrades \subseteq risk.activeTrades
<1>0. risk \in RiskState /\ IsFiniteSet(risk.activeTrades)
  BY DEF LimitsInv, TypeOK
<1>1. risk'.activeTrades = risk.activeTrades \ {loops[l].trade}
  BY <1>0, TradeLifecycleFields, Zenon DEF TradePublished
<1> QED
  BY <1>0, <1>1, FS_Subset

(* The slots are the trades under way and finitely many of them.           *)
LEMMA LimitsInvariant == Spec => []LimitsInv
<1>1. Init => IsFiniteSet(risk.activeTrades)
  <2> SUFFICES ASSUME Init PROVE IsFiniteSet(risk.activeTrades)
    OBVIOUS
  <2>1. risk.activeTrades = {}
    BY Zenon DEF Init, NewRiskManager
  <2> QED
    BY <2>1, FS_EmptySet
<1>2. LimitsInv /\ [Next]_vars => IsFiniteSet(risk.activeTrades)'
  <2> SUFFICES ASSUME LimitsInv, [Next]_vars PROVE IsFiniteSet(risk'.activeTrades)
    OBVIOUS
  <2>1. CASE \E l \in Loops : Execute(l)
    BY <2>1, StartedWithinLimits
  <2>2. CASE \E l \in Loops : TradePublished(l)
    BY <2>2, EndedTrade
  <2>3. CASE \A l \in Loops : ~Execute(l) /\ ~TradePublished(l)
    <3>1. risk'.activeTrades = risk.activeTrades
      BY <2>3, OnlyTradesChangeSlots
    <3> QED
      BY <3>1 DEF LimitsInv
  <2> QED
    BY <2>1, <2>2, <2>3
<1>3. TypeOK /\ OneHolder /\ ActiveTradesAreInFlight /\ IsFiniteSet(risk.activeTrades)
        <=> LimitsInv
  BY DEF LimitsInv
<1>4. Spec => []OneHolder
  BY InitHolder, HolderStep, TypeCorrect, PTL DEF Spec
<1> QED
  BY <1>1, <1>2, <1>3, <1>4, TypeCorrect, SlotsAreTradesUnderWay, PTL DEF Spec

(* A trade starts only within the limits in force when it starts, however  *)
(* old its batch is and whatever update_config did in between.             *)
THEOREM StartsWithinLimits == Spec => StartsRespectLimits
<1> DEFINE Starts ==
      \A t \in risk'.activeTrades \ risk.activeTrades :
         /\ WithinLimits(risk.config, RouteOf[t])
         /\ Cardinality(risk'.activeTrades) <= risk.config.maxConcurrentTrades
<1>1. LimitsInv /\ [Next]_vars => Starts
  <2> SUFFICES ASSUME LimitsInv, [Next]_vars PROVE Starts
    OBVIOUS
  <2>1. CASE \E l \in Loops : Execute(l)
    BY <2>1, StartedWithinLimits
  <2>2. CASE \E l \in Loops : TradePublished(l)
    BY <2>2, EndedTrade
  <2>3. CASE \A l \in Loops : ~Execute(l) /\ ~TradePublished(l)
    BY <2>3, OnlyTradesChangeSlots
  <2> QED
    BY <2>1, <2>2, <2>3
<1> HIDE DEF Starts
<1>2. Spec => [][Starts]_vars
  BY <1>1, LimitsInvariant, PTL DEF Spec
<1> QED
  BY <1>2, PTL DEF StartsRespectLimits, Starts

-----------------------------------------------------------------------------
(* The ledger                                                              *)

(* Why a step of the process is a step of the ledger: what has been        *)
(* recorded of a trade follows the loop that waits on it, and an engine    *)
(* has been asked about exactly the trades that have left their batch.     *)
RecordsFollowLoops ==
  /\ \A l \in Loops :
       /\ loops[l].pc = "executing" => trades[loops[l].trade].status = "pending"
       /\ loops[l].pc = "publishTrade" => loops[l].trade \in Recorded
  /\ \A t \in TradeIds : trades[t].engine = "none" <=> trades[t].status \in {"new", "scanned"}

LedgerInv == LimitsInv /\ RecordsFollowLoops

(* Commands, midnights and scans leave the records with their loops.       *)
LEMMA RecordsStay ==
  ASSUME RecordsFollowLoops, UNCHANGED trades,
         \A l \in Loops : loops'[l].pc \in {"executing", "publishTrade"} =>
                            loops'[l].pc = loops[l].pc /\ loops'[l].trade = loops[l].trade
  PROVE  RecordsFollowLoops' /\ Begun' = Begun /\ Recorded' = Recorded
  BY DEF RecordsFollowLoops, Begun, Recorded

(* A step that neither starts, answers nor ends a trade leaves the ledger. *)
LEMMA LedgerUnchanged ==
  ASSUME UNCHANGED <<tradesExecuted, totalProfit, tradeHistory>>, Begun' = Begun,
         Recorded' = Recorded, risk'.activeTrades = risk.activeTrades, Exited' = Exited
  PROVE  UNCHANGED Ledger!vars
  BY DEF Ledger!vars

(* Scanned routes are in no book yet.                                      *)
LEMMA ScanKeepsLedger ==
  ASSUME LedgerInv, NEW l \in Loops, Tick(l)
  PROVE  RecordsFollowLoops' /\ UNCHANGED Ledger!vars
<1>0. /\ TypeOK /\ RecordsFollowLoops
      /\ \A k \in Loops : loops[k] \in LoopState
      /\ \A t \in TradeIds : trades[t] \in TradeState
  BY DEF LedgerInv, LimitsInv, TypeOK
<1>1. /\ loops'[l].pc \in {"idle", "next"}
      /\ \A k \in Loops : k # l => loops'[k] = loops[k]
  BY <1>0 DEF Tick, TypeOK, LoopState, IdleLoop
<1>2. CASE UNCHANGED trades
  <2>1. RecordsFollowLoops' /\ Begun' = Begun /\ Recorded' = Recorded
    BY <1>0, <1>1, <1>2, RecordsStay
  <2> QED
    BY <1>2, <2>1, LedgerUnchanged DEF Tick, Exited
<1>3. ASSUME NEW b \in Batches,
             trades' = [t \in TradeIds |-> IF \E i \in DOMAIN b : b[i] = t
                                           THEN [trades[t] EXCEPT !.status = "scanned"]
                                           ELSE trades[t]]
      PROVE  RecordsFollowLoops' /\ UNCHANGED Ledger!vars
  <2>1. \A i \in DOMAIN b : b[i] \in TradeIds /\ trades[b[i]].status = "new"
    BY BatchFacts
  <2>2. ASSUME NEW t \in TradeIds
        PROVE  /\ trades'[t].engine = trades[t].engine
               /\ \/ trades'[t].status = trades[t].status
                  \/ trades[t].status = "new" /\ trades'[t].status = "scanned"
    BY <1>0, <1>3, <2>1 DEF TradeState
  <2>3. Begun' = Begun /\ Recorded' = Recorded
    BY <2>2 DEF Begun, Recorded
  <2>4. ASSUME NEW k \in Loops, loops'[k].pc \in {"executing", "publishTrade"}
        PROVE  /\ loops'[k] = loops[k] /\ loops[k].trade \in TradeIds
               /\ trades[loops[k].trade].status # "new"
    <3>1. loops'[k] = loops[k]
      BY <1>1, <2>4
    <3> QED
      BY <1>0, <2>4, <3>1 DEF LedgerInv, LimitsInv, OneHolder, FlyingAreStarted, InFlight
  <2>5. RecordsFollowLoops'
    BY <1>0, <2>2, <2>3, <2>4 DEF RecordsFollowLoops
  <2> QED
    BY <2>3, <2>5, LedgerUnchanged DEF Tick, Exited
<1> QED
  BY <1>2, <1>3 DEF Tick

(* The request to the engine begins a trade.                               *)
LEMMA ExecuteBegins ==
  ASSUME LedgerInv, NEW l \in Loops, Execute(l)
  PROVE  RecordsFollowLoops' /\ \E t \in TradeIds : Ledger!Begin(t)
<1>0. /\ TypeOK /\ OneHolder /\ RecordsFollowLoops /\ risk \in RiskState
      /\ \A k \in Loops : loops[k] \in LoopState
      /\ \A t \in TradeIds : trades[t] \in TradeState
  BY DEF LedgerInv, LimitsInv, TypeOK
<1>1. PICK t \in TradeIds :
        /\ AtRoute(l, t) /\ Accepted(t)
        /\ loops' = [loops EXCEPT ![l] = [pc |-> "executing", batch |-> Tail(@.batch),
                                          trade |-> t]]
        /\ risk' = StartTrade(risk, t)
        /\ trades' = [trades EXCEPT ![t] = [status |-> "pending",
                                            wallet |-> currentIndex % activeWallets,
                                            engine |-> "asked"]]
  BY DEF Execute
<1>2. trades[t].status = "scanned" /\ trades[t].engine = "none"
  BY <1>0, <1>1, HoldersNextRoute DEF RecordsFollowLoops
<1>3. risk'.activeTrades = risk.activeTrades \cup {t}
  <2>1. HasFreeSlot(risk)
    BY <1>1 DEF Accepted, ValidateOpportunity
  <2> QED
    BY <1>0, <1>1, <2>1, TradeLifecycleFields, Zenon
<1>4. /\ \A u \in TradeIds : u # t => trades'[u] = trades[u]
      /\ trades'[t].status = "pending" /\ trades'[t].engine = "asked"
  BY <1>0, <1>1 DEF TypeOK
<1>5. Begun' = Begun \cup {t} /\ Recorded' = Recorded /\ t \notin Begun
  BY <1>2, <1>4 DEF Begun, Recorded
<1>6. RecordsFollowLoops'
  <2>1. /\ loops'[l].pc = "executing" /\ loops'[l].trade = t
        /\ \A k \in Loops : k # l => loops'[k] = loops[k]
    BY <1>0, <1>1 DEF TypeOK
  <2>2. ASSUME NEW k \in Loops, InFlight(k)
        PROVE  loops[k].trade \in TradeIds /\ loops[k].trade # t
    BY <1>0, <1>2, <2>2 DEF OneHolder, FlyingAreStarted
  <2> QED
    BY <1>0, <1>4, <1>5, <2>1, <2>2 DEF RecordsFollowLoops, InFlight
<1>7. Ledger!Begin(t)
  BY <1>3, <1>5 DEF Ledger!Begin, Execute, AtRoute, Exited
<1> QED
  BY <1>6, <1>7

(* The answer of the engine records it, in every branch.                   *)
LEMMA AnswerRecords ==
  ASSUME LedgerInv, NEW l \in Loops, NEW answer \in {"earned", "failed"},
         EngineAnswers(l, answer)
  PROVE  RecordsFollowLoops' /\ \E t \in TradeIds : Ledger!Record(t)
<1>0. /\ TypeOK /\ OneHolder /\ RecordsFollowLoops /\ risk \in RiskState
      /\ ActiveTradesAreInFlight
      /\ \A k \in Loops : loops[k] \in LoopState
      /\ \A t \in TradeIds : trades[t] \in TradeState
  BY DEF LedgerInv, LimitsInv, TypeOK
<1>1. PICK t \in TradeIds :
        /\ ~Exited
        /\ loops[l].pc = "executing" /\ loops[l].trade = t
        /\ trades' = [trades EXCEPT
                        ![t].status = IF answer = "earned" THEN "submitted" ELSE "confirmed",
                        ![t].engine = answer]
        /\ tradesExecuted' = tradesExecuted + Counted(answer)
        /\ totalProfit' = totalProfit + RouteOf[t].netProfit
        /\ risk' = RecordProfit(risk, RouteOf[t].netProfit)
        /\ tradeHistory' = Pushed(t)
        /\ loops' = [loops EXCEPT ![l].pc = "publishTrade"]
        /\ UNCHANGED shutdown
  BY DEF EngineAnswers
<1>2. trades[t].status = "pending" /\ t \in risk.activeTrades
  BY <1>0, <1>1 DEF RecordsFollowLoops, ActiveTradesAreInFlight, InFlight
<1>3. risk'.activeTrades = risk.activeTrades
  BY <1>0, <1>1, RouteType, RecordProfitFields, Zenon
<1>4. /\ \A u \in TradeIds : u # t => trades'[u] = trades[u]
      /\ trades'[t].status \in {"submitted", "confirmed"} /\ trades'[t].engine = answer
  BY <1>0, <1>1 DEF TypeOK, TradeState
<1>5. trades[t].engine # "none"
  BY <1>0, <1>2 DEF RecordsFollowLoops
<1>6. Begun' = Begun /\ Recorded' = Recorded \cup {t} /\ t \notin Recorded
  BY <1>2, <1>4, <1>5 DEF Begun, Recorded
<1>7. RecordsFollowLoops'
  <2>1. /\ loops'[l].pc = "publishTrade" /\ loops'[l].trade = t
        /\ \A k \in Loops : k # l => loops'[k] = loops[k]
    BY <1>0, <1>1 DEF TypeOK, LoopState
  <2>2. ASSUME NEW k \in Loops, k # l, InFlight(k)
        PROVE  loops[k].trade \in TradeIds /\ loops[k].trade # t
    BY <1>0, <1>1, <2>2 DEF OneHolder, FlyingAreStarted, ActiveTradesAreInFlight, InFlight
  <2> QED
    BY <1>0, <1>4, <1>6, <2>1, <2>2 DEF RecordsFollowLoops, InFlight
<1>8. tradeHistory' = IF Len(tradeHistory) < HistoryCap THEN Append(tradeHistory, t)
                      ELSE Append(Tail(tradeHistory), t)
  <2>1. /\ tradeHistory \in Seq(TradeIds) /\ Len(tradeHistory) <= HistoryCap
        /\ HistoryCap \in Nat \ {0}
    BY <1>0, OrchestratorConstants DEF TypeOK
  <2>2. CASE Len(tradeHistory) < HistoryCap
    BY <1>1, <2>1, <2>2 DEF Pushed
  <2>3. CASE Len(tradeHistory) = HistoryCap
    <3>1. Len(Append(tradeHistory, t)) > HistoryCap /\ tradeHistory # << >>
      BY <2>1, <2>3
    <3>2. Tail(Append(tradeHistory, t)) = Append(Tail(tradeHistory), t)
      BY <2>1, <3>1
    <3> QED
      BY <1>1, <2>3, <3>1, <3>2 DEF Pushed
  <2> QED
    BY <2>1, <2>2, <2>3
<1>9. Ledger!Record(t)
  BY <1>1, <1>2, <1>3, <1>6, <1>8 DEF Ledger!Record, Exited, Counted
<1> QED
  BY <1>7, <1>9

(* The end of publishTrade settles it.                                     *)
LEMMA PublishedSettles ==
  ASSUME LedgerInv, NEW l \in Loops, TradePublished(l)
  PROVE  RecordsFollowLoops' /\ \E t \in TradeIds : Ledger!Settle(t)
<1>0. /\ TypeOK /\ OneHolder /\ RecordsFollowLoops /\ risk \in RiskState
      /\ ActiveTradesAreInFlight
      /\ \A k \in Loops : loops[k] \in LoopState
  BY DEF LedgerInv, LimitsInv, TypeOK
<1>1. /\ ~Exited
      /\ loops[l].pc = "publishTrade"
      /\ risk' = CompleteTrade(risk, loops[l].trade)
      /\ loops' = [loops EXCEPT ![l].pc = "next", ![l].trade = NoTrade]
      /\ UNCHANGED <<shutdown, trades, tradesExecuted, totalProfit, tradeHistory>>
  BY DEF TradePublished, books
<1>2. /\ loops'[l].pc = "next"
      /\ \A k \in Loops : k # l => loops'[k] = loops[k]
  BY <1>0, <1>1 DEF TypeOK, LoopState
<1>3. RecordsFollowLoops' /\ Begun' = Begun /\ Recorded' = Recorded
  BY <1>0, <1>1, <1>2, RecordsStay
<1>4. risk'.activeTrades = risk.activeTrades \ {loops[l].trade}
  BY <1>0, <1>1, TradeLifecycleFields, Zenon
<1>5. /\ loops[l].trade \in Recorded /\ loops[l].trade \in risk.activeTrades
      /\ loops[l].trade \in TradeIds
  BY <1>0, <1>1 DEF RecordsFollowLoops, ActiveTradesAreInFlight, InFlight, Recorded
<1>6. Ledger!Settle(loops[l].trade)
  BY <1>1, <1>3, <1>4, <1>5 DEF Ledger!Settle, Exited
<1> QED
  BY <1>3, <1>5, <1>6

(* Every step of the process is a step of the ledger or leaves it alone.   *)
LEMMA LedgerStep ==
  ASSUME LedgerInv, [Next]_vars
  PROVE  RecordsFollowLoops' /\ [Ledger!Next]_(Ledger!vars)
<1> USE DEF books, rotation
<1>0. /\ TypeOK /\ RecordsFollowLoops /\ LimitsInv
      /\ \A l \in Loops : loops[l] \in LoopState
  BY DEF LedgerInv, LimitsInv, TypeOK
<1>1. ASSUME UNCHANGED <<trades, tradesExecuted, totalProfit, tradeHistory>>,
             Exited' = Exited, \A l \in Loops : ~Execute(l) /\ ~TradePublished(l),
             \A l \in Loops : loops'[l].pc \in {"executing", "publishTrade"} =>
                                loops'[l].pc = loops[l].pc /\ loops'[l].trade = loops[l].trade
      PROVE  RecordsFollowLoops' /\ UNCHANGED Ledger!vars
  <2>1. RecordsFollowLoops' /\ Begun' = Begun /\ Recorded' = Recorded
    BY <1>0, <1>1, RecordsStay
  <2>2. risk'.activeTrades = risk.activeTrades
    BY <1>0, <1>1, OnlyTradesChangeSlots
  <2> QED
    BY <1>1, <2>1, <2>2, LedgerUnchanged
<1>2. ASSUME NEW l \in Loops, Tick(l)
      PROVE  RecordsFollowLoops' /\ [Ledger!Next]_(Ledger!vars)
  BY <1>2, ScanKeepsLedger
<1>3. ASSUME NEW l \in Loops, Execute(l)
      PROVE  RecordsFollowLoops' /\ [Ledger!Next]_(Ledger!vars)
  BY <1>3, ExecuteBegins DEF Ledger!Next
<1>4. ASSUME NEW l \in Loops, NEW answer \in {"earned", "failed"}, EngineAnswers(l, answer)
      PROVE  RecordsFollowLoops' /\ [Ledger!Next]_(Ledger!vars)
  BY <1>4, AnswerRecords DEF Ledger!Next
<1>5. ASSUME NEW l \in Loops, TradePublished(l)
      PROVE  RecordsFollowLoops' /\ [Ledger!Next]_(Ledger!vars)
  BY <1>5, PublishedSettles DEF Ledger!Next
<1>6. CASE Exit
  <2>1. ~Exited /\ Exited' /\ UNCHANGED <<loops, risk, trades, tradesExecuted, totalProfit, tradeHistory>>
    BY <1>6 DEF Exit, Exited
  <2>2. RecordsFollowLoops' /\ Begun' = Begun /\ Recorded' = Recorded
    BY <1>0, <2>1, RecordsStay
  <2>3. Ledger!Close
    BY <2>1, <2>2 DEF Ledger!Close, Exited
  <2> QED
    BY <2>2, <2>3 DEF Ledger!Next
<1>7. CASE \A l \in Loops : ~Execute(l) /\ ~TradePublished(l)
  <2>1. CASE FinishStart \/ Resume
    <3>1. PICK l \in Loops : StartScanLoop(l)
      BY <2>1 DEF FinishStart, Resume
    <3>2. \A k \in Loops : loops'[k] = loops[k] \/ loops'[k].pc = "timer"
      BY <3>1 DEF StartScanLoop, TimedLoop, TypeOK
    <3>3. UNCHANGED <<trades, tradesExecuted, totalProfit, tradeHistory>> /\ Exited' = Exited
      BY <2>1 DEF FinishStart, Resume, Exited
    <3> QED
      BY <1>1, <1>7, <3>2, <3>3
  <2>2. ASSUME NEW l \in Loops, Reject(l) \/ DropWithoutWallet(l)
        PROVE  RecordsFollowLoops' /\ UNCHANGED Ledger!vars
    <3>1. loops' = [loops EXCEPT ![l] = [loops[l] EXCEPT !.batch = Tail(@)]]
      BY <2>2 DEF Reject, DropWithoutWallet, NextRoute
    <3>2. \A k \in Loops : loops'[k].pc = loops[k].pc /\ loops'[k].trade = loops[k].trade
      BY <1>0, <3>1 DEF TypeOK, LoopState
    <3>3. UNCHANGED <<trades, tradesExecuted, totalProfit, tradeHistory>> /\ Exited' = Exited
      BY <2>2 DEF Reject, DropWithoutWallet, Exited
    <3> QED
      BY <1>1, <1>7, <3>2, <3>3
  <2>3. ASSUME NEW l \in Loops, FinishScan(l) \/ ScanPublished(l)
        PROVE  RecordsFollowLoops' /\ UNCHANGED Ledger!vars
    <3>1. \A k \in Loops : loops'[k] = loops[k]
                           \/ loops'[k].pc \in {"publishScan", "timer", "idle"}
      BY <1>0, <2>3 DEF FinishScan, ScanPublished, TypeOK, LoopState, TimedLoop, IdleLoop
    <3>2. UNCHANGED <<trades, tradesExecuted, totalProfit, tradeHistory>> /\ Exited' = Exited
      BY <2>3 DEF FinishScan, ScanPublished, Exited
    <3> QED
      BY <1>1, <1>7, <3>1, <3>2
  <2>4. CASE Stop
    <3>1. \A k \in Loops : loops'[k] = loops[k] \/ loops'[k].pc = "idle"
      BY <2>4 DEF Stop, TypeOK, IdleLoop
    <3>2. UNCHANGED <<trades, tradesExecuted, totalProfit, tradeHistory>> /\ Exited' = Exited
      BY <2>4 DEF Stop, Exited
    <3> QED
      BY <1>1, <1>7, <3>1, <3>2
  <2>5. CASE ConnectRedis \/ Pause \/ ApiClosed \/ Midnight \/ Gone
               \/ (\E p \in Payloads : Configure(p)) \/ UNCHANGED vars
    <3>1. /\ UNCHANGED <<loops, trades, tradesExecuted, totalProfit, tradeHistory>>
          /\ Exited' = Exited
      BY <2>5 DEF ConnectRedis, Pause, ApiClosed, Midnight, Gone, Configure, vars, Exited
    <3> QED
      BY <1>1, <1>7, <3>1
  <2> QED
    BY <1>2, <1>4, <1>6, <1>7, <2>1, <2>2, <2>3, <2>4, <2>5 DEF Next, LoopStep
<1> QED
  BY <1>3, <1>5, <1>7

(* The ledger begins empty.                                                *)
LEMMA LedgerInit == Init => RecordsFollowLoops /\ Ledger!Init
<1> SUFFICES ASSUME Init PROVE RecordsFollowLoops /\ Ledger!Init
  OBVIOUS
<1>1. /\ \A l \in Loops : loops[l].pc = "idle"
      /\ \A t \in TradeIds : trades[t].engine = "none" /\ trades[t].status = "new"
  BY DEF Init, IdleLoop, NewTrade
<1>2. Begun = {} /\ Recorded = {}
  BY <1>1 DEF Begun, Recorded
<1>3. risk.activeTrades = {}
  BY Zenon DEF Init, NewRiskManager
<1>4. tradesExecuted = 0 /\ totalProfit = 0 /\ tradeHistory = << >> /\ ~Exited
  BY DEF Init, Exited
<1> QED
  BY <1>1, <1>2, <1>3, <1>4 DEF RecordsFollowLoops, Ledger!Init

(* The process implements the ledger: no route is traded twice and every   *)
(* answer is recorded once, for every number of loops and whatever         *)
(* commands, midnights and shutdowns come in between.                      *)
THEOREM LedgerIsKept == Spec => KeepsLedger
<1>1. LedgerInv <=> LimitsInv /\ RecordsFollowLoops
  BY DEF LedgerInv
<1>2. LedgerInv /\ [Next]_vars => RecordsFollowLoops' /\ [Ledger!Next]_(Ledger!vars)
  BY LedgerStep
<1> QED
  BY <1>1, <1>2, LedgerInit, LimitsInvariant, PTL DEF Spec, KeepsLedger, Ledger!Spec

-----------------------------------------------------------------------------
(* Nothing is lost                                                         *)

(* What the ledger's own argument needs of its books.                      *)
BooksTyped ==
  /\ IsFiniteSet(Recorded)
  /\ tradesExecuted \in Nat
  /\ tradeHistory \in Seq(TradeIds)

(* The ledger counts with the same Cardinality.                            *)
LEMMA LedgerCardinality == \A S : Ledger!Cardinality(S) = Cardinality(S)
  BY DEF Cardinality, Ledger!Cardinality

(* A recorded trade is new to the history, and drops the oldest at most.   *)
LEMMA HistoryAfter ==
  ASSUME BooksTyped, NothingLost, NEW t \in TradeIds, Ledger!Record(t)
  PROVE  /\ tradeHistory' \in Seq(TradeIds)
         /\ \A i \in DOMAIN tradeHistory' : tradeHistory'[i] \in Recorded'
         /\ \A i, j \in DOMAIN tradeHistory' : tradeHistory'[i] = tradeHistory'[j] => i = j
         /\ Len(tradeHistory') = IF tradesExecuted' > HistoryCap THEN HistoryCap
                                 ELSE tradesExecuted'
<1> DEFINE h == tradeHistory
           n == Len(h)
<1>0. /\ HistoryCap \in Nat \ {0}
      /\ h \in Seq(TradeIds) /\ n \in Nat
      /\ tradesExecuted \in Nat /\ tradesExecuted' = tradesExecuted + 1
      /\ Recorded' = Recorded \cup {t} /\ t \notin Recorded
      /\ \A i \in 1..n : h[i] \in Recorded
      /\ \A i, j \in 1..n : h[i] = h[j] => i = j
      /\ n = IF tradesExecuted > HistoryCap THEN HistoryCap ELSE tradesExecuted
  BY OrchestratorConstants DEF BooksTyped, NothingLost, Ledger!NothingLost, Ledger!Record
<1>1. CASE n < HistoryCap
  <2>1. h' = Append(h, t)
    BY <1>1 DEF Ledger!Record
  <2>2. /\ h' \in Seq(TradeIds) /\ Len(h') = n + 1
        /\ \A i \in 1..n : h'[i] = h[i]
        /\ h'[n + 1] = t
    BY <1>0, <2>1
  <2>3. DOMAIN h' = 1..n \cup {n + 1}
    <3>1. DOMAIN h' = 1..n + 1
      BY <2>2
    <3> QED
      BY <1>0, <3>1
  <2> QED
    BY <1>0, <1>1, <2>2, <2>3
<1>2. CASE n = HistoryCap
  <2>1. h' = Append(Tail(h), t)
    BY <1>2 DEF Ledger!Record
  <2>2. /\ h' \in Seq(TradeIds) /\ Len(h') = n
        /\ \A i \in 1..n - 1 : h'[i] = h[i + 1]
        /\ h'[n] = t
    BY <1>0, <1>2, <2>1
  <2>3. DOMAIN h' = 1..n - 1 \cup {n}
    <3>1. DOMAIN h' = 1..n
      BY <2>2
    <3> QED
      BY <1>0, <1>2, <3>1
  <2>4. \A i \in 1..n - 1 : i \in Nat /\ i + 1 \in 1..n
    BY <1>0
  <2> QED
    BY <1>0, <1>2, <2>2, <2>3, <2>4
<1> QED
  BY <1>0, <1>1, <1>2

(* The books of the ledger keep their own promise.                         *)
LEMMA LedgerLosesNothing ==
  ASSUME BooksTyped, NothingLost, [Ledger!Next]_(Ledger!vars)
  PROVE  BooksTyped' /\ NothingLost'
<1> USE DEF BooksTyped, NothingLost, Ledger!NothingLost
<1>1. ASSUME NEW t \in TradeIds, Ledger!Record(t) PROVE BooksTyped' /\ NothingLost'
  <2>1. /\ tradesExecuted' = tradesExecuted + 1 /\ Begun' = Begun
        /\ Recorded' = Recorded \cup {t} /\ t \notin Recorded
        /\ t \in risk.activeTrades /\ risk'.activeTrades = risk.activeTrades
    BY <1>1 DEF Ledger!Record
  <2>2. IsFiniteSet(Recorded') /\ Cardinality(Recorded') = Cardinality(Recorded) + 1
    BY <2>1, FS_AddElement, Zenon
  <2> QED
    BY <1>1, <2>1, <2>2, HistoryAfter, LedgerCardinality
<1>2. ASSUME NEW t \in TradeIds, Ledger!Begin(t) \/ Ledger!Settle(t)
      PROVE  BooksTyped' /\ NothingLost'
  BY <1>2 DEF Ledger!Begin, Ledger!Settle
<1>3. CASE Ledger!Close \/ UNCHANGED Ledger!vars
  BY <1>3 DEF Ledger!Close, Ledger!vars
<1> QED
  BY <1>1, <1>2, <1>3 DEF Ledger!Next

(* A trade that was begun is in the books or still holds its slot, when    *)
(* the process has exited too, and the history shows the latest recorded   *)
(* trades, none twice.                                                     *)
THEOREM NothingIsLost == Spec => []NothingLost
<1>1. Init => BooksTyped /\ NothingLost
  <2> SUFFICES ASSUME Init PROVE BooksTyped /\ NothingLost
    OBVIOUS
  <2>1. /\ Begun = {} /\ Recorded = {} /\ risk.activeTrades = {}
        /\ tradesExecuted = 0 /\ tradeHistory = << >>
    BY LedgerInit DEF Ledger!Init
  <2>2. IsFiniteSet(Recorded) /\ Cardinality(Recorded) = 0
    BY <2>1, FS_EmptySet
  <2> QED
    BY <2>1, <2>2, OrchestratorConstants, LedgerCardinality DEF BooksTyped, NothingLost, Ledger!NothingLost
<1>2. BooksTyped /\ NothingLost /\ [Ledger!Next]_(Ledger!vars) => BooksTyped' /\ NothingLost'
  BY LedgerLosesNothing
<1> QED
  BY <1>1, <1>2, LedgerIsKept, PTL DEF Spec, KeepsLedger, Ledger!Spec

-----------------------------------------------------------------------------
(* Wallets                                                                 *)

(* q rounds are over, and the wallets before currentIndex have had one     *)
(* trade more.                                                             *)
RoundsOver(q) ==
  \A w \in 0..activeWallets - 1 :
    /\ IsFiniteSet(Carried(w))
    /\ Cardinality(Carried(w)) = IF w < currentIndex THEN q + 1 ELSE q

(* Why the shares are fair: the rotation stands where the trades given out *)
(* have left it, and no trade has a wallet before it is executed.          *)
RotationInv ==
  /\ boot = "connecting" => activeWallets = 0
  /\ activeWallets = 0 => currentIndex = 0 /\ \A t \in TradeIds : trades[t].wallet = NoWallet
  /\ activeWallets > 0 => currentIndex \in 0..activeWallets - 1
  /\ \A t \in TradeIds : trades[t].status \in {"new", "scanned"} => trades[t].wallet = NoWallet
  /\ \E q \in Nat : RoundsOver(q)

(* A step that gives no wallet to a trade leaves the rounds as they are.   *)
LEMMA RotationStays ==
  ASSUME RotationInv, UNCHANGED rotation, boot' = "connecting" => boot = "connecting",
         \A t \in TradeIds : /\ trades'[t].wallet = trades[t].wallet
                             /\ trades'[t].status \in {"new", "scanned"} =>
                                  trades[t].status \in {"new", "scanned"}
  PROVE  RotationInv'
<1>1. \A w : Carried(w)' = Carried(w)
  BY DEF Carried
<1>2. PICK q \in Nat : RoundsOver(q)
  BY DEF RotationInv
<1>3. RoundsOver(q)'
  BY <1>1, <1>2 DEF RoundsOver, rotation
<1>4. \E r \in Nat : RoundsOver(r)'
  BY <1>3
<1> QED
  BY <1>4 DEF RotationInv, rotation

(* The wallets are loaded while no trade has any.                          *)
LEMMA WalletsAreLoaded ==
  ASSUME TypeOK, RotationInv, ConnectRedis
  PROVE  RotationInv'
<1>0. PICK n \in 0..Wallets : activeWallets' = n
  BY DEF ConnectRedis, LoadFromEnv
<1>1. /\ boot' = "loading" /\ Wallets \in Nat
      /\ UNCHANGED <<currentIndex, trades>>
      /\ currentIndex = 0 /\ \A t \in TradeIds : trades[t].wallet = NoWallet
  BY OrchestratorConstants DEF RotationInv, ConnectRedis, LoadFromEnv, books
<1>2. ASSUME NEW w \in 0..n - 1
      PROVE  IsFiniteSet(Carried(w)') /\ Cardinality(Carried(w)') = 0
  <2>1. w # NoWallet
    BY <1>1 DEF NoWallet
  <2>2. Carried(w)' = {}
    BY <1>1, <2>1 DEF Carried
  <2> QED
    BY <2>2, FS_EmptySet
<1>3. RoundsOver(0)'
  <2>1. \A w \in 0..n - 1 : ~(w < 0)
    OBVIOUS
  <2> QED
    BY <1>0, <1>1, <1>2, <2>1 DEF RoundsOver
<1>4. \E q \in Nat : RoundsOver(q)'
  BY <1>3
<1>5. n > 0 => 0 \in 0..n - 1
  OBVIOUS
<1> QED
  BY <1>0, <1>1, <1>4, <1>5 DEF RotationInv

(* A trade goes to the wallet whose turn it is.                            *)
LEMMA NextWalletsTurn ==
  ASSUME TypeOK, OneHolder, RotationInv, NEW l \in Loops, Execute(l)
  PROVE  RotationInv'
<1> DEFINE n == activeWallets
           i == currentIndex
<1>1. PICK t \in TradeIds :
        /\ AtRoute(l, t)
        /\ trades' = [trades EXCEPT ![t] = [status |-> "pending",
                                            wallet |-> i % n,
                                            engine |-> "asked"]]
  BY DEF Execute
<1>2. /\ n \in Nat /\ n > 0 /\ i \in 0..n - 1 /\ n \in 0..Wallets /\ Wallets \in Nat
      /\ boot' = boot /\ n' = n
  BY OrchestratorConstants DEF Execute, RotationInv, TypeOK
<1>3. i % n = i /\ i' = IF i + 1 = n THEN 0 ELSE i + 1
  <2>1. i' = (i + 1) % n
    BY DEF Execute, WalletAfter
  <2> QED
    BY <1>2, <2>1
<1>4. trades[t].wallet = NoWallet
  BY <1>1, HoldersNextRoute DEF RotationInv
<1>5. /\ \A u \in TradeIds : u # t => trades'[u] = trades[u]
      /\ trades'[t].wallet = i /\ trades'[t].status = "pending"
  BY <1>1, <1>3 DEF TypeOK
<1>6. PICK q \in Nat : RoundsOver(q)
  BY DEF RotationInv
<1>7. ASSUME NEW w \in 0..n - 1
      PROVE  /\ IsFiniteSet(Carried(w)')
             /\ Cardinality(Carried(w)') = IF w = i THEN q + 1 ELSE Cardinality(Carried(w))
  <2>1. IsFiniteSet(Carried(w)) /\ Cardinality(Carried(w)) = IF w < i THEN q + 1 ELSE q
    BY <1>6, <1>7 DEF RoundsOver
  <2>2. w # NoWallet
    BY <1>2 DEF NoWallet
  <2>3. CASE w = i
    <3>1. Carried(w)' = Carried(w) \cup {t} /\ t \notin Carried(w)
      BY <1>4, <1>5, <2>2, <2>3 DEF Carried
    <3>2. /\ IsFiniteSet(Carried(w) \cup {t})
          /\ Cardinality(Carried(w) \cup {t}) = Cardinality(Carried(w)) + 1
      BY <2>1, <3>1, FS_AddElement
    <3> QED
      BY <1>2, <2>1, <2>3, <3>1, <3>2
  <2>4. CASE w # i
    <3>1. Carried(w)' = Carried(w)
      BY <1>4, <1>5, <2>2, <2>4 DEF Carried
    <3> QED
      BY <2>1, <2>4, <3>1
  <2> QED
    BY <2>3, <2>4
<1>8. \E r \in Nat : RoundsOver(r)'
  <2>1. CASE i + 1 = n
    <3>1. ASSUME NEW w \in 0..n - 1
          PROVE  IsFiniteSet(Carried(w)') /\ Cardinality(Carried(w)') = q + 1
      <4>1. w = i \/ w < i
        BY <1>2, <2>1
      <4> QED
        BY <1>6, <1>7, <4>1 DEF RoundsOver
    <3>2. RoundsOver(q + 1)'
      BY <1>2, <1>3, <2>1, <3>1 DEF RoundsOver
    <3> QED
      BY <3>2
  <2>2. CASE i + 1 # n
    <3>1. ASSUME NEW w \in 0..n - 1
          PROVE  /\ IsFiniteSet(Carried(w)')
                 /\ Cardinality(Carried(w)') = IF w < i + 1 THEN q + 1 ELSE q
      <4>1. (w < i + 1) <=> (w = i \/ w < i)
        BY <1>2
      <4> QED
        BY <1>2, <1>6, <1>7, <4>1 DEF RoundsOver
    <3>2. RoundsOver(q)'
      BY <1>2, <1>3, <2>2, <3>1 DEF RoundsOver
    <3> QED
      BY <3>2
  <2> QED
    BY <2>1, <2>2
<1>9. i' \in 0..n - 1
  BY <1>2, <1>3
<1> QED
  BY <1>2, <1>5, <1>8, <1>9 DEF RotationInv

(* Every step keeps the rotation in step with the trades.                  *)
LEMMA RotationStep == TypeOK /\ OneHolder /\ RotationInv /\ [Next]_vars => RotationInv'
<1> SUFFICES ASSUME TypeOK, OneHolder, RotationInv, [Next]_vars PROVE RotationInv'
  OBVIOUS
<1>1. CASE UNCHANGED <<rotation, trades>> /\ (boot' = boot \/ boot' = "up")
  BY <1>1, RotationStays
<1>2. CASE ConnectRedis
  BY <1>2, WalletsAreLoaded
<1>3. ASSUME NEW l \in Loops, Execute(l) PROVE RotationInv'
  BY <1>3, NextWalletsTurn
<1>4. ASSUME NEW l \in Loops, Tick(l) PROVE RotationInv'
  <2>1. CASE UNCHANGED trades
    BY <1>1, <1>4, <2>1 DEF Tick
  <2>2. ASSUME NEW b \in Batches,
               trades' = [t \in TradeIds |-> IF \E i \in DOMAIN b : b[i] = t
                                             THEN [trades[t] EXCEPT !.status = "scanned"]
                                             ELSE trades[t]]
        PROVE  RotationInv'
    <3>1. \A i \in DOMAIN b : trades[b[i]].status = "new"
      BY BatchFacts
    <3>2. \A t \in TradeIds : /\ trades'[t].wallet = trades[t].wallet
                              /\ trades'[t].status \in {"new", "scanned"} =>
                                   trades[t].status \in {"new", "scanned"}
      BY <2>2, <3>1 DEF TypeOK, TradeState
    <3> QED
      BY <1>4, <3>2, RotationStays DEF Tick
  <2> QED
    BY <1>4, <2>1, <2>2 DEF Tick
<1>5. ASSUME NEW l \in Loops, NEW answer \in {"earned", "failed"}, EngineAnswers(l, answer)
      PROVE  RotationInv'
  <2>1. PICK t \in TradeIds :
          trades' = [trades EXCEPT
                       ![t].status = IF answer = "earned" THEN "submitted" ELSE "confirmed",
                       ![t].engine = answer]
    BY <1>5 DEF EngineAnswers
  <2>2. \A u \in TradeIds : /\ trades'[u].wallet = trades[u].wallet
                            /\ trades'[u].status \in {"new", "scanned"} =>
                                 trades[u].status \in {"new", "scanned"}
    BY <2>1 DEF TypeOK, TradeState
  <2> QED
    BY <1>5, <2>2, RotationStays DEF EngineAnswers
<1>6. ASSUME NEW l \in Loops,
             Reject(l) \/ DropWithoutWallet(l) \/ FinishScan(l) \/ TradePublished(l)
                       \/ ScanPublished(l)
      PROVE  RotationInv'
  BY <1>1, <1>6 DEF Reject, DropWithoutWallet, FinishScan, TradePublished, ScanPublished, books
<1>7. CASE FinishStart \/ Pause \/ Resume \/ (\E p \in Payloads : Configure(p)) \/ Stop
             \/ ApiClosed \/ Exit \/ Midnight \/ Gone \/ UNCHANGED vars
  BY <1>1, <1>7 DEF FinishStart, Pause, Resume, Configure, Stop, ApiClosed, Exit, Midnight,
                    Gone, vars, books, rotation
<1> QED
  BY <1>2, <1>3, <1>4, <1>5, <1>6, <1>7 DEF Next, LoopStep

(* No wallet is given two trades more than another, for every number of    *)
(* wallets and of loops that share the rotation (getNextWallet).           *)
THEOREM WalletsAreFair == Spec => []WalletsShareTrades
<1>1. Init => RotationInv
  <2> SUFFICES ASSUME Init PROVE RotationInv
    OBVIOUS
  <2>1. activeWallets = 0 /\ currentIndex = 0 /\ \A t \in TradeIds : trades[t] = NewTrade
    BY DEF Init
  <2>2. RoundsOver(0)
    BY <2>1 DEF RoundsOver
  <2>3. \E q \in Nat : RoundsOver(q)
    BY <2>2
  <2> QED
    BY <2>1, <2>3 DEF RotationInv, NewTrade
<1>2. RotationInv => WalletsShareTrades
  <2> SUFFICES ASSUME RotationInv, NEW v \in 0..activeWallets - 1,
                      NEW w \in 0..activeWallets - 1
               PROVE  Cardinality(Carried(v)) <= Cardinality(Carried(w)) + 1
    BY DEF WalletsShareTrades
  <2>1. PICK q \in Nat : RoundsOver(q)
    BY DEF RotationInv
  <2>2. /\ Cardinality(Carried(v)) \in {q, q + 1}
        /\ Cardinality(Carried(w)) \in {q, q + 1}
    BY <2>1 DEF RoundsOver
  <2> QED
    BY <2>2
<1>3. Spec => []OneHolder
  BY InitHolder, HolderStep, TypeCorrect, PTL DEF Spec
<1> QED
  BY <1>1, <1>2, <1>3, RotationStep, TypeCorrect, PTL DEF Spec
=============================================================================
