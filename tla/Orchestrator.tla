---------------------------- MODULE Orchestrator ----------------------------
(***************************************************************************)
(* SolAribotOrchestrator (orchestrator/src/index.ts) with the RiskManager  *)
(* and WalletManager it calls, the Redis commands it obeys and the parts   *)
(* of the API server it writes to.                                         *)
(*                                                                         *)
(* The program is one Node.js thread: what a handler does up to its next   *)
(* await is one step, and a handler runs only when no continuation is      *)
(* waiting in the microtask queue (MicrotasksDrained).  Every call of      *)
(* startScanLoop starts a loop of its own, here a member of Loops.         *)
(*                                                                         *)
(* A trade has the id of its route, a fresh UUID, so TradeIds also names   *)
(* the routes; the scanner produces each of them at most once.             *)
(***************************************************************************)
EXTENDS RiskPolicy

CONSTANTS
  Loops,        \* bound: scan loops that may be alive at once
  Wallets,      \* bound: wallet keys in the environment
  RouteOf,      \* what validateOpportunity reads of each route
  EnvConfig,    \* getRiskConfig()
  Payloads,     \* the payloads of update_config commands
  MaxBatch,     \* bound: opportunities one scan returns
  HistoryCap    \* trades the API server keeps (1000 in the code)

NoTrade  == "noTrade"
NoLoop   == "noLoop"
NoWallet == Wallets

ASSUME OrchestratorConstants ==
  /\ Wallets \in Nat
  /\ MaxBatch \in Nat
  /\ HistoryCap \in Nat \ {0}
  /\ EnvConfig \in RiskConfig
  /\ \A p \in Payloads : IsPayload(p)
  /\ \A t \in TradeIds : IsRoute(RouteOf[t])
  /\ NoTrade \notin TradeIds
  /\ NoLoop \notin Loops

VARIABLES
  boot,          \* how far start() has come
  commandsOn,    \* the Redis subscriptions deliver commands
  isRunning,
  scanInterval,  \* the loop whose timer was stored last
  loops,         \* where each scan loop is suspended
  shutdown,      \* how far stop() has come
  risk,          \* the private state of the RiskManager
  activeWallets, \* how many wallets take part in the rotation
  currentIndex,  \* wallet rotation
  trades,        \* what the process, and the engine, know of each trade
  tradesExecuted,
  totalProfit,
  tradeHistory   \* the ids the API server has kept

vars == <<boot, commandsOn, isRunning, scanInterval, loops, shutdown, risk,
          activeWallets, currentIndex, trades, tradesExecuted, totalProfit, tradeHistory>>

(* The WalletManager.                                                      *)
rotation == <<activeWallets, currentIndex>>

(* What the trade handler writes when an answer arrives.                   *)
books == <<trades, tradesExecuted, totalProfit, tradeHistory>>

(* A loop waits for its timer, for its continuation to run ("next"), for   *)
(* the engine, for Redis to take a trade or for Redis to take the list of  *)
(* opportunities; or it is over, or has not begun ("idle").                *)
LoopState ==
  [pc    : {"idle", "timer", "next", "executing", "publishTrade", "publishScan"},
   batch : Seq(TradeIds),
   trade : TradeIds \cup {NoTrade}]

IdleLoop  == [pc |-> "idle",  batch |-> << >>, trade |-> NoTrade]
TimedLoop == [pc |-> "timer", batch |-> << >>, trade |-> NoTrade]

(* A trade's status in its TradeRecord; its wallet; and what the engine    *)
(* made of it, which the process only sees through the answer.             *)
TradeState ==
  [status : {"new", "scanned", "pending", "submitted", "confirmed"},
   wallet : 0..Wallets,
   engine : {"none", "asked", "earned", "failed"}]

NewTrade == [status |-> "new", wallet |-> NoWallet, engine |-> "none"]

Exited == shutdown = "exited"
MicrotasksDrained == \A l \in Loops : loops[l].pc # "next"
InFlight(l) == loops[l].pc \in {"executing", "publishTrade"}
Alive(l) == loops[l].pc # "idle"

TypeOK ==
  /\ boot \in {"connecting", "loading", "up"}
  /\ commandsOn \in BOOLEAN
  /\ isRunning \in BOOLEAN
  /\ scanInterval \in Loops \cup {NoLoop}
  /\ loops \in [Loops -> LoopState]
  /\ shutdown \in {"no", "closingApi", "disconnecting", "exited"}
  /\ risk \in RiskState
  /\ activeWallets \in 0..Wallets
  /\ currentIndex \in Nat
  /\ trades \in [TradeIds -> TradeState]
  /\ tradesExecuted \in Nat
  /\ totalProfit \in Int
  /\ tradeHistory \in Seq(TradeIds)
  /\ Len(tradeHistory) <= HistoryCap

Init ==
  /\ boot = "connecting"
  /\ commandsOn = FALSE
  /\ isRunning = FALSE
  /\ scanInterval = NoLoop
  /\ loops = [l \in Loops |-> IdleLoop]
  /\ shutdown = "no"
  /\ risk = NewRiskManager(EnvConfig)
  /\ activeWallets = 0
  /\ currentIndex = 0
  /\ trades = [t \in TradeIds |-> NewTrade]
  /\ tradesExecuted = 0
  /\ totalProfit = 0
  /\ tradeHistory = << >>

-----------------------------------------------------------------------------
(* Starting                                                                *)

(* A new loop armed with setTimeout(loop, 0); the handle of the timer      *)
(* replaces the one stored before.                                         *)
StartScanLoop(l) ==
  /\ loops[l] = IdleLoop
  /\ loops' = [loops EXCEPT ![l] = TimedLoop]
  /\ scanInterval' = l

(* How many active wallets there may be: one for each key found in the     *)
(* environment or, when there is none, only the inactive placeholder.      *)
LoadFromEnv == 0..Wallets

(* redisClient.connect() settles: with the subscriptions made or, when the *)
(* connection or a subscription fails, without commands for good.  Up to   *)
(* the next await the wallets are loaded.                                  *)
ConnectRedis ==
  /\ ~Exited /\ MicrotasksDrained
  /\ boot = "connecting"
  /\ boot' = "loading"
  /\ commandsOn' \in BOOLEAN
  /\ activeWallets' \in LoadFromEnv
  /\ UNCHANGED <<isRunning, scanInterval, loops, shutdown, risk, currentIndex, books>>

(* Balances are read and the API server listens, or failed to: start()     *)
(* ends by starting the loop and publishing statistics.                    *)
FinishStart ==
  /\ ~Exited /\ MicrotasksDrained
  /\ boot = "loading"
  /\ boot' = "up"
  /\ isRunning' = TRUE
  /\ \E l \in Loops : StartScanLoop(l)
  /\ risk' = CheckDailyReset(risk)
  /\ UNCHANGED <<commandsOn, shutdown, rotation, books>>

-----------------------------------------------------------------------------
(* The scan loop                                                           *)

(* Unused routes, best first: detectAll sorts by net profit.               *)
Batches ==
  LET fresh == {t \in TradeIds : trades[t].status = "new"}
  IN  {b \in UNION {[1..n -> fresh] : n \in 0..MaxBatch} :
         \A i, j \in DOMAIN b :
           i < j => /\ b[i] # b[j]
                    /\ RouteOf[b[i]].netProfit >= RouteOf[b[j]].netProfit}

(* Bug: no loop looks at isRunning.                                        *)
MayScanAnyway == TRUE

(* Looked at when the timer fires and again before it is re-armed.         *)
MayScan == isRunning

(* The timer of the loop fires: the loop scans, or is over when paused.    *)
Tick(l) ==
  /\ ~Exited /\ MicrotasksDrained
  /\ loops[l].pc = "timer"
  /\ \/ /\ ~MayScan
        /\ loops' = [loops EXCEPT ![l] = IdleLoop]
        /\ UNCHANGED trades
     \/ /\ MayScan
        /\ \E b \in Batches :
             /\ loops' = [loops EXCEPT ![l].pc = "next", ![l].batch = b]
             /\ trades' = [t \in TradeIds |->
                             IF \E i \in DOMAIN b : b[i] = t
                             THEN [trades[t] EXCEPT !.status = "scanned"]
                             ELSE trades[t]]
  /\ UNCHANGED <<boot, commandsOn, isRunning, scanInterval, shutdown, risk,
                 rotation, tradesExecuted, totalProfit, tradeHistory>>

(* The next route of the batch is up in loop l.                            *)
AtRoute(l, t) ==
  /\ ~Exited
  /\ loops[l].pc = "next"
  /\ loops[l].batch # << >>
  /\ t = Head(loops[l].batch)

NextRoute(l) == [loops EXCEPT ![l].batch = Tail(@)]

(* Bug: routes are judged by the configuration the process started with.   *)
AcceptedAtStart(t) == ValidateOpportunity([risk EXCEPT !.config = EnvConfig], RouteOf[t])

Accepted(t) == ValidateOpportunity(risk, RouteOf[t])

(* validateOpportunity rejects the route.                                  *)
Reject(l) == \E t \in TradeIds :
  /\ AtRoute(l, t)
  /\ ~Accepted(t)
  /\ loops' = NextRoute(l)
  /\ UNCHANGED <<boot, commandsOn, isRunning, scanInterval, shutdown, risk,
                 rotation, books>>

(* Bug: the early return forgets completeTrade.                            *)
WithoutWalletLeaking(t) == StartTrade(risk, t)

(* The trade is started and, as no wallet is active, completed at once.    *)
WithoutWallet(t) == CompleteTrade(StartTrade(risk, t), t)

DropWithoutWallet(l) == \E t \in TradeIds :
  /\ AtRoute(l, t)
  /\ Accepted(t)
  /\ activeWallets = 0
  /\ loops' = NextRoute(l)
  /\ risk' = WithoutWallet(t)
  /\ UNCHANGED <<boot, commandsOn, isRunning, scanInterval, shutdown,
                 rotation, books>>

(* Bug: the rotation starts over with every second wallet.                 *)
WalletAfterSkipping(i) == (i + 2) % activeWallets

WalletAfter(i) == (i + 1) % activeWallets

(* executeOpportunity up to the request to the engine.  Its startTrade     *)
(* looks for a free slot again, which validation has just found.           *)
Execute(l) == \E t \in TradeIds :
  /\ AtRoute(l, t)
  /\ Accepted(t)
  /\ activeWallets > 0
  /\ loops' = [loops EXCEPT ![l] = [pc |-> "executing", batch |-> Tail(@.batch),
                                    trade |-> t]]
  /\ risk' = StartTrade(risk, t)
  /\ trades' = [trades EXCEPT ![t] = [status |-> "pending",
                                      wallet |-> currentIndex % activeWallets,
                                      engine |-> "asked"]]
  /\ currentIndex' = WalletAfter(currentIndex)
  /\ UNCHANGED <<boot, commandsOn, isRunning, scanInterval, shutdown, activeWallets,
                 tradesExecuted, totalProfit, tradeHistory>>

(* Bug: only the branch of a successful answer counts the trade.           *)
CountedIfSubmitted(answer) == IF answer = "earned" THEN 1 ELSE 0

(* Every branch counts the trade, the catch-all ones included.             *)
Counted(answer) == 1

(* Bug: the history is trimmed before the trade is pushed.                 *)
PushedAfterTrim(t) ==
  Append(IF Len(tradeHistory) > HistoryCap THEN Tail(tradeHistory) ELSE tradeHistory, t)

(* tradeHistory.push, then slice(-HistoryCap).                             *)
Pushed(t) ==
  LET all == Append(tradeHistory, t)
  IN  IF Len(all) > HistoryCap THEN Tail(all) ELSE all

(* The engine answers, at whatever time: axios.post has no timeout.  An    *)
(* answer without success, a failed request included, goes down as a       *)
(* confirmed trade and as profit; only the status tells it from a success. *)
EngineAnswers(l, answer) == \E t \in TradeIds :
  /\ ~Exited /\ MicrotasksDrained
  /\ loops[l].pc = "executing"
  /\ loops[l].trade = t
  /\ trades' = [trades EXCEPT
                  ![t].status = IF answer = "earned" THEN "submitted" ELSE "confirmed",
                  ![t].engine = answer]
  /\ tradesExecuted' = tradesExecuted + Counted(answer)
  /\ totalProfit' = totalProfit + RouteOf[t].netProfit
  /\ risk' = RecordProfit(risk, RouteOf[t].netProfit)
  /\ tradeHistory' = Pushed(t)
  /\ loops' = [loops EXCEPT ![l].pc = "publishTrade"]
  /\ UNCHANGED <<boot, commandsOn, isRunning, scanInterval, shutdown, rotation>>

(* publishTrade settles, never with an error; the trade is over.           *)
TradePublished(l) ==
  /\ ~Exited /\ MicrotasksDrained
  /\ loops[l].pc = "publishTrade"
  /\ risk' = CompleteTrade(risk, loops[l].trade)
  /\ loops' = [loops EXCEPT ![l].pc = "next", ![l].trade = NoTrade]
  /\ UNCHANGED <<boot, commandsOn, isRunning, scanInterval, shutdown,
                 rotation, books>>

(* The batch is done: statistics, broadcast, publishOpportunities.         *)
FinishScan(l) ==
  /\ ~Exited
  /\ loops[l].pc = "next"
  /\ loops[l].batch = << >>
  /\ loops' = [loops EXCEPT ![l].pc = "publishScan"]
  /\ risk' = CheckDailyReset(risk)
  /\ UNCHANGED <<boot, commandsOn, isRunning, scanInterval, shutdown,
                 rotation, books>>

(* publishOpportunities settles; the loop re-arms its timer, or is over.   *)
ScanPublished(l) ==
  /\ ~Exited /\ MicrotasksDrained
  /\ loops[l].pc = "publishScan"
  /\ \/ /\ MayScan
        /\ loops' = [loops EXCEPT ![l] = TimedLoop]
        /\ scanInterval' = l
     \/ /\ ~MayScan
        /\ loops' = [loops EXCEPT ![l] = IdleLoop]
        /\ UNCHANGED scanInterval
  /\ UNCHANGED <<boot, commandsOn, isRunning, shutdown, risk, rotation, books>>

-----------------------------------------------------------------------------
(* Commands and signals                                                    *)

CommandArrives == ~Exited /\ MicrotasksDrained /\ commandsOn

(* pause leaves the timer armed: its loop ends when it fires.              *)
Pause ==
  /\ CommandArrives
  /\ isRunning' = FALSE
  /\ UNCHANGED <<boot, commandsOn, scanInterval, loops, shutdown, risk,
                 rotation, books>>

(* Bug: resume only sets the flag.                                         *)
ResumeFlagOnly ==
  /\ CommandArrives
  /\ isRunning' = TRUE
  /\ UNCHANGED <<boot, commandsOn, scanInterval, loops, shutdown, risk,
                 rotation, books>>

(* resume starts a loop whether or not one is alive.                       *)
Resume ==
  /\ CommandArrives
  /\ isRunning' = TRUE
  /\ \E l \in Loops : StartScanLoop(l)
  /\ UNCHANGED <<boot, commandsOn, shutdown, risk, rotation, books>>

(* update_config: the payload over the configuration of the environment,   *)
(* not over the one in force.                                              *)
Configure(payload) ==
  /\ CommandArrives
  /\ risk' = UpdateConfig(risk, Merge(EnvConfig, payload))
  /\ UNCHANGED <<boot, commandsOn, isRunning, scanInterval, loops, shutdown,
                 rotation, books>>

(* Bug: stop waits for the trades under way.                               *)
WhenTradesAreOver == \A l \in Loops : ~InFlight(l)

(* stop() closes the API server without waiting for any trade.             *)
MayCloseApi == TRUE

(* stop(), called by the shutdown command (not awaited), by SIGINT and     *)
(* SIGTERM and after an uncaught exception, at any time and more than once *)
(* (a later call ends no sooner than the first).  Only the timer stored    *)
(* last is cleared.                                                        *)
Stop ==
  /\ ~Exited /\ MicrotasksDrained
  /\ isRunning' = FALSE
  /\ loops' = [l \in Loops |-> IF l = scanInterval /\ loops[l].pc = "timer"
                               THEN IdleLoop ELSE loops[l]]
  /\ scanInterval' = NoLoop
  /\ shutdown' = IF shutdown = "no" THEN "closingApi" ELSE shutdown
  /\ UNCHANGED <<boot, commandsOn, risk, rotation, books>>

(* await apiServer.stop()                                                  *)
ApiClosed ==
  /\ MicrotasksDrained
  /\ shutdown = "closingApi"
  /\ MayCloseApi
  /\ shutdown' = "disconnecting"
  /\ UNCHANGED <<boot, commandsOn, isRunning, scanInterval, loops, risk,
                 rotation, books>>

(* await redisClient.disconnect(), then process.exit(0).                   *)
Exit ==
  /\ MicrotasksDrained
  /\ shutdown = "disconnecting"
  /\ shutdown' = "exited"
  /\ UNCHANGED <<boot, commandsOn, isRunning, scanInterval, loops, risk,
                 rotation, books>>

(* Date.now() reaches the next reset of the daily loss.                    *)
Midnight ==
  /\ ~Exited
  /\ ~risk.resetDue
  /\ risk' = [risk EXCEPT !.resetDue = TRUE]
  /\ UNCHANGED <<boot, commandsOn, isRunning, scanInterval, loops, shutdown,
                 rotation, books>>

(* The process is gone.                                                    *)
Gone == Exited /\ UNCHANGED vars

-----------------------------------------------------------------------------
LoopStep(l) ==
  \/ Tick(l)
  \/ Reject(l) \/ DropWithoutWallet(l) \/ Execute(l) \/ FinishScan(l)
  \/ \E answer \in {"earned", "failed"} : EngineAnswers(l, answer)
  \/ TradePublished(l)
  \/ ScanPublished(l)

Next ==
  \/ ConnectRedis
  \/ FinishStart
  \/ \E l \in Loops : LoopStep(l)
  \/ Pause
  \/ Resume
  \/ \E p \in Payloads : Configure(p)
  \/ Stop
  \/ ApiClosed
  \/ Exit
  \/ Midnight
  \/ Gone

Spec == Init /\ [][Next]_vars

(* What Node.js guarantees: a continuation in the microtask queue runs, an *)
(* armed timer fires and a settled promise is taken up, however often      *)
(* other handlers run in between.  Redis settles publish calls and the     *)
(* API server closes.  Nothing makes the engine answer.                    *)
Microtask(l) == Reject(l) \/ DropWithoutWallet(l) \/ Execute(l) \/ FinishScan(l)

CodeFairness ==
  /\ \A l \in Loops : /\ WF_vars(Microtask(l))
                      /\ SF_vars(Tick(l))
                      /\ SF_vars(TradePublished(l))
                      /\ SF_vars(ScanPublished(l))
  /\ SF_vars(ApiClosed)
  /\ SF_vars(Exit)

FairSpec == Spec /\ CodeFairness

-----------------------------------------------------------------------------
(* Safety                                                                  *)

(* The slots the RiskManager counts are exactly the trades some loop is    *)
(* waiting on, and no two loops wait on the same trade: no slot leaks on   *)
(* an early return, none is given back while its trade runs, whatever      *)
(* commands arrive in between (executeOpportunity).                        *)
ActiveTradesAreInFlight ==
  /\ risk.activeTrades = {loops[l].trade : l \in {k \in Loops : InFlight(k)}}
  /\ \A k, l \in Loops :
       InFlight(k) /\ InFlight(l) /\ loops[k].trade = loops[l].trade => k = l

(* While the process means to run, some loop is alive to scan: no order of *)
(* pause, resume, stop and start() leaves it running with no loop.         *)
RunningHasLoop == isRunning => \E l \in Loops : Alive(l)

(* A trade starts only within the limits in force when it starts, not      *)
(* those in force when its batch was scanned: update_config may come       *)
(* between two trades of a batch.                                          *)
StartsRespectLimits ==
  [][\A t \in risk'.activeTrades \ risk.activeTrades :
       /\ WithinLimits(risk.config, RouteOf[t])
       /\ Cardinality(risk'.activeTrades) <= risk.config.maxConcurrentTrades]_vars

Begun == {t \in TradeIds : trades[t].engine # "none"}

Recorded == {t \in TradeIds : trades[t].status \in {"submitted", "confirmed"}}

(* The process keeps the ledger of trades: no route is traded twice, every *)
(* answer is recorded once, with its profit, in the counters and in the    *)
(* history the API server serves, and a trade that is in no book when      *)
(* stop() exits was still holding its slot (executeOpportunity,            *)
(* broadcastTrade, stop).                                                  *)
Ledger == INSTANCE TradeLedger WITH
  Profit   <- [t \in TradeIds |-> RouteOf[t].netProfit],
  Room     <- HistoryCap,
  begun    <- Begun,
  open     <- risk.activeTrades,
  recorded <- Recorded,
  count    <- tradesExecuted,
  total    <- totalProfit,
  history  <- tradeHistory,
  closed   <- Exited

KeepsLedger == Ledger!Spec

NothingLost == Ledger!NothingLost

(* Round robin is fair across all loops: no wallet has been given two      *)
(* trades more than another.                                               *)
Carried(w) == {t \in TradeIds : trades[t].wallet = w}

WalletsShareTrades ==
  \A v, w \in 0..activeWallets - 1 : Cardinality(Carried(v)) <= Cardinality(Carried(w)) + 1

-----------------------------------------------------------------------------
(* Liveness                                                                *)

(* The engine, which the code gives no deadline, answers every request.    *)
EngineReplies == \A l \in Loops : []<>(loops[l].pc # "executing")

(* A pause that is not resumed ends every loop, including those started    *)
(* by earlier resumes, and with them every trade.                          *)
PauseDrains ==
  EngineReplies => (<>[](~isRunning /\ ~Exited) => <>[](\A l \in Loops : ~Alive(l)))

(* A trade that was started gives its slot back, or the process is gone.   *)
TradesSettle ==
  EngineReplies =>
    \A t \in TradeIds : t \in risk.activeTrades ~> (t \notin risk.activeTrades \/ Exited)

(* A process that keeps running keeps scanning.                            *)
ScanningGoesOn ==
  EngineReplies =>
    (<>[](isRunning /\ ~Exited) => []<>(\E l \in Loops : loops[l].pc = "publishScan"))

(* A shutdown ends the process whether or not the engine ever answers, and *)
(* even if a resume arrives while the API server closes.                   *)
ShutdownExits == (shutdown # "no") ~> Exited
=============================================================================
