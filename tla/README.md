# SolAribot: a verification project in TLA+

SolAribot looks for price differences between Solana DEXs and trades on them. A
Rust market-data engine keeps a cache of pools, a TypeScript orchestrator scans
for routes and executes them through a Rust execution engine, a Python layer can
score them, and a dashboard shows what happens. This directory models the parts
whose correctness depends on order, concurrency or failure, model-checks them on
small instances with TLC and proves the most important results for every value
of the constants with TLAPS.

Contents: [the system](#the-system), [modules](#modules-and-the-code),
[runs](#runs), [fairness](#fairness), [proofs](#proofs), [findings](#findings),
[what is not modelled](#what-is-not-modelled), [plan](#plan).

## The system

| Component (source) | State | Operations | Hard behaviour | What makes it correct |
|---|---|---|---|---|
| RiskManager (`orchestrator/src/risk`) | day's loss, breaker, congestion flag and fee window, active trades, configuration | recordLoss, recordProfit, startTrade, completeTrade, feedPriorityFeeSample, updateConfig, validateOpportunity, getStatus | boundaries (loss exactly at the limit, half of it, a full window), midnight between two calls, a configuration that changes under the state | a loss at the limit is covered by a tripped breaker; the breaker does not flap; the flag is that of the samples kept; trades fit the limit |
| Orchestrator (`orchestrator/src/index.ts`) | isRunning, the stored timer, scan loops suspended at an await, counters | start, scan loop, executeOpportunity, pause, resume, shutdown, update_config, signals | several loops alive after a resume; batches older than the limits they are judged by; commands during start and stop; an engine that does not answer; exit | slots, books and wallets agree with the trades under way; a running process has a loop; pause drains; shutdown ends |
| WalletManager (`orchestrator/src/wallet`) | wallets, rotation index, poll timer | loadFromEnv, getNextWallet, refreshAllBalances, stop | rotation shared by loops | no wallet gets two trades more than another |
| Redis client (`orchestrator/src/redis`) | connection flag, handlers | connect, publish, onCommands, onPoolUpdates, disconnect | partial connection; delivery before start has ended | commands take effect in every phase of the process |
| API server (`orchestrator/src/api`) | trade history, latest values, registered clients | broadcastTrade, broadcastStats, broadcastOpportunities, three WebSocket routes, REST handlers, stop | a client that connects between two broadcasts; a capped history; clients that stay when the server stops | what a client was sent has no gap and nothing twice; REST answers agree with it; stop() settles |
| Scanner (`orchestrator/src/scanner`) | latest pool per DEX and pair | ingestPoolUpdates, scan and its three detectors | updates out of order, two pools of one pair on one DEX, pairs listed either way round, fees added up or compounded | carrying out the hops of a route returns what it was reported with |
| TransactionSender (`src/rust/solAribot-execution`) | attempt, blockhash | send_with_retry, simulate, send_and_confirm | timeouts with the transaction still in flight, lost replies, retries with another blockhash | one answer, true of the chain; unreported landings only after an unknown outcome |
| PoolCache (`src/rust/solAribot-market-data/src/cache.rs`) | pools, pair index, statistics, three locks | upsert, get, get_by_pair, get_by_dex, evict_stale, stats, len, all_pools | lock order, writer preference, gaps between critical sections | index and statistics agree with the pools; nobody waits in a circle |
| MarketDataEngine, Redis bridge (`subscription.rs`, `redis_bridge.rs`) | tasks, shutdown channel | start, discover_pools, subscribe_accounts, eviction, heartbeat, publish_pool | a snapshot polled over many awaits, eviction in between, publish failures | an update that is cached is published to who listens |
| Builder, compute budget, priority fee (`solAribot-execution`) | fee window | build_*, estimate_*, recommended/aggressive/economical_fee | u32 and u64 arithmetic, caps, percentiles | results within the caps, ordered as named |
| ML layer (`src/ml`) | models, the scorer's bounds | /score, /score/batch, training | stateful normalisation | scores in 0..100, decisions by thresholds |
| Dashboard (`dashboard/src`) | socket, timers, store | connect, disconnect, fetches, pushes | reconnection, handlers of old sockets, overlapping fetches and pushes | one live socket that is never given up; what is shown settles on the server's value or an error is |
| RPC health checker (`scripts/healthcheck.sh`, `docker-compose.yml`) | endpoint watched, failures counted, two files | check, failover, restart by the container | `set -e` with failing commands; endpoints that change between two requests; a restart that forgets the count | an endpoint is left only after three failures and for a healthy one; once endpoints rest, a healthy one is watched |

How they interact. The market-data engine publishes pools to Redis; the
orchestrator's scanner keeps the last state of each and its scan loop asks the
RiskManager for leave, takes a wallet from the WalletManager, posts the route to
the execution engine over HTTP, books the answer in its counters, in the
RiskManager and in the API server, and publishes to Redis. Commands (pause,
resume, shutdown, update_config) arrive over Redis and are executed between two
awaits of whatever the scan loops are doing. The dashboard is meant to
read the API server, but asks for other routes (see [findings](#findings)).
Inside the execution engine a request ends in `send_with_retry`; the HTTP server
in between is not part of the repository (`engine/src/main.rs` is a stub).

## Modules and the code

| Module | Models | Used by |
|---|---|---|
| `RiskPolicy` | every method of RiskManager as an operator on its private state | `RiskManager`, `Orchestrator` |
| `RiskManager` | RiskManager alone, its methods called in any order while midnights pass | `MCRiskManager`, `RiskManagerProofs` |
| `Orchestrator` | `SolAribotOrchestrator` with the RiskManager, the wallet rotation, the Redis commands and the trade history | `MCOrchestrator`, `MCOrchestratorLive`, `OrchestratorProofs` |
| `TradeLedger` | abstract: what the orchestrator promises about its trades and its books | `Orchestrator` |
| `ApiServer` | the API server with what the orchestrator hands to it and its WebSocket clients | `MCApiServer.cfg`, `ApiServerProofs` |
| `Failover` | the loop of `healthcheck.sh`, curl by curl, and the container's restarts | `MCFailover`, `FailoverProofs` |
| `SubmissionContract` | abstract: what a caller of `send_with_retry` may rely on | `TransactionSender` |
| `TransactionSender` | `send_with_retry` and all it calls, with the cluster and the RPC node | its own cfgs, `TransactionSenderProofs` |
| `PoolCache` | the cache's methods as lock operations and effects | `MCPoolCache`, `MarketDataProofs` |
| `Scanner` | the price map and its updates, the three detectors and `detectAll` | `MCScanner`, `MarketDataProofs` |
| `Dashboard` | `useRealtime`'s effect with the RealtimeClient and one polled field of the store | `MCDashboard.cfg`, `DashboardProofs` |
| `RiskPolicyProofs`, `RiskManagerProofs`, `OrchestratorProofs`, `TransactionSenderProofs`, `DashboardProofs`, `ApiServerProofs`, `FailoverProofs`, `MarketDataProofs` | theorems | |

**RiskPolicy and RiskManager.** The record `risk` holds the class's private
fields under their names. `Date.now() >= dailyResetTime` is the flag `resetDue`,
set by `Midnight` and consumed by `CheckDailyReset`. Amounts are integers in any
unit: the code only adds, subtracts and compares them (`dailyLoss < limit * 0.5`
is `2 * dailyLoss < limit`; the fee average is compared without dividing). Two
fields that nothing reads (`lastCongestionCheck`, `congestionCooldownMs`) are
left out. The properties are stated between configuration changes, because
`updateConfig` re-evaluates nothing.

**Orchestrator.** Node.js runs one handler at a time, so each action is the code
between two awaits. A scan loop is `idle`, waits for its `timer`, has a
continuation in the microtask queue (`next`), or awaits the engine
(`executing`), `publishTrade` or `publishScan`. Timers, answers and commands are
taken up only when no continuation is queued (`MicrotasksDrained`). When Redis
is not connected a publish returns without I/O; the model lets other handlers in
there too, which only adds behaviours. `trades[t]` joins what is spread over
`TradeRecord`, the wallet chosen and what really happened at the engine; the
process reads only what the code can see. `Stop` is `stop()` up to its first
await, `ApiClosed` and `Exit` the rest. `ConnectRedis` covers the connection and
its failure, with or without subscriptions, and the loading of wallets that
follows in the same stretch: `activeWallets` is the number of keys found, at most
`Wallets`, or 0 when only the inactive placeholder is left. `FinishStart` is the
rest of `start()`. The scanner's result is any sequence of fresh routes in
descending net profit.

**TradeLedger.** The abstract machine begins, records and settles trades; only
recording changes the counter, the profit and the history, and after `Close`
nothing changes. `Orchestrator!Ledger` maps it: begun are the trades handed to
the engine, open those some slot is held for, recorded those whose status says
so. `Execute` is `Begin`, `EngineAnswers` is `Record`, `TradePublished` is
`Settle`, `Exit` is `Close`, everything else stutters. It says that a route is
traded at most once and booked at most once whatever loops and commands do, and
that a trade missing from the books is one that was open when the process ended.

**ApiServer.** Every handler of the server runs without an await, so each is one
action; a scan that ends publishes statistics and opportunities in one stretch,
and a trade is counted, kept and broadcast in one stretch too. Scans may end and
trades be recorded before `start()` publishes its statistics (`PublishStats`): a
resume during the boot starts a loop. A trade is its
number in the order of recording. `sent` is what was sent on each connection, in
order; an action that closes a connection drops it. `Leave` covers a close begun
by either side and the error event, which unregisters the client before the close
event does. `ws.send` to an open socket does not throw, so the `catch` of
`broadcast` is not an action. `SliceBack` follows `Array.prototype.slice(-n)` for
negative `n` as well, since `limit=-5` gets through `Math.min`.

**Failover.** One step per curl, because the endpoints may change between any
two of them, and one for each way a check ends. `check_rpc` runs in `$( )`, which
does not inherit `set -e`, so a curl that fails there only yields "unreachable";
the pipeline of `get_slot` is the last command of the function, and with
`pipefail` its failure ends the script (`SlotFails`). `Restart` starts it anew
with fresh variables, while the files stay. `failedInARow` is a history variable
for the property; both counters stop one above the threshold, since the code only
compares. Empty entries of the list of fallbacks are skipped by the code and not
in the list of the model.

**TransactionSender.** Signing is deterministic, so a transaction is identified
by its blockhash; two attempts in one block send the same transaction. The
cluster moves to new blockhashes, lands, fails or drops what is in flight, and
`sendTransaction` may report an error after it has broadcast. Polling that finds
nothing changes nothing, so only its endings are actions. `update_blockhash`
fails only on a message version that the builder never makes; that branch is the
same as `BlockhashFails`. The contract maps `effects` to the landed transactions,
`outcome` to the final `pc` and `reported` to the blockhash of an Ok.

**PoolCache.** The body of a method is the sequence of its operations, in the
order of the code: `claim` and `drain` for a write guard, `read` for a read
guard, `release` and `leave` where Rust drops them (at the end of the block, or
of the statement for a temporary), and the `effect`s in between. A parking_lot
writer first claims the lock, which stops new readers, then waits for the readers
inside. A thread is at a place in a body, and threads interleave between any two
operations. `evict_stale` runs the body `EvictNothing` until it finds a stale
pool and goes on in `EvictSome`, which begins alike. Ages are `fresh` and
`stale`: the eviction compares each pool's last update with the threshold and
nothing else.

**Scanner.** The price map is the sequence of its entries in the order of
insertion, because `getBestPrice` takes the first of equal prices. `Update` is
`Map.set`: a known key (DEX and ordered pair) keeps its place. A message is taken
in pool by pool: `IngestPoolUpdates` begins it, `UpdateBatch` is one round of the
loop of `updateBatch`, and `pending` counts the rounds left. The code does not
scan in the middle of a message, so what is shown for every state holds at every
scan. A scan changes nothing, so `DetectAll` is an operator of the price map and
yields a set; the sorted list that a scan hands over is `Orchestrator!Batches`.
Amounts are exact fractions where the code has doubles. `latest` is a history
variable: the last state received of each pool address, which is what the hops of
a route would be executed against. `ScannerConstants` says that prices are
positive (a price of 0 makes `1 / parseFloat(priceA)` infinite, and no producer of
such a state is part of the repository), that `priceB` is the reciprocal of
`priceA`, and that an address keeps its DEX and its tokens, as an account on the
chain does. Liquidity, compute budgets and the other fields copied into a route
are left out, as no step reads them before the RiskManager does. `ScannerInit`,
`ScannerNext`, `ScannerSpec` and `ScannerTypeOK` have names of their own so that
`MarketDataProofs` can extend this module and `PoolCache`.

**Dashboard.** An action is one event of the browser: a timer, an event of a
socket, an answer to a request. The handlers of the code close over the client,
not over their socket, and the model keeps that: a late error closes whatever
`ws` is by then, a close clears whatever `pingTimer` is. A socket that fails has
its error and its close event in one task. `detached` are the sockets whose
`onclose` was set to null; ping intervals are named by the socket whose `onopen`
made them. The eight fetchers of the store are alike, so one field stands for
those that are also polled; `value` is the server's version of it. No caller
passes an AbortSignal, so that branch is left out. `Unmount` may happen at any
time (React unmounts the tree when a page throws); `Remount` is the second run
of the effect in `React.StrictMode`, which does nothing.

What the server can do for the client depends on its routes. The client opens
`/ws` and polls `/api/dex-latency` and `/api/system-metrics`; the server of
`orchestrator/src/api` has none of the three (`ServerRoutes`). `routes` is chosen
in `Init` and never changes: that server, or one which also has the routes that the
client was written for and speaks its protocol (`WsMessage`). `Open`, `Push` and
`Answer` need the route; without it the upgrade is refused (`Closed` with an error)
and a request fails (`Refuse`). So the properties are checked against this
repository's server, where the client can only try, and against the one it was
written for, where events of several sockets and requests can get in each other's
way.

## Runs

| Run | Checks | Instance |
|---|---|---|
| `risk` | `TypeOK`, `LossStaysCovered`, `NoFlapping`, `CongestionFollowsWindow`, `TradesStayWithinLimit` | limit 4 (or 2) with losses and profits of 1 and 3, a fee window of 2, at most 2 trades (or 1) out of 3 ids, daily loss up to 7 |
| `orchestrator` | `TypeOK`, `ActiveTradesAreInFlight`, `RunningHasLoop`, `KeepsLedger`, `WalletsShareTrades`, `StartsRespectLimits` | 2 loops, 0, 1 or 2 active wallets, 3 routes over 2 pools, batches of up to 2, a history of 2, two configuration payloads |
| `orchestrator_live` | `PauseDrains`, `TradesSettle`, `ScanningGoesOn`, `ShutdownExits` | 2 loops, 1 route |
| `sender` | `TypeOK`, `LandingsAccountedFor`, `Termination`, `KeepsContract` | 3 attempts (the default), simulation on |
| `pool_cache` | `TypeOK`, `IndexCoversCache`, `StatsCatchUp`, `NoDeadlockWithoutEviction` | 2 pools of 2 DEXs, discovery, polling, eviction and a client as 4 threads |
| `scanner` | `ScannerTypeOK`, `QuotesAreHonoured`, `DetoursBeatEveryPool`, `OrientationDoesNotMatter` | 3 tokens, 5 pools on 3 DEXs with one or two prices each, costs in tenths, messages of 1 or 2 pools |
| `dashboard` | `TypeOK`, `OneConnection`, `NeverGivesUp`, `NothingLeftBehind`, `KeepsTrying`, `SettlesOrFails` | this repository's server and one with the client's routes, 2 sockets, 2 overlapping requests, 2 changes of the server's value, 2 pushed messages on their way |
| `failover` | `TypeOK`, `FailoverIsEarned`, `SettlesOnHealthy` | a primary and two fallbacks, each healthy, in error or unreachable and free to change at any time, threshold 3 (the script's) |
| `api_server` | `TypeOK`, `StreamsHaveNoGap`, `AnswersAgree`, `StopSettles` | one connection used again and again, pages of 2, answers of at most 3, a history of 4, 6 trades, 2 scans |
| `daily_loss_limit`, `eviction_deadlock`, `two_pool_direction` | one documented promise each, violated | the instances above |

Why these bounds are enough for the cases that matter. *risk*: the limit is
reached exactly, exceeded, and crossed downwards past its half by one profit; the
window overflows; a configuration lowers each limit under the current state.
`MaxDailyLoss` only keeps the loss finite. *orchestrator*: two loops are the least
that interleave, and any two suspended loops already conflict on slots, rotation
and history; three routes with two wallets make the rotation wrap and with a
history of two make it trim; a batch of two has a trade still to come when a
command changes the limits; two of the routes use the pool a payload blacklists.
`Loops` bounds how many resumes may pile up: a resume beyond it is not explored.
*sender*: with three attempts there is a first, a middle and a last one, and
three blockhashes let every attempt send a transaction of its own or repeat an
earlier one. *pool_cache*: two writers, an evictor and a reader cover every pair
of methods; a third pool adds no lock. *scanner*: every pair of the three tokens
is traded, one of them by three pools of which two share a key of the price map,
so that every detector finds routes, with ties, with a pool replaced by another
and with pairs listed both ways round; costs of a tenth make fees matter. The
price map and `latest` range over finitely many states, so nothing is cut off
but the length of a message. *dashboard*: a closed socket and a new one are the
most the code can hold, a closed one may be used again, and with two requests and
two pushes on their way every order of an older and a newer value occurs. *failover*: two fallbacks
let a failover go past a bad one, fail as a whole, and leave a fallback again;
nothing but the counters is cut off. *api_server*: 1000 trades, 200 and 50 become
4, 3 and 2, so that the history is trimmed twice, the longest answer is shorter
than the history and the page shorter than the longest answer; limits from 0
(absent) to above the cap are asked for in every state. Connections do not
interact except that `Stopped` waits for all of them, so one that may be on any
route at any time is enough (two pass as well, with a million states). Trade
ids and loops, and the two
interchangeable routes, are symmetric where no liveness is checked.

`pool_cache` and `eviction_deadlock` set CHECK_DEADLOCK FALSE: after an eviction
that removed a pool the code really stops (see [findings](#findings)). Every
other run checks for deadlock; `Gone`, `Quiet` and `ApiServer!Done` are the
legitimate ends of the process, of the call and of the server.

Every property of a passing run has a mutant: an operator marked "Bug:" beside
the definition it distorts, under which TLC finds the property violated.

## Fairness

`CodeFairness` is what Node.js gives: queued continuations run (weak fairness of
each loop's microtask); armed timers fire and settled promises are taken up even
when other handlers keep getting in between, which disables those actions
again and again (strong fairness); Redis settles a publish, by its retry limit,
and the API server closes. Nothing makes the engine answer: `axios.post` has no
timeout, so `PauseDrains`, `TradesSettle` and `ScanningGoesOn` are stated under
the assumption `EngineReplies`. `ShutdownExits` needs no such assumption.

`TransactionSender!FairSpec` is weak fairness of the sender's own step: RPC calls
settle by the client's timeout, sleeps end, and the poll loop's clock reaches
`send_timeout_ms`. Nothing is assumed of the cluster.

`Failover!FairSpec` is weak fairness of the script: sleeps end, curl gives up
after `TIMEOUT_SECS`, the container's loop goes on. The endpoints owe nothing;
`SettlesOnHealthy` is stated for the case that they come to rest with a healthy
fallback and a primary that answers, if only with an error.

`ApiServer!FairSpec`: a closing handshake ends (ws cuts it off after 30 seconds)
and Fastify's `close` settles once no connection is left. No client has to close
an open connection, so `StopSettles` rests on the server closing them.

`Dashboard!FairSpec` assumes nothing of the server. `BrowserFairness`: timers fire,
what has arrived is handled, a closing socket ends. `NetworkFairness`: an attempt to
connect is settled one way or the other, a request is answered or fails (nginx gives
up after 30 seconds), and the WebSocket constructor, which throws only for a URL it
cannot parse, does not throw for good. A connection may be refused and a request
fail every time, as they do with this repository's server; `KeepsTrying` and
`SettlesOrFails` therefore are alternatives: connected for good or another attempt
again and again, the server's value in the end or an error again and again. Both are
about a page that stays mounted, and the second rests on polling alone: nothing makes
the server push.

## Proofs

| Theorem | States | Rests on |
|---|---|---|
| `RiskManagerProofs!TypeCorrect` | `Spec => []TypeOK` | `RiskConstants`, `FeeWindowAssumption` |
| `RiskManagerProofs!LossCoverage`, `BreakerDoesNotFlap`, `CongestionFollows`, `TradesWithinLimit` | the four action properties of `risk` | the same |
| `OrchestratorProofs!TypeCorrect` | `Spec => []TypeOK` | `OrchestratorConstants` |
| `OrchestratorProofs!RunningProcessHasLoop` | `Spec => []RunningHasLoop` | the same |
| `OrchestratorProofs!SlotsAreTradesUnderWay` | `Spec => []ActiveTradesAreInFlight` | the same |
| `OrchestratorProofs!StartsWithinLimits` | `Spec => StartsRespectLimits` | the same |
| `OrchestratorProofs!LedgerIsKept` | `Spec => Ledger!Spec` (`KeepsLedger`) | the same |
| `OrchestratorProofs!NothingIsLost` | `Spec => []NothingLost`, the ledger's invariant in terms of the code's state | the same |
| `OrchestratorProofs!WalletsAreFair` | `Spec => []WalletsShareTrades` | the same |
| `FailoverProofs!TypeCorrect`, `FailoversAreEarned` | `Spec => []TypeOK`, `Spec => FailoverIsEarned` | `FailoverConstants` |
| `ApiServerProofs!TypeCorrect`, `AnswersAreLatest`, `NoTradeIsMissed` | `Spec => []TypeOK`, `[]AnswersAgree`, `[]StreamsHaveNoGap` | `ApiConstants` |
| `MarketDataProofs!TypeCorrect`, `IndexIsComplete`, `StatisticsCatchUp`, `NobodyWaitsInACircle` | the four invariants of `pool_cache` | `CacheConstants` |
| `MarketDataProofs!RemovalNeverReturns` | an eviction that has removed a pool stays in the method and keeps `pools` and `pair_index` claimed | the same |
| `MarketDataProofs!OneEntryPerKey`, `QuotesCanBeHad`, `DetoursPay`, `OrientationIsIrrelevant` | the four invariants of `scanner` | `ScannerConstants` |
| `MarketDataProofs!TwoPoolRoutesNeverPay` | carrying out a two-pool route always returns less than was put in | the same |
| `DashboardProofs!TypeCorrect` | `Spec => []TypeOK` | `DashboardConstants` |
| `DashboardProofs!OneConnectionAtATime`, `ClientNeverGivesUp`, `CleanupIsFinal` | `Spec => []OneConnection`, `[]NeverGivesUp`, `[]NothingLeftBehind` | `DashboardConstants` |
| `DashboardProofs!NeverLive` | against this repository's server the client is never connected and shows no polled value | the same |
| `TransactionSenderProofs!TypeCorrect`, `EveryLandingAccountedFor` | `Spec => []TypeOK`, `Spec => []LandingsAccountedFor` | `SenderConstants` |
| `TransactionSenderProofs!Refinement` | `Spec => Contract!Spec` | the same |

The assumptions are the named ASSUMEs of the modules: they type the constants and
ask only that the window and the history have room for one entry. The theorems
hold for any number of trades, pools, threads, loops, wallets and retries, for any
limits, prices and fees, and for any pool states a message may carry.

*RiskManager.* `RiskPolicyProofs` has one lemma per method: what type it returns
and what it does to the fields the properties read. The inductive invariant adds
to `TypeOK` that `activeTrades` is finite, which `Cardinality` needs. The action
properties then follow action by action; `TradesWithinLimit` uses that adding one
element to a finite set adds at most one to its cardinality.

*Orchestrator.* `ActiveTradesAreInFlight` is not inductive: to see that a trade
about to start is not already under way in another loop one must know that a
route is in one loop only. The strengthening says that the routes queued in
batches are `scanned` and no more (`QueuedAreScanned`), that no route is queued
twice, in one batch or in two (`QueuedOnce`), and that the trades loops wait on
have been started (`FlyingAreStarted`). `Tick` establishes it because a batch is
made of fresh routes, `Execute` hands one route from the queue to the flight.
`StartsRespectLimits` then needs only that the slots are finitely many: no action
but `Execute` adds a slot, and `Execute` validates against the configuration and
the slots of the same step.

The refinement of `TradeLedger` needs to know what a loop's place says of its
trade (`RecordsFollowLoops`): a trade some loop awaits the engine for is begun
and not recorded, one that is being published is recorded and open, one in a
queue has not been begun. `NothingLost` is then proved of the ledger alone
(its counter is the cardinality of `recorded`, its history lists distinct
recorded trades, `BooksTyped` types both) and carried over by the refinement. The
sum of profits is compared step by step, never as a sum over a set, so no fold
is needed. `WalletsShareTrades` rests on `RotationInv`: while all wallets before
the rotation index have been given one trade more than those from it on, the next
trade goes to the index (`NextWalletsTurn`), and wallets are loaded once, before
any trade (`WalletsAreLoaded`).

*Failover.* The type invariant is inductive. For `FailoverIsEarned` the count of
the code equals the history's failures in a row, and a script in its failover has
reached the threshold.

*ApiServer.* Messages are typed per connection (`SentType` strengthens `TypeOK`).
`AnswersAgree` follows from `HistoryIsLatest`: the history is the last
`HistoryCap` of the numbers up to `tradesExecuted`; two lemmas say what
`slice(-n)` and `reverse()` keep. `StreamsHaveNoGap` speaks of neighbours in what
was sent on a connection instead of concatenating it: each message about trades is
followed by the next trade or tells of the latest one. It needs besides
`HistoryIsLatest` that an open connection on a route is registered with it
(`OpenIsRegistered`): a broadcast that passed over one would be the gap.

*Dashboard.* The three invariants are proved together, strengthened by three
facts: detached sockets are closing (`DetachedAreClosing`), so that a socket that
opens is the current one; a client that is connected has stored the ping of its
current socket (`ConnectedIsPinged`), so that a close clears the only interval;
and outside the mounted hook there is no current socket (`NothingYet`). Actions
that leave the client alone are dealt with by one lemma (`SameClient`). Type
correctness adds the store, the requests and the messages on their way. For
`NeverLive` no socket is ever open and no request answered (`NothingArrives`), since
`Open` and `Answer` need routes that are not in `ServerRoutes`.

*TransactionSender.* The invariant says of each `pc` which transaction may be
under way, of `ok` that the reported one has landed, and that landings stay. The
refinement maps the steps of the cluster to `Land`, the endings of the call to
`AnswerOk` and `AnswerErr`, everything else to stuttering.

*PoolCache.* The methods are straight-line code, so who holds a lock is a matter of
where the threads are: two tables, `ClaimedAt` and `ReadAt`, say at which places of
each body a lock is held, and `LocksFollowPlaces` that the locks agree with them.
The lemmas of each body (`UpsertFlow` ... `StatsFlow`) check the tables operation by
operation, `Flow` joins them, and `LocksStep` carries the invariant over every step;
that two claims of one lock exclude each other comes with it, because `writer[l]`
names one thread. On this rest:
  * `IndexCoversCache`: an upsert that has indexed its pool still finds it indexed
    when it inserts it (`IndexedUntilInserted`). An eviction may take it out of the
    index in between; what saves the invariant is that an eviction that removes
    something never returns and keeps `pools`, which the insertion would need
    (`RemovalIsStuck`, stated as a theorem of its own, `RemovalNeverReturns`). The
    invariant thus leans on the deadlock among the findings, and falls with a
    repair of it that only drops the guards earlier.
  * `StatsCatchUp`: a count that is not the cache's is still ahead of some thread
    (`CountsComeRight`).
  * `NoDeadlockWithoutEviction`: `LockOrder` lists what a waiting thread may hold.
    Inside `pools` nothing is waited for, inside another lock only `pools` is; so if
    everyone waited, nobody would hold `pools`, then nobody any other lock, and the
    next one to enter could. No assumption bounds the number of threads.

*Scanner.* A quote is one that can be had because the map holds the last state
received of each of its pools (`PricesAreLatest`): a pool cannot be in the map under
two keys, as its address keeps its DEX and its tokens, and of two pools with one key
the older goes. The rest is arithmetic of fractions. `OneMoreCost` says that taking
one more fee by itself leaves at least what adding it to the others does;
`ThreeCosts` and `TwoCosts` apply it to triangles and detours, also when the fees add
up to more than everything. `OrderChains` is transitivity of the order of fractions,
for the comparison of a detour with every pool. `OrientationDoesNotMatter` is proved
detector by detector: a flipped pool has the same address and DEX, the same rate in
each direction and trades the same pairs (`FlipFacts`), and the detectors read
nothing else. `TwoPoolRoutesNeverPay` is the general form of the finding below: with
`PriceOfPair` the two hops return `buyPrice / sellPrice` of the amount before costs.

Model-checked only: the liveness properties `PauseDrains`, `TradesSettle`,
`ScanningGoesOn`, `ShutdownExits`, `Termination`, `KeepsTrying`, `SettlesOrFails`,
`SettlesOnHealthy` and `StopSettles`, which speak of fairness and so of ENABLED, out
of the prover's reach. Every invariant and every other action property of a passing
run is a theorem. What the runs `daily_loss_limit` and `eviction_deadlock` refute is
refuted by their counterexamples.

## Findings

* **The daily loss limit never stops trading** (`daily_loss_limit`). The
  orchestrator books failures as confirmed profits and never calls `recordLoss`
  (nor `feedPriorityFeeSample`): neither the breaker nor the congestion flag can
  trip in the program, although both work in the class.
* **evict_stale deadlocks with itself** (`eviction_deadlock`) once it has removed
  a pool. Dropping its guards before the statistics is not a repair: the mutant
  `EvictSomeUnlocked` shows an upsert whose pool the index then misses.
* **Two-pool routes run backwards** (`two_pool_direction`). The first hop sells
  the token to the pool that pays less for it and the second buys it back from
  the pool that asks more, while the profit is reported for the other direction.
  This is so of every such route, whatever the pools and the fees
  (`MarketDataProofs!TwoPoolRoutesNeverPay`).

Also seen, without a run of their own. In what is modelled:

* **The dashboard and the API server do not fit together.** docs/ARCHITECTURE.md:101
  promises "Orchestrator pushes updates via WebSocket → Dashboard renders in
  real-time". The client opens `/ws` (websocket.ts:3), the server has only
  `/ws/opportunities`, `/ws/stats` and `/ws/trades` (api/index.ts:149-191); the
  client polls `/api/dex-latency` and `/api/system-metrics` (client.ts:158-163),
  which are not among its routes (api/index.ts:78-145). Hence the page is never
  connected and its polled values never arrive: a theorem
  (`DashboardProofs!NeverLive`), while `KeepsTrying` and `SettlesOrFails` say what it
  does instead, retry and show errors for ever. Beyond the model: the server sends
  `{type, payload}` where the client reads `data`, and no `dex_latency` or
  `system_metrics`; REST answers hold their list in `data`, where the store reads
  `trades` and `opportunities`; `/balance`, `/positions`, `/pnl` and `/settings` are
  no routes either; nginx (dashboard/Dockerfile:56) proxies to port 8081, the
  server's default is 4000 (config.ts:30).
* `stop()` (index.ts:387, "gracefully") does not wait for trades: the process may
  exit while one awaits the engine, and its outcome is recorded nowhere.
  `KeepsLedger` says that no other trade is ever missing.
* The simulation is tied to attempt 1 (sender.rs:154), so an attempt that fails
  before or in its simulation is followed by a submission without one, where
  sender.rs:4 promises "Transaction simulation before submission".
* `healthcheck.sh` never fails over from a primary that is unreachable: `get_slot`
  ends the script before the failure is counted, the container starts it again
  and it watches the same primary. Only a primary that answers with an error is
  failed over from. A restart after a failover returns to the original primary;
  otherwise that is never tried again. `previous` always names the original
  primary, an answer without a slot makes the health file invalid JSON, and the
  image the script runs in (`alpine`) has no bash.
* `GET /api/trades?limit=-5` gets through `Math.min` and drops the five oldest
  trades instead of answering with five.
* An engine failure is reported as `confirmed` and `tradesFailed` is never
  incremented; `update_config` undoes earlier updates; `React.StrictMode` runs
  `useRealtime`'s effect a second time with `initialized` set, so that in
  development the page stays without polling and connection.

In what is not:

* Wallet balances stay 0: `derivePublicKey` ends in its fallback `Wallet_<hex>`
  because Node's Buffer knows no encoding `base58`, `new PublicKey` rejects that,
  and every `refreshBalance` returns null without a request.
* `BATCH_SIZE` (50) is passed as the amount to trade, above the default
  `MAX_POSITION_SIZE` (10), so with the default environment every route is
  rejected.
* Discovery looks for accounts of 1 byte (`DataSize(1)`), pool updates are
  published on a channel per pool while the orchestrator subscribes to one fixed
  channel, and `PoolState` is a type, not a schema, where `onPoolUpdates` parses.
* `economical_fee` is not capped by `max_fee` while `recommended_fee` is, so
  their order (tested at priority_fee.rs:175) does not hold for every window; the
  backoff multiplies in u64 before it is capped (sender.rs:270).

## What is not modelled

* Balance polling of the WalletManager: as found above it changes no state, so a
  model of its overlapping refreshes would be of a program that does not exist.
* The market feed (discovery, the poller's snapshot, the Redis bridge and
  `onPoolUpdates`): no pool passes the discovery's filter, and no message reaches
  the orchestrator. The concurrency below it, of the tasks that share the cache,
  is `PoolCache`; what arrives at the scanner in whatever order is `Scanner`.
* The numeric code of the execution engine (instruction building, compute budget,
  fee percentiles) and the length of the backoff: pure functions of their inputs.
* The ML layer: nothing consults it, and training and predictors are numerical
  library code.
* The dashboard's pages and its lists (they fetch, show and post), the REST
  handlers that return one field, parsing of the environment, the DEX parsers
  (byte layouts of third-party accounts), log lines, statistics nothing reads,
  the rest of the deployment and the schema.

## Plan

Done: `RiskPolicy`, `RiskManager`, `Orchestrator` with its refinement of
`TradeLedger`, `TransactionSender` with its contract, `PoolCache`, `Scanner`, the
client of `Dashboard`, `ApiServer` and `Failover`; every invariant and every action
property that a passing run checks is proved. What is left, most important first:

1. `Dashboard` with `ApiServer`, once their routes and messages agree: a client that
   loses its connection fetches a page and connects again; what its list then holds.
2. `Fees`: compute budget, priority fees and the backoff with their u32 and u64
   widths, as functions used by `TransactionSender`.
3. `MarketFeed`, once updates can reach the orchestrator: the poller's snapshot
   against evictions.
4. `PoolCache` with an eviction that gives its locks back, once the deadlock is
   repaired: `upsert` then needs to index its pool again, or to insert it under both
   locks, for `IndexCoversCache` to survive.
