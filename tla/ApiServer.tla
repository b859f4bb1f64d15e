----------------------------- MODULE ApiServer ------------------------------
(***************************************************************************)
(* The API server (orchestrator/src/api/index.ts) with what the            *)
(* orchestrator hands to it: trades as they are recorded, statistics and   *)
(* opportunities as scans end.  Every handler runs to its end in one step. *)
(*                                                                         *)
(* A trade is known by its number in the order of recording, so that       *)
(* tradesExecuted is the number of the latest one.  A connection delivers  *)
(* what was sent on it in order; its client has received some part from    *)
(* the front of sent.                                                      *)
(***************************************************************************)
EXTENDS Integers, SequencesExt

CONSTANTS
  Sockets,     \* WebSocket connections; one is used again once it is over
  Page,        \* trades in a snapshot, and in an answer by default (50)
  MaxLimit,    \* longest answer (200)
  HistoryCap,  \* trades kept (1000)
  MaxTrades,   \* bound: trades recorded
  MaxScans     \* bound: scans that end

ASSUME ApiConstants ==
  /\ {Page, MaxLimit, HistoryCap} \subseteq Nat \ {0}
  /\ Page <= MaxLimit /\ MaxLimit <= HistoryCap
  /\ {MaxTrades, MaxScans} \subseteq Nat

Routes == {"opportunities", "stats", "trades"}
Unpublished == -1    \* systemStats is null

VARIABLES
  tradesExecuted,  \* of the orchestrator
  scans,           \* of the orchestrator
  starting,        \* the orchestrator's start() has not ended
  server,          \* "listening", "closing" or "closed"
  tradeHistory,
  systemStats,     \* tradesExecuted as it was published last
  opportunities,   \* the scan whose opportunities were published last
  readyState,      \* of each connection
  route,           \* the route of each connection
  clients,         \* WsClientManager
  sent             \* history: the messages sent on each connection

produced == <<tradesExecuted, scans, starting>>
served == <<tradeHistory, systemStats, opportunities>>
connections == <<readyState, route, clients>>
vars == <<produced, server, served, connections, sent>>

Message ==
  [type : {"trades"}, payload : Seq(1..MaxTrades)] \cup
  [type : {"trade"}, payload : 1..MaxTrades] \cup
  [type : {"stats", "opportunities"}, payload : Nat]

TypeOK ==
  /\ tradesExecuted \in 0..MaxTrades
  /\ scans \in 0..MaxScans
  /\ starting \in BOOLEAN
  /\ server \in {"listening", "closing", "closed"}
  /\ tradeHistory \in Seq(1..MaxTrades) /\ Len(tradeHistory) <= HistoryCap
  /\ systemStats \in {Unpublished} \cup 0..MaxTrades
  /\ opportunities \in 0..MaxScans
  /\ readyState \in [Sockets -> {"none", "open", "closing"}]
  /\ route \in [Sockets -> Routes]
  /\ clients \subseteq {s \in Sockets : readyState[s] # "none"}
  /\ \A s \in Sockets : \A i \in DOMAIN sent[s] : sent[s][i] \in Message

Init ==
  /\ tradesExecuted = 0 /\ scans = 0 /\ starting = TRUE
  /\ server = "listening"
  /\ tradeHistory = << >> /\ systemStats = Unpublished /\ opportunities = 0
  /\ readyState = [s \in Sockets |-> "none"]
  /\ route = [s \in Sockets |-> "stats"]
  /\ clients = {}
  /\ sent = [s \in Sockets |-> << >>]

-----------------------------------------------------------------------------
(* Array.prototype.slice(-n): the last n elements or, with a negative n,   *)
(* all but the first -n.                                                   *)
SliceBack(seq, n) ==
  IF n >= Len(seq) THEN seq
  ELSE IF n > 0 THEN SubSeq(seq, Len(seq) - n + 1, Len(seq))
  ELSE SubSeq(seq, 1 - n, Len(seq))

(* Bug: the limit of the query is taken as it is.                          *)
UncappedLimit(query) == query

(* parseInt(...) || 50, at most 200.                                       *)
Limit(query) ==
  LET limit == IF query = 0 THEN Page ELSE query
  IN  IF limit < MaxLimit THEN limit ELSE MaxLimit

(* GET /api/trades: newest first.                                          *)
GetTrades(query) == Reverse(SliceBack(tradeHistory, Limit(query)))

-----------------------------------------------------------------------------
(* WsClientManager                                                         *)

(* broadcast: to the registered clients that are open.                     *)
Broadcast(messages) ==
  sent' = [s \in Sockets |->
             IF s \in clients /\ readyState[s] = "open"
             THEN sent[s] \o messages ELSE sent[s]]

(* Bug: the trades route sends the oldest trades it has.                   *)
OldestFirst(r) ==
  CASE r = "trades" -> <<[type |-> "trades",
                          payload |-> Reverse(SubSeq(tradeHistory, 1,
                                        IF Page < Len(tradeHistory) THEN Page ELSE Len(tradeHistory)))]>>
    [] r = "stats" -> << >>
    [] r = "opportunities" -> << >>

(* What a route sends as soon as it has registered a client.               *)
Snapshot(r) ==
  CASE r = "trades" -> <<[type |-> "trades",
                          payload |-> Reverse(SliceBack(tradeHistory, Page))]>>
    [] r = "stats" -> IF systemStats = Unpublished THEN << >>
                      ELSE <<[type |-> "stats", payload |-> systemStats]>>
    [] r = "opportunities" -> <<[type |-> "opportunities", payload |-> opportunities]>>

Connect(s, r) ==
  /\ server = "listening"
  /\ readyState[s] = "none"
  /\ readyState' = [readyState EXCEPT ![s] = "open"]
  /\ route' = [route EXCEPT ![s] = r]
  /\ clients' = clients \cup {s}
  /\ sent' = [sent EXCEPT ![s] = Snapshot(r)]
  /\ UNCHANGED <<produced, server, served>>

(* The peer begins to close, or an error does: its event comes before the  *)
(* one of the close and removes the client too.                            *)
Leave(s, error) ==
  /\ readyState[s] = "open"
  /\ readyState' = [readyState EXCEPT ![s] = "closing"]
  /\ clients' = IF error THEN clients \ {s} ELSE clients
  /\ UNCHANGED <<produced, server, served, route, sent>>

(* The close event, also of a connection that breaks off.                  *)
Gone(s) ==
  /\ readyState[s] # "none"
  /\ readyState' = [readyState EXCEPT ![s] = "none"]
  /\ clients' = clients \ {s}
  /\ sent' = [sent EXCEPT ![s] = << >>]
  /\ UNCHANGED <<produced, server, served, route>>

-----------------------------------------------------------------------------
(* The orchestrator                                                        *)

(* Bug: the history is never trimmed.                                      *)
KeptAll(trades) == trades

(* Bug: the history is trimmed at the wrong end.                           *)
KeptOldest(trades) ==
  IF Len(trades) > HistoryCap THEN SubSeq(trades, 1, HistoryCap) ELSE trades

Kept(trades) == SliceBack(trades, HistoryCap)

(* executeOpportunity counts a trade and broadcasts it in one stretch.     *)
RecordTrade ==
  /\ tradesExecuted < MaxTrades
  /\ tradesExecuted' = tradesExecuted + 1
  /\ tradeHistory' = Kept(Append(tradeHistory, tradesExecuted + 1))
  /\ Broadcast(<<[type |-> "trade", payload |-> tradesExecuted + 1]>>)
  /\ UNCHANGED <<scans, starting, server, systemStats, opportunities, connections>>

Stats == [type |-> "stats", payload |-> tradesExecuted]

(* start() ends with publishStats, which need not be the first: a resume   *)
(* that arrives while it runs starts a scan loop.                          *)
PublishStats ==
  /\ starting
  /\ starting' = FALSE
  /\ systemStats' = tradesExecuted
  /\ Broadcast(<<Stats>>)
  /\ UNCHANGED <<tradesExecuted, scans, server, tradeHistory, opportunities, connections>>

(* A scan ends: publishStats, then broadcastOpportunities.                 *)
EndScan ==
  /\ scans < MaxScans
  /\ scans' = scans + 1
  /\ systemStats' = tradesExecuted
  /\ opportunities' = scans + 1
  /\ Broadcast(<<Stats, [type |-> "opportunities", payload |-> scans + 1]>>)
  /\ UNCHANGED <<tradesExecuted, starting, server, tradeHistory, connections>>

(* Bug: connections are left to their clients.                             *)
StopListening ==
  /\ server = "listening"
  /\ server' = "closing"
  /\ UNCHANGED <<produced, served, connections, sent>>

(* stop(): app.close() refuses new connections and begins to close those   *)
(* there are.                                                              *)
Stop ==
  /\ server = "listening"
  /\ server' = "closing"
  /\ readyState' = [s \in Sockets |->
                      IF readyState[s] = "open" THEN "closing" ELSE readyState[s]]
  /\ UNCHANGED <<produced, served, route, clients, sent>>

(* It settles when no connection is left.                                  *)
Stopped ==
  /\ server = "closing"
  /\ \A s \in Sockets : readyState[s] = "none"
  /\ server' = "closed"
  /\ UNCHANGED <<produced, served, connections, sent>>

Done == server = "closed" /\ UNCHANGED vars

-----------------------------------------------------------------------------
Next ==
  \/ RecordTrade \/ PublishStats \/ EndScan
  \/ Stop \/ Stopped \/ Done
  \/ \E s \in Sockets :
       \/ \E r \in Routes : Connect(s, r)
       \/ \E error \in BOOLEAN : Leave(s, error)
       \/ Gone(s)

Spec == Init /\ [][Next]_vars

(* A closing handshake ends: ws cuts it off after 30 seconds.  Nothing     *)
(* makes a client close a connection that is open.                         *)
FairSpec ==
  /\ Spec
  /\ WF_vars(Stopped)
  /\ \A s \in Sockets : WF_vars(readyState[s] = "closing" /\ Gone(s))

-----------------------------------------------------------------------------
(* Properties                                                              *)

AllTrades == [i \in 1..tradesExecuted |-> i]

(* The latest trade that a message about trades tells of.                  *)
LatestIn(message) ==
  CASE message.type = "trade" -> message.payload
    [] message.type = "trades" -> IF message.payload = << >> THEN 0 ELSE message.payload[1]

(* The places of those messages in what was sent on a connection.          *)
TradeMessages(messages) ==
  {i \in DOMAIN messages : messages[i].type \in {"trades", "trade"}}

(* A snapshot has the latest trade and those before it, to a full page.    *)
FullPage(message) ==
  /\ message.type = "trades"
  /\ Len(message.payload) = IF LatestIn(message) < Page THEN LatestIn(message) ELSE Page
  /\ \A i \in DOMAIN message.payload : message.payload[i] = LatestIn(message) - i + 1

(* A full page comes first, and each message about trades is the latest or *)
(* is followed by the next trade.                                          *)
NoGap(messages, latest) ==
  /\ 1 \in TradeMessages(messages) /\ FullPage(messages[1])
  /\ \A i \in TradeMessages(messages) :
       \/ \E j \in TradeMessages(messages) :
            /\ j > i /\ \A k \in TradeMessages(messages) : k <= i \/ k >= j
            /\ messages[j] = [type |-> "trade", payload |-> LatestIn(messages[i]) + 1]
       \/ /\ \A j \in TradeMessages(messages) : j <= i
          /\ LatestIn(messages[i]) = latest

(* A client of /ws/trades knows the latest trades without a gap and none   *)
(* twice, whenever it has connected: the snapshot and the broadcasts fit   *)
(* together, at the page size and when the history is trimmed in between.  *)
StreamsHaveNoGap ==
  \A s \in Sockets :
    readyState[s] = "open" /\ route[s] = "trades" => NoGap(sent[s], tradesExecuted)

(* The two ways to learn the trades agree: GET /api/trades with any limit  *)
(* answers with the latest trades, newest first, no more than it was asked *)
(* for or may give, and fewer only when there are no more.  (A negative    *)
(* limit is not among them: slice then drops trades from the front.)       *)
AnswersAgree ==
  \A query \in 0..MaxLimit + 1 :
    LET answer == GetTrades(query)
    IN  /\ IsPrefix(answer, Reverse(AllTrades))
        /\ Len(answer) <= MaxLimit
        /\ query # 0 => Len(answer) <= query
        /\ \/ Len(answer) = tradesExecuted
           \/ Len(answer) >= IF query \in 1..MaxLimit THEN query ELSE Page

(* stop() settles although clients stay connected, which is what lets the  *)
(* orchestrator exit (Orchestrator!ApiClosed).                             *)
StopSettles == (server = "closing") ~> (server = "closed")
=============================================================================
