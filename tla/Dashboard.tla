----------------------------- MODULE Dashboard ------------------------------
(***************************************************************************)
(* The dashboard's live data (dashboard/src/stores/useRealtime.ts with     *)
(* api/websocket.ts and stores/useDashboardStore.ts): the hook's effect    *)
(* fetches, polls and connects the RealtimeClient; fetches and pushes      *)
(* write the same field of the store.                                      *)
(*                                                                         *)
(* The field is one of those that are polled (systemMetrics, dexLatency).  *)
(* Its value is the server's version of it.  Sockets are WebSocket objects *)
(* and are used again once closed, when no event of theirs is left.        *)
(*                                                                         *)
(* The client asks for routes that this repository's server does not have. *)
(* It is checked against that server and against one that has them, as the *)
(* client was written for.                                                 *)
(***************************************************************************)
EXTENDS Integers, Sequences, FiniteSets

CONSTANTS
  Sockets,     \* WebSocket objects
  Fetches,     \* bound: requests under way at the same time
  MaxVersion,  \* bound: how often the server's value changes
  MaxQueue     \* bound: pushed messages a socket has not delivered

NoSocket == "noSocket"
Versions == 0..MaxVersion
NoValue  == -1            \* null in the store
Undefined == -2           \* what the store never holds

(* The routes of orchestrator/src/api, and those of the client: its        *)
(* socket's and the polled field's (the latency's is as absent).           *)
ServerRoutes ==
  {"/api/health", "/api/opportunities", "/api/stats", "/api/trades", "/api/wallets",
   "/api/risk", "/ws/opportunities", "/ws/stats", "/ws/trades"}
SocketRoute == "/ws"
FieldRoute  == "/api/system-metrics"
Servers == {ServerRoutes, ServerRoutes \cup {SocketRoute, FieldRoute}}

ASSUME DashboardConstants ==
  /\ NoSocket \notin Sockets
  /\ MaxVersion \in Nat
  /\ MaxQueue \in Nat \ {0}

VARIABLES
  routes,          \* the routes of the server that is deployed
  effect,          \* useRealtime's first effect: whether it is in force
  polling,         \* pollInterval is running
  readyState,      \* of each socket
  detached,        \* sockets whose onclose is null
  inbox,           \* pushed messages on their way, per socket
  ws, connected,   \* RealtimeClient
  reconnectTimer,
  pingTimer,       \* the stored ping interval, named by the socket it serves
  intervals,       \* the ping intervals that are running
  version,         \* the server's value
  fetches,         \* the requests
  value, loading, failed   \* the store: data, loading and errors of the field

client == <<ws, connected, reconnectTimer, pingTimer, intervals>>
network == <<readyState, detached, inbox>>
store == <<value, loading, failed>>
vars == <<routes, effect, polling, network, client, version, fetches, store>>

TypeOK ==
  /\ routes \in Servers
  /\ effect \in {"absent", "mounted", "cleaned", "remounted"}
  /\ readyState \in [Sockets -> {"connecting", "open", "closing", "closed"}]
  /\ detached \subseteq Sockets
  /\ \A s \in Sockets : inbox[s] \in Seq(Versions) /\ Len(inbox[s]) <= MaxQueue
  /\ {ws, pingTimer} \subseteq Sockets \cup {NoSocket}
  /\ {polling, connected, reconnectTimer, loading, failed} \subseteq BOOLEAN
  /\ intervals \subseteq Sockets
  /\ version \in Versions
  /\ fetches \in [Fetches -> [at : {"idle", "sent", "answered", "failed"}, value : Versions]]
  /\ value \in Versions \cup {NoValue}

Idle == [at |-> "idle", value |-> 0]

Init ==
  /\ routes \in Servers
  /\ effect = "absent" /\ polling = FALSE
  /\ readyState = [s \in Sockets |-> "closed"]
  /\ detached = {}
  /\ inbox = [s \in Sockets |-> << >>]
  /\ ws = NoSocket /\ connected = FALSE /\ reconnectTimer = FALSE
  /\ pingTimer = NoSocket /\ intervals = {}
  /\ version = 0
  /\ fetches = [f \in Fetches |-> Idle]
  /\ value = NoValue /\ loading = FALSE /\ failed = FALSE

-----------------------------------------------------------------------------
(* RealtimeClient                                                          *)

IsOpen(s) == s # NoSocket /\ readyState[s] = "open"

(* WebSocket.close(): the closing handshake begins, or the attempt to      *)
(* connect is given up.                                                    *)
Closing(states, s) ==
  IF s # NoSocket /\ states[s] \in {"connecting", "open"}
  THEN [states EXCEPT ![s] = "closing"]
  ELSE states

(* connect() makes a new socket.                                           *)
NewSocket ==
  \E s \in Sockets :
    /\ readyState[s] = "closed"
    /\ readyState' = [readyState EXCEPT ![s] = "connecting"]
    /\ detached' = detached \ {s}
    /\ inbox' = [inbox EXCEPT ![s] = << >>]
    /\ ws' = s

(* onopen: the stored interval is overwritten, not cleared.  A server      *)
(* without the route refuses the upgrade.                                  *)
Open(s) ==
  /\ SocketRoute \in routes
  /\ readyState[s] = "connecting"
  /\ readyState' = [readyState EXCEPT ![s] = "open"]
  /\ connected' = TRUE
  /\ pingTimer' = s
  /\ intervals' = intervals \cup {s}
  /\ UNCHANGED <<routes, effect, polling, detached, inbox, ws, reconnectTimer, version,
                 fetches, store>>

(* Bug: onclose leaves the ping interval running.                          *)
OnCloseKeepingPing ==
  /\ connected' = FALSE
  /\ reconnectTimer' = TRUE
  /\ UNCHANGED <<pingTimer, intervals>>

(* Bug: a ping that runs is taken for a connection that will come back.    *)
OnCloseOnceOpen ==
  /\ connected' = FALSE
  /\ intervals' = intervals \ {pingTimer}
  /\ pingTimer' = NoSocket
  /\ reconnectTimer' = (reconnectTimer \/ pingTimer = NoSocket)

(* onclose: cleanup() and scheduleReconnect().                             *)
OnClose ==
  /\ connected' = FALSE
  /\ intervals' = intervals \ {pingTimer}
  /\ pingTimer' = NoSocket
  /\ reconnectTimer' = TRUE

(* A connection has ended, was refused or broke.  With an error onerror    *)
(* comes first, which closes whatever socket is the current one.           *)
Closed(s, error) ==
  /\ readyState[s] # "closed"
  /\ readyState[s] = "connecting" => error
  /\ LET states == [readyState EXCEPT ![s] = "closed"]
     IN  readyState' = IF error THEN Closing(states, ws) ELSE states
  /\ inbox' = [inbox EXCEPT ![s] = << >>]
  /\ IF s \in detached THEN UNCHANGED client ELSE OnClose /\ UNCHANGED ws
  /\ UNCHANGED <<routes, effect, polling, detached, version, fetches, store>>

(* Bug: an interval instead of a timeout.                                  *)
ReconnectEvery(made) ==
  /\ reconnectTimer
  /\ IF made THEN NewSocket ELSE UNCHANGED <<network, ws>>
  /\ UNCHANGED <<routes, effect, polling, connected, reconnectTimer, pingTimer, intervals,
                 version, fetches, store>>

(* Bug: a constructor that throws is not retried.                          *)
ReconnectOnce(made) ==
  /\ reconnectTimer
  /\ made => ~IsOpen(ws)
  /\ IF made THEN NewSocket ELSE UNCHANGED <<network, ws>>
  /\ reconnectTimer' = FALSE
  /\ UNCHANGED <<routes, effect, polling, connected, pingTimer, intervals, version,
                 fetches, store>>

(* The timer fires and connect() runs: with a new socket, or rescheduled   *)
(* because the constructor threw.  An open socket would end it.            *)
Reconnect(made) ==
  /\ reconnectTimer
  /\ made => ~IsOpen(ws)
  /\ IF made THEN NewSocket ELSE UNCHANGED <<network, ws>>
  /\ reconnectTimer' = ~(made \/ IsOpen(ws))
  /\ UNCHANGED <<routes, effect, polling, connected, pingTimer, intervals, version,
                 fetches, store>>

(* Bug: the socket's onclose is left in place.                             *)
DisconnectAttached ==
  /\ intervals' = intervals \ {pingTimer}
  /\ pingTimer' = NoSocket
  /\ reconnectTimer' = FALSE
  /\ detached' = detached
  /\ readyState' = Closing(readyState, ws)
  /\ ws' = NoSocket
  /\ connected' = FALSE

Disconnect ==
  /\ intervals' = intervals \ {pingTimer}
  /\ pingTimer' = NoSocket
  /\ reconnectTimer' = FALSE
  /\ detached' = detached \cup ({ws} \ {NoSocket})
  /\ readyState' = Closing(readyState, ws)
  /\ ws' = NoSocket
  /\ connected' = FALSE

-----------------------------------------------------------------------------
(* The store                                                               *)

(* A fetcher runs up to its await.                                         *)
StartFetch(f) ==
  /\ fetches[f].at = "idle"
  /\ fetches' = [fetches EXCEPT ![f].at = "sent"]
  /\ loading' = TRUE /\ failed' = FALSE
  /\ UNCHANGED value

(* Bug: a request that failed is not told from one that was answered.      *)
SettleUnchecked(f) ==
  /\ value' = IF fetches[f].at = "answered" THEN fetches[f].value ELSE Undefined
  /\ loading' = FALSE
  /\ UNCHANGED failed

(* Bug: what is already shown is not replaced by a fetch.                  *)
SettleFirst(f) ==
  /\ value' = IF fetches[f].at = "answered" /\ value = NoValue
              THEN fetches[f].value ELSE value
  /\ loading' = FALSE
  /\ failed' = (failed \/ fetches[f].at = "failed")

(* The rest of a fetcher: the answer replaces the value, whatever arrived  *)
(* since it was asked for; an error is kept until the next fetch.          *)
Settle(f) ==
  /\ value' = IF fetches[f].at = "answered" THEN fetches[f].value ELSE value
  /\ loading' = FALSE
  /\ failed' = (failed \/ fetches[f].at = "failed")

Receive(f) ==
  /\ fetches[f].at \in {"answered", "failed"}
  /\ Settle(f)
  /\ fetches' = [fetches EXCEPT ![f] = Idle]
  /\ UNCHANGED <<routes, effect, polling, network, client, version>>

(* onmessage: the handler of useRealtime sets the field.                   *)
Deliver(s) ==
  /\ readyState[s] = "open" /\ inbox[s] # << >>
  /\ value' = Head(inbox[s])
  /\ inbox' = [inbox EXCEPT ![s] = Tail(@)]
  /\ UNCHANGED <<routes, effect, polling, readyState, detached, client, version, fetches,
                 loading, failed>>

-----------------------------------------------------------------------------
(* useRealtime                                                             *)

Mount ==
  /\ effect = "absent"
  /\ effect' = "mounted" /\ polling' = TRUE
  /\ \E f \in Fetches : StartFetch(f)
  /\ \/ NewSocket /\ UNCHANGED reconnectTimer
     \/ UNCHANGED <<network, ws>> /\ reconnectTimer' = TRUE
  /\ UNCHANGED <<routes, connected, pingTimer, intervals, version>>

Poll(f) ==
  /\ polling
  /\ StartFetch(f)
  /\ UNCHANGED <<routes, effect, polling, network, client, version>>

Unmount ==
  /\ effect = "mounted"
  /\ effect' = "cleaned" /\ polling' = FALSE
  /\ Disconnect
  /\ UNCHANGED <<routes, inbox, version, fetches, store>>

(* React.StrictMode runs the effect again with the same refs: initialized  *)
(* is set, so that it does nothing.                                        *)
Remount ==
  /\ effect = "cleaned"
  /\ effect' = "remounted"
  /\ UNCHANGED <<routes, polling, network, client, version, fetches, store>>

-----------------------------------------------------------------------------
(* The server                                                              *)

Change ==
  /\ version < MaxVersion
  /\ version' = version + 1
  /\ UNCHANGED <<routes, effect, polling, network, client, fetches, store>>

(* A message of the client's protocol (WsMessage).  The server of this     *)
(* repository sends another shape, on sockets the client does not open.    *)
Push(s) ==
  /\ SocketRoute \in routes
  /\ readyState[s] = "open" /\ Len(inbox[s]) < MaxQueue
  /\ inbox' = [inbox EXCEPT ![s] = Append(@, version)]
  /\ UNCHANGED <<routes, effect, polling, readyState, detached, client, version,
                 fetches, store>>

Answer(f) ==
  /\ FieldRoute \in routes
  /\ fetches[f].at = "sent"
  /\ fetches' = [fetches EXCEPT ![f] = [at |-> "answered", value |-> version]]
  /\ UNCHANGED <<routes, effect, polling, network, client, version, store>>

Refuse(f) ==
  /\ fetches[f].at = "sent"
  /\ fetches' = [fetches EXCEPT ![f].at = "failed"]
  /\ UNCHANGED <<routes, effect, polling, network, client, version, store>>

(* The dashboard is gone and nothing is on its way any more.               *)
Quiet ==
  /\ effect = "remounted"
  /\ UNCHANGED vars

SocketStep(s) ==
  \/ Open(s) \/ Deliver(s) \/ Push(s)
  \/ \E error \in BOOLEAN : Closed(s, error)

FetchStep(f) == Poll(f) \/ Answer(f) \/ Refuse(f) \/ Receive(f)

Next ==
  \/ Mount \/ Unmount \/ Remount \/ Change \/ Quiet
  \/ \E s \in Sockets : SocketStep(s)
  \/ \E f \in Fetches : FetchStep(f)
  \/ \E made \in BOOLEAN : Reconnect(made)

Spec == Init /\ [][Next]_vars

(* Timers fire and what has arrived is handled, also when other handlers   *)
(* keep getting in between.                                                *)
BrowserFairness ==
  /\ WF_vars(Mount)
  /\ WF_vars(\E made \in BOOLEAN : Reconnect(made))
  /\ \A f \in Fetches : SF_vars(Poll(f)) /\ WF_vars(Receive(f))
  /\ \A s \in Sockets :
       /\ SF_vars(Deliver(s))
       /\ WF_vars(readyState[s] = "closing" /\ \E error \in BOOLEAN : Closed(s, error))

(* Nothing is assumed of the server.  The browser settles every attempt to *)
(* connect, one way or the other; a request is answered or fails, after    *)
(* the proxy's timeout at the latest; and the WebSocket constructor throws *)
(* only for a URL it cannot parse, so not for good.                        *)
NetworkFairness ==
  /\ SF_vars(Reconnect(TRUE))
  /\ \A s \in Sockets :
       WF_vars(readyState[s] = "connecting" /\ (Open(s) \/ Closed(s, TRUE)))
  /\ \A f \in Fetches : WF_vars(Answer(f) \/ Refuse(f))

FairSpec == Spec /\ BrowserFairness /\ NetworkFairness

-----------------------------------------------------------------------------
(* Properties                                                              *)

Live == {s \in Sockets : readyState[s] # "closed"}

(* There is one connection: no socket but the current one is alive with    *)
(* its handlers, none but a connected one is pinged, and no connection is  *)
(* planned beside it (connect only looks for an open socket, onopen        *)
(* overwrites the stored interval).                                        *)
OneConnection ==
  /\ Live \ detached \subseteq {ws}
  /\ intervals = IF connected THEN {ws} ELSE {}
  /\ connected => ws \in Live
  /\ reconnectTimer => ws \notin Live

(* While the hook's effect is in force the client never gives up: it has a *)
(* socket whose end it will hear of, or a reconnection is planned.         *)
NeverGivesUp ==
  effect = "mounted" => reconnectTimer \/ ws \in Live \ detached

(* Once cleaned up nothing goes on and nothing comes back, also after what *)
(* was on its way has arrived (disconnect, clearInterval).                 *)
NothingLeftBehind ==
  effect \in {"cleaned", "remounted"} =>
    /\ ~reconnectTimer /\ ~polling /\ ~connected /\ intervals = {}
    /\ \A s \in Live : readyState[s] = "closing"

(* A client that stays mounted stays connected, or tries again and again:  *)
(* no order of events, and no server, makes it stop trying.                *)
KeepsTrying ==
  <>[](effect = "mounted") => <>[]connected \/ []<><<Reconnect(TRUE)>>_vars

(* Overlapping fetches and pushes may show an older value for a while, but *)
(* polling puts it right: what is shown ends up as the server's value, or  *)
(* the page says again and again that it could not be fetched.             *)
SettlesOrFails ==
  <>[](effect = "mounted") => <>[](value = version) \/ []<>failed
=============================================================================
