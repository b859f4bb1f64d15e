-------------------------- MODULE DashboardProofs ---------------------------
(***************************************************************************)
(* The RealtimeClient has one connection, never gives it up while the hook *)
(* is mounted and leaves nothing behind when it is not, for any number of  *)
(* sockets and whatever the server and the network do.  Against the server *)
(* of this repository it never gets a connection.                          *)
(***************************************************************************)
EXTENDS Dashboard, TLAPS

(* Sockets whose handlers were taken away have been told to close.         *)
DetachedAreClosing ==
  \A s \in detached : readyState[s] \in {"closing", "closed"}

(* The ping interval that is stored is the one of the connection, and a    *)
(* connection is up from onopen to onclose.                                *)
ConnectedIsPinged ==
  IF connected
  THEN pingTimer = ws /\ readyState[ws] \in {"open", "closing"}
  ELSE pingTimer = NoSocket /\ (ws # NoSocket => readyState[ws] # "open")

(* Before the hook is mounted there is nothing, and only while it is       *)
(* mounted is there a current socket.                                      *)
NothingYet ==
  /\ effect = "absent" => Live = {} /\ ~reconnectTimer
  /\ effect # "mounted" => ws = NoSocket

ClientType ==
  /\ effect \in {"absent", "mounted", "cleaned", "remounted"}
  /\ readyState \in [Sockets -> {"connecting", "open", "closing", "closed"}]
  /\ detached \subseteq Sockets
  /\ ws \in Sockets \cup {NoSocket}
  /\ connected \in BOOLEAN /\ reconnectTimer \in BOOLEAN

ClientInv ==
  /\ ClientType
  /\ DetachedAreClosing /\ ConnectedIsPinged /\ NothingYet
  /\ OneConnection /\ NeverGivesUp /\ NothingLeftBehind

(* What the invariant is about.                                            *)
clientState == <<effect, polling, readyState, detached, client>>

LEMMA InitClient == Init => ClientInv
  BY DashboardConstants
     DEF Init, ClientInv, ClientType, DetachedAreClosing, ConnectedIsPinged, NothingYet,
         OneConnection, NeverGivesUp, NothingLeftBehind, Live

LEMMA SameClient == ClientInv /\ UNCHANGED clientState => ClientInv'
  BY DEF ClientInv, ClientType, DetachedAreClosing, ConnectedIsPinged, NothingYet,
         OneConnection, NeverGivesUp, NothingLeftBehind, Live, clientState, client

LEMMA OpenStep ==
  ASSUME ClientInv, NEW s \in Sockets, Open(s) PROVE ClientInv'
<1>0. s \in Live \ detached
  BY DEF ClientInv, DetachedAreClosing, Open, Live
<1>1. s = ws
  BY <1>0 DEF ClientInv, OneConnection
<1>2. effect = "mounted"
  BY <1>0 DEF ClientInv, ClientType, NothingLeftBehind, NothingYet, Open
<1> QED
  BY <1>0, <1>1, <1>2, DashboardConstants
     DEF ClientInv, ClientType, DetachedAreClosing, ConnectedIsPinged, NothingYet,
         OneConnection, NeverGivesUp, NothingLeftBehind, Live, Open

(* onclose: a socket that still has its handlers is the current one.       *)
LEMMA ClosedStep ==
  ASSUME ClientInv, NEW s \in Sockets, NEW error \in BOOLEAN, Closed(s, error)
  PROVE  ClientInv'
<1>1. CASE s \in detached
  BY <1>1, DashboardConstants
     DEF ClientInv, ClientType, DetachedAreClosing, ConnectedIsPinged, NothingYet,
         OneConnection, NeverGivesUp, NothingLeftBehind, Live, Closed, Closing, client
<1>2. CASE s \notin detached
  <2>1. s = ws
    BY <1>2 DEF ClientInv, OneConnection, Closed, Live
  <2>2. effect = "mounted" /\ UNCHANGED <<effect, polling, detached, ws>>
    BY <1>2, <2>1, DashboardConstants
       DEF ClientInv, NothingYet, Closed, OnClose
  <2>3. readyState' = [readyState EXCEPT ![s] = "closed"]
    BY <2>1 DEF Closed, Closing, ClientInv, ClientType
  <2>4. Live' = Live \ {s}
    BY <2>3 DEF Live, ClientInv, ClientType
  <2>5. pingTimer' = NoSocket /\ intervals' = {} /\ connected' = FALSE /\ reconnectTimer' = TRUE
    BY <1>2, <2>1 DEF Closed, OnClose, ClientInv, ClientType, OneConnection, ConnectedIsPinged
  <2>6. ClientType' /\ DetachedAreClosing' /\ ConnectedIsPinged'
    BY <2>1, <2>2, <2>3, <2>5, DashboardConstants
       DEF ClientInv, ClientType, DetachedAreClosing, ConnectedIsPinged
  <2>7. OneConnection'
    BY <2>1, <2>2, <2>4, <2>5 DEF ClientInv, OneConnection
  <2>8. NothingYet' /\ NeverGivesUp' /\ NothingLeftBehind'
    BY <2>2, <2>5 DEF NothingYet, NeverGivesUp, NothingLeftBehind
  <2> QED
    BY <2>6, <2>7, <2>8 DEF ClientInv
<1> QED
  BY <1>1, <1>2

(* connect() is called only when there is no socket alive but detached     *)
(* ones: at mount, and by the timer that onclose has set.                  *)
LEMMA NewSocketStep ==
  ASSUME ClientInv, NewSocket, Live \subseteq detached, ~connected,
         effect' = "mounted", UNCHANGED <<connected, pingTimer, intervals>>,
         reconnectTimer' = FALSE
  PROVE  ClientInv'
<1>1. PICK s \in Sockets : /\ readyState[s] = "closed"
                           /\ readyState' = [readyState EXCEPT ![s] = "connecting"]
                           /\ detached' = detached \ {s}
                           /\ ws' = s
  BY DEF NewSocket
<1>2. readyState \in [Sockets -> {"connecting", "open", "closing", "closed"}]
  BY DEF ClientInv, ClientType
<1>3. Live' = Live \cup {s} /\ s \notin Live
  BY <1>1, <1>2 DEF Live
<1>4. pingTimer = NoSocket /\ intervals = {}
  BY DEF ClientInv, ConnectedIsPinged, OneConnection
<1>5. ClientType' /\ DetachedAreClosing' /\ ConnectedIsPinged'
  BY <1>1, <1>2, <1>4, DashboardConstants
     DEF ClientInv, ClientType, DetachedAreClosing, ConnectedIsPinged
<1>6. OneConnection' /\ NeverGivesUp'
  BY <1>1, <1>3, <1>4 DEF OneConnection, NeverGivesUp
<1>7. NothingYet' /\ NothingLeftBehind'
  BY DEF NothingYet, NothingLeftBehind
<1> QED
  BY <1>5, <1>6, <1>7 DEF ClientInv

LEMMA ReconnectStep ==
  ASSUME ClientInv, NEW made \in BOOLEAN, Reconnect(made) PROVE ClientInv'
<1>1. /\ reconnectTimer /\ Live \subseteq detached /\ ~connected /\ ~IsOpen(ws)
      /\ effect = "mounted"
  BY DEF ClientInv, ClientType, OneConnection, NothingYet, NothingLeftBehind, Reconnect,
         Live, IsOpen
<1>2. CASE made
  BY <1>1, <1>2, NewSocketStep DEF Reconnect
<1>3. CASE ~made
  BY <1>1, <1>3, SameClient DEF Reconnect, clientState, client, network
<1> QED
  BY <1>2, <1>3

LEMMA MountStep == ClientInv /\ Mount => ClientInv'
<1> SUFFICES ASSUME ClientInv, Mount PROVE ClientInv'
  OBVIOUS
<1>1. Live = {} /\ ~connected /\ ~reconnectTimer /\ ws = NoSocket
  BY DashboardConstants
     DEF ClientInv, OneConnection, NothingYet, Mount
<1>2. CASE NewSocket /\ UNCHANGED reconnectTimer
  BY <1>1, <1>2, NewSocketStep DEF Mount, ClientInv, ClientType
<1>3. CASE UNCHANGED <<network, ws>> /\ reconnectTimer' = TRUE
  BY <1>1, <1>3, DashboardConstants
     DEF ClientInv, ClientType, DetachedAreClosing, ConnectedIsPinged, NothingYet,
         OneConnection, NeverGivesUp, NothingLeftBehind, Live, Mount, network
<1> QED
  BY <1>2, <1>3 DEF Mount

LEMMA UnmountStep == ClientInv /\ Unmount => ClientInv'
  BY DashboardConstants
     DEF ClientInv, ClientType, DetachedAreClosing, ConnectedIsPinged, NothingYet,
         OneConnection, NeverGivesUp, NothingLeftBehind, Live, Unmount, Disconnect, Closing

LEMMA RemountStep == ClientInv /\ Remount => ClientInv'
  BY DEF ClientInv, ClientType, DetachedAreClosing, ConnectedIsPinged, NothingYet,
         OneConnection, NeverGivesUp, NothingLeftBehind, Live, Remount, network, client

LEMMA ClientStep == ClientInv /\ [Next]_vars => ClientInv'
<1> SUFFICES ASSUME ClientInv, [Next]_vars PROVE ClientInv'
  OBVIOUS
<1>1. ASSUME NEW s \in Sockets, SocketStep(s) PROVE ClientInv'
  <2>1. CASE Deliver(s) \/ Push(s)
    BY <2>1, SameClient DEF Deliver, Push, clientState, client
  <2> QED
    BY <1>1, <2>1, OpenStep, ClosedStep DEF SocketStep
<1>2. ASSUME NEW f \in Fetches, FetchStep(f) PROVE ClientInv'
  BY <1>2, SameClient
     DEF FetchStep, Poll, Answer, Refuse, Receive, clientState, client, network
<1>3. CASE Change \/ Quiet \/ UNCHANGED vars
  BY <1>3, SameClient DEF Change, Quiet, vars, clientState, client, network
<1> QED
  BY <1>1, <1>2, <1>3, MountStep, UnmountStep, RemountStep, ReconnectStep DEF Next

THEOREM ClientInvariant == Spec => []ClientInv
  BY InitClient, ClientStep, PTL DEF Spec

(* No second connection is made or planned beside the current one.         *)
THEOREM OneConnectionAtATime == Spec => []OneConnection
<1>1. ClientInv => OneConnection
  BY DEF ClientInv
<1> QED
  BY <1>1, ClientInvariant, PTL

(* While the hook is mounted the client has a connection whose end it will *)
(* hear of, or plans one.                                                  *)
THEOREM ClientNeverGivesUp == Spec => []NeverGivesUp
<1>1. ClientInv => NeverGivesUp
  BY DEF ClientInv
<1> QED
  BY <1>1, ClientInvariant, PTL

(* The hook's cleanup ends everything for good.                            *)
THEOREM CleanupIsFinal == Spec => []NothingLeftBehind
<1>1. ClientInv => NothingLeftBehind
  BY DEF ClientInv
<1> QED
  BY <1>1, ClientInvariant, PTL
-----------------------------------------------------------------------------
(* Type correctness                                                        *)

FetchState == [at : {"idle", "sent", "answered", "failed"}, value : Versions]

MessagesType == inbox \in [Sockets -> {q \in Seq(Versions) : Len(q) <= MaxQueue}]

StoreType ==
  /\ routes \in Servers
  /\ version \in Versions
  /\ fetches \in [Fetches -> FetchState]
  /\ value \in Versions \cup {NoValue}
  /\ loading \in BOOLEAN /\ failed \in BOOLEAN /\ polling \in BOOLEAN

PingType == pingTimer \in Sockets \cup {NoSocket} /\ intervals \subseteq Sockets

AllTyped == MessagesType /\ StoreType /\ PingType

LEMMA VersionsType == 0 \in Versions /\ \A v \in Versions : v < MaxVersion => v + 1 \in Versions
  BY DashboardConstants DEF Versions

(* An inbox that is emptied or loses its first message is one still.       *)
LEMMA InboxFacts ==
  /\ << >> \in {q \in Seq(Versions) : Len(q) <= MaxQueue}
  /\ \A q \in Seq(Versions) :
       /\ Len(q) < MaxQueue => \A v \in Versions :
            Append(q, v) \in {r \in Seq(Versions) : Len(r) <= MaxQueue}
       /\ q # << >> /\ Len(q) <= MaxQueue =>
            /\ Head(q) \in Versions
            /\ Tail(q) \in {r \in Seq(Versions) : Len(r) <= MaxQueue}
<1> HIDE DEF Versions
<1>1. MaxQueue \in Nat /\ MaxQueue > 0
  BY DashboardConstants
<1>2. << >> \in Seq(Versions) /\ Len(<< >>) = 0
  OBVIOUS
<1>3. ASSUME NEW q \in Seq(Versions), Len(q) < MaxQueue, NEW v \in Versions
      PROVE  Append(q, v) \in Seq(Versions) /\ Len(Append(q, v)) <= MaxQueue
  BY <1>1, <1>3
<1>4. ASSUME NEW q \in Seq(Versions), q # << >>, Len(q) <= MaxQueue
      PROVE  /\ Head(q) \in Versions
             /\ Tail(q) \in Seq(Versions) /\ Len(Tail(q)) <= MaxQueue
  BY <1>1, <1>4
<1> QED
  BY <1>1, <1>2, <1>3, <1>4

LEMMA NewSocketMessages == MessagesType /\ NewSocket => MessagesType'
  BY InboxFacts DEF MessagesType, NewSocket

(* A fetch that starts or settles leaves the store typed.                  *)
LEMMA StartFetchType ==
  ASSUME StoreType, NEW f \in Fetches, StartFetch(f)
  PROVE  /\ fetches' \in [Fetches -> FetchState]
         /\ loading' \in BOOLEAN /\ failed' \in BOOLEAN
         /\ value' = value
  BY DEF StoreType, StartFetch, FetchState

LEMMA ReceiveType ==
  ASSUME StoreType, NEW f \in Fetches, Receive(f) PROVE StoreType'
<1>1. fetches[f].value \in Versions /\ Idle \in FetchState
  BY VersionsType DEF StoreType, FetchState, Idle
<1>2. fetches' \in [Fetches -> FetchState]
  BY <1>1 DEF StoreType, Receive
<1>3. value' \in Versions \cup {NoValue}
  BY <1>1 DEF StoreType, Receive, Settle
<1>4. loading' \in BOOLEAN /\ failed' \in BOOLEAN
  BY Zenon DEF StoreType, Receive, Settle
<1> QED
  BY <1>2, <1>3, <1>4 DEF StoreType, Receive

LEMMA TypesStep == ClientInv /\ AllTyped /\ [Next]_vars => AllTyped'
<1> SUFFICES ASSUME ClientInv, AllTyped, [Next]_vars PROVE AllTyped'
  OBVIOUS
<1> USE DEF AllTyped, client, network, store
<1>1. CASE Mount
  <2>1. PICK f \in Fetches : StartFetch(f)
    BY <1>1 DEF Mount
  <2>2. StoreType'
    BY <1>1, <2>1, StartFetchType DEF Mount, StoreType
  <2> QED
    BY <1>1, <2>2, NewSocketMessages DEF Mount, MessagesType, PingType
<1>2. CASE Unmount
  BY <1>2 DEF Unmount, Disconnect, MessagesType, StoreType, PingType
<1>3. CASE Remount \/ Quiet \/ UNCHANGED vars
  BY <1>3 DEF Remount, Quiet, vars, MessagesType, StoreType, PingType
<1>4. CASE Change
  <2>1. version' \in Versions
    BY <1>4, VersionsType DEF Change, StoreType
  <2> QED
    BY <1>4, <2>1 DEF Change, MessagesType, StoreType, PingType
<1>5. ASSUME NEW s \in Sockets, SocketStep(s) PROVE AllTyped'
  <2>1. CASE Open(s)
    BY <2>1 DEF Open, MessagesType, StoreType, PingType
  <2>2. CASE Deliver(s)
    <3>1. inbox[s] \in Seq(Versions) /\ Len(inbox[s]) <= MaxQueue
      BY DEF MessagesType
    <3>2. value' \in Versions /\ MessagesType'
      BY <2>2, <3>1, InboxFacts DEF Deliver, MessagesType
    <3> QED
      BY <2>2, <3>2 DEF Deliver, StoreType, PingType
  <2>3. CASE Push(s)
    <3>1. inbox[s] \in Seq(Versions) /\ version \in Versions
      BY DEF MessagesType, StoreType
    <3>2. MessagesType'
      BY <2>3, <3>1, InboxFacts DEF Push, MessagesType
    <3> QED
      BY <2>3, <3>2 DEF Push, StoreType, PingType
  <2>4. ASSUME NEW error \in BOOLEAN, Closed(s, error) PROVE AllTyped'
    <3>1. MessagesType'
      BY <2>4, InboxFacts DEF Closed, MessagesType
    <3>2. PingType'
      BY <2>4 DEF Closed, OnClose, PingType
    <3> QED
      BY <2>4, <3>1, <3>2 DEF Closed, StoreType
  <2> QED
    BY <1>5, <2>1, <2>2, <2>3, <2>4 DEF SocketStep
<1>6. ASSUME NEW f \in Fetches, FetchStep(f) PROVE AllTyped'
  <2>1. CASE Poll(f)
    BY <2>1, StartFetchType DEF Poll, MessagesType, StoreType, PingType
  <2>2. CASE Answer(f) \/ Refuse(f)
    <3>1. fetches' \in [Fetches -> FetchState]
      BY <2>2 DEF Answer, Refuse, StoreType, FetchState
    <3> QED
      BY <2>2, <3>1 DEF Answer, Refuse, MessagesType, StoreType, PingType
  <2>3. CASE Receive(f)
    BY <2>3, ReceiveType DEF Receive, MessagesType, PingType
  <2> QED
    BY <1>6, <2>1, <2>2, <2>3 DEF FetchStep
<1>7. ASSUME NEW made \in BOOLEAN, Reconnect(made) PROVE AllTyped'
  <2>1. MessagesType'
    BY <1>7, NewSocketMessages DEF Reconnect, MessagesType
  <2> QED
    BY <1>7, <2>1 DEF Reconnect, StoreType, PingType
<1> QED
  BY <1>1, <1>2, <1>3, <1>4, <1>5, <1>6, <1>7 DEF Next

LEMMA TypesInvariant == Spec => []AllTyped
<1>1. Init => AllTyped
  <2> SUFFICES ASSUME Init PROVE AllTyped
    OBVIOUS
  <2>1. MessagesType
    BY InboxFacts DEF Init, MessagesType
  <2>2. Idle \in FetchState
    BY VersionsType DEF Idle, FetchState
  <2>3. StoreType
    BY <2>2, VersionsType DEF Init, StoreType
  <2> QED
    BY <2>1, <2>3 DEF Init, AllTyped, PingType
<1> QED
  BY <1>1, TypesStep, ClientInvariant, PTL DEF Spec

(* The client, what is on its way and the store keep their types for any   *)
(* number of sockets and requests and any number of messages on their way. *)
THEOREM TypeCorrect == Spec => []TypeOK
<1>1. ClientInv /\ AllTyped => TypeOK
  BY DEF ClientInv, ClientType, AllTyped, MessagesType, StoreType, PingType, FetchState, TypeOK
<1> QED
  BY <1>1, TypesInvariant, ClientInvariant, PTL
-----------------------------------------------------------------------------
(* The server of this repository                                           *)

(* Without the client's routes no socket gets open and no request is       *)
(* answered, so that nothing reaches the store.                            *)
NothingArrives ==
  routes = ServerRoutes =>
    /\ ~connected /\ value = NoValue
    /\ \A s \in Sockets : readyState[s] # "open"
    /\ \A f \in Fetches : fetches[f].at # "answered"

LEMMA RoutesMissing == SocketRoute \notin ServerRoutes /\ FieldRoute \notin ServerRoutes
  BY DEF SocketRoute, FieldRoute, ServerRoutes

LEMMA NothingArrivesStep ==
  ClientInv /\ AllTyped /\ NothingArrives /\ [Next]_vars => NothingArrives'
<1> SUFFICES ASSUME ClientInv, AllTyped, NothingArrives, [Next]_vars,
                    routes' = ServerRoutes
             PROVE  /\ ~connected' /\ value' = NoValue
                    /\ \A s \in Sockets : readyState'[s] # "open"
                    /\ \A f \in Fetches : fetches'[f].at # "answered"
  BY DEF NothingArrives
<1>1. /\ readyState \in [Sockets -> {"connecting", "open", "closing", "closed"}]
      /\ fetches \in [Fetches -> FetchState]
  BY DEF ClientInv, ClientType, AllTyped, StoreType
<1>2. routes = ServerRoutes
  BY DEF Next, SocketStep, FetchStep, Mount, Unmount, Remount, Change, Quiet, Open, Deliver,
         Push, Closed, Poll, Answer, Refuse, Receive, Reconnect, vars
<1>3. /\ ~connected /\ value = NoValue
      /\ \A s \in Sockets : readyState[s] # "open"
      /\ \A f \in Fetches : fetches[f].at # "answered"
  BY <1>2 DEF NothingArrives
<1> USE DEF client, network, store
<1>4. CASE Mount
  <2>1. UNCHANGED <<connected, value>> /\ \A f \in Fetches : fetches'[f].at # "answered"
    BY <1>1, <1>3, <1>4 DEF Mount, StartFetch, FetchState
  <2>2. \A s \in Sockets : readyState'[s] # "open"
    BY <1>1, <1>3, <1>4 DEF Mount, NewSocket
  <2> QED
    BY <1>3, <2>1, <2>2
<1>5. CASE Unmount
  BY <1>1, <1>3, <1>5 DEF Unmount, Disconnect, Closing
<1>6. CASE Remount \/ Change \/ Quiet \/ UNCHANGED vars
  BY <1>3, <1>6 DEF Remount, Change, Quiet, vars
<1>7. ASSUME NEW s \in Sockets, SocketStep(s)
      PROVE  /\ ~connected' /\ UNCHANGED <<value, fetches>>
             /\ \A t \in Sockets : readyState'[t] # "open"
  <2>1. ~Open(s) /\ ~Push(s) /\ ~Deliver(s)
    BY <1>2, <1>3, RoutesMissing DEF Open, Push, Deliver
  <2>2. PICK error \in BOOLEAN : Closed(s, error)
    BY <1>7, <2>1 DEF SocketStep
  <2> QED
    BY <1>1, <1>3, <2>2 DEF Closed, Closing, OnClose
<1>8. ASSUME NEW f \in Fetches, FetchStep(f)
      PROVE  /\ UNCHANGED <<connected, readyState, value>>
             /\ \A g \in Fetches : fetches'[g].at # "answered"
  <2>1. ~Answer(f)
    BY <1>2, RoutesMissing DEF Answer
  <2>2. CASE Poll(f) \/ Refuse(f)
    BY <1>1, <1>3, <2>2 DEF Poll, StartFetch, Refuse, FetchState
  <2>3. CASE Receive(f)
    BY <1>1, <1>3, <2>3 DEF Receive, Settle, Idle, FetchState
  <2> QED
    BY <1>8, <2>1, <2>2, <2>3 DEF FetchStep
<1>9. ASSUME NEW made \in BOOLEAN, Reconnect(made)
      PROVE  /\ UNCHANGED <<connected, value, fetches>>
             /\ \A s \in Sockets : readyState'[s] # "open"
  BY <1>1, <1>3, <1>9 DEF Reconnect, NewSocket
<1> QED
  BY <1>3, <1>4, <1>5, <1>6, <1>7, <1>8, <1>9 DEF Next

(* Against the server of this repository no connection is ever made and    *)
(* the polled field never shows anything: the dashboard's live data, which *)
(* docs/ARCHITECTURE.md promises in real time, is never live.              *)
NothingIsLive == routes = ServerRoutes => ~connected /\ value = NoValue

(* Against the server of this repository, whose routes are not those the   *)
(* client asks for, the page is never connected and never shows a polled   *)
(* value, for any number of sockets, requests and retries.                 *)
THEOREM NeverLive == Spec => []NothingIsLive
<1>1. Init => NothingArrives
  BY DEF Init, NothingArrives, Idle
<1>2. NothingArrives => NothingIsLive
  BY DEF NothingArrives, NothingIsLive
<1> QED
  BY <1>1, <1>2, NothingArrivesStep, TypesInvariant, ClientInvariant, PTL DEF Spec
=============================================================================
