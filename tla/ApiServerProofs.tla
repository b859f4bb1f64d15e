-------------------------- MODULE ApiServerProofs ---------------------------
(***************************************************************************)
(* The API server for every page size, limit and history cap: its state is *)
(* typed, and what it answers about trades is the latest of them.          *)
(***************************************************************************)
EXTENDS ApiServer, TLAPS

(* The sizes, as numbers.                                                  *)
LEMMA Sizes ==
  /\ Page \in Nat /\ Page >= 1 /\ MaxLimit \in Nat /\ HistoryCap \in Nat
  /\ Page <= MaxLimit /\ MaxLimit <= HistoryCap /\ HistoryCap > 0
  /\ MaxTrades \in Nat /\ MaxScans \in Nat
  BY ApiConstants

(* slice(-n) of a positive n: the last n elements, or all there are.       *)
LEMMA SliceBackFacts ==
  ASSUME NEW S, NEW seq \in Seq(S), NEW n \in Nat, n > 0
  PROVE  /\ SliceBack(seq, n) \in Seq(S)
         /\ Len(SliceBack(seq, n)) = IF n >= Len(seq) THEN Len(seq) ELSE n
         /\ \A i \in 1..Len(SliceBack(seq, n)) :
              SliceBack(seq, n)[i] = seq[Len(seq) - Len(SliceBack(seq, n)) + i]
<1>1. CASE n >= Len(seq)
  <2>1. SliceBack(seq, n) = seq
    BY <1>1 DEF SliceBack
  <2>2. \A i \in 1..Len(seq) : Len(seq) - Len(seq) + i = i
    OBVIOUS
  <2> QED
    BY <1>1, <2>1, <2>2
<1>2. CASE n < Len(seq)
  <2> DEFINE from == Len(seq) - n + 1
  <2>1. SliceBack(seq, n) = SubSeq(seq, from, Len(seq))
    BY <1>2 DEF SliceBack
  <2>2. from \in 1..Len(seq)
    BY <1>2
  <2>3. /\ SubSeq(seq, from, Len(seq)) \in Seq(S)
        /\ Len(SubSeq(seq, from, Len(seq))) = n
        /\ \A i \in 1..n : SubSeq(seq, from, Len(seq))[i] = seq[from + i - 1]
    BY <1>2, <2>2
  <2>4. \A i \in 1..n : from + i - 1 = Len(seq) - n + i
    BY <1>2
  <2> QED
    BY <1>2, <2>1, <2>3, <2>4
<1> QED
  BY <1>1, <1>2

(* reverse() keeps the elements and the length.                            *)
LEMMA ReverseFacts ==
  ASSUME NEW S, NEW seq \in Seq(S)
  PROVE  /\ Reverse(seq) \in Seq(S)
         /\ Len(Reverse(seq)) = Len(seq)
         /\ \A i \in 1..Len(seq) : Reverse(seq)[i] = seq[Len(seq) - i + 1]
<1>1. \A i \in 1..Len(seq) : Len(seq) - i + 1 \in 1..Len(seq)
  OBVIOUS
<1>2. Reverse(seq) \in [1..Len(seq) -> S]
  BY <1>1 DEF Reverse
<1>3. Reverse(seq) \in Seq(S) /\ Len(Reverse(seq)) = Len(seq)
  BY <1>2
<1> QED
  BY <1>3 DEF Reverse

-----------------------------------------------------------------------------
(* Type correctness                                                        *)

SentType == sent \in [Sockets -> Seq(Message)]

(* A client that connects is sent messages.                                *)
LEMMA SnapshotType ==
  ASSUME TypeOK, NEW r \in Routes
  PROVE  Snapshot(r) \in Seq(Message)
<1>1. tradeHistory \in Seq(1..MaxTrades)
  BY DEF TypeOK
<1>2. Reverse(SliceBack(tradeHistory, Page)) \in Seq(1..MaxTrades)
  BY <1>1, Sizes, SliceBackFacts, ReverseFacts
<1>3. [type |-> "trades", payload |-> Reverse(SliceBack(tradeHistory, Page))] \in Message
  BY <1>2 DEF Message
<1>4. /\ systemStats # Unpublished => [type |-> "stats", payload |-> systemStats] \in Message
      /\ [type |-> "opportunities", payload |-> opportunities] \in Message
  BY Sizes DEF TypeOK, Message, Unpublished
<1>5. \A m \in Message : <<m>> \in Seq(Message)
  OBVIOUS
<1> QED
  BY <1>3, <1>4, <1>5 DEF Snapshot, Routes

(* A broadcast appends messages.                                           *)
LEMMA BroadcastType ==
  ASSUME SentType, NEW messages \in Seq(Message), Broadcast(messages)
  PROVE  SentType'
<1> HIDE DEF Message
<1>1. ASSUME NEW s \in Sockets
      PROVE  sent[s] \in Seq(Message) /\ sent[s] \o messages \in Seq(Message)
  BY DEF SentType
<1> QED
  BY <1>1 DEF SentType, Broadcast

(* The history is trimmed to its cap after each push (broadcastTrade).     *)
LEMMA KeptType ==
  ASSUME TypeOK, tradesExecuted < MaxTrades
  PROVE  LET next == Kept(Append(tradeHistory, tradesExecuted + 1))
         IN  next \in Seq(1..MaxTrades) /\ Len(next) <= HistoryCap
<1>1. Append(tradeHistory, tradesExecuted + 1) \in Seq(1..MaxTrades)
  BY Sizes DEF TypeOK
<1> DEFINE next == SliceBack(Append(tradeHistory, tradesExecuted + 1), HistoryCap)
<1>2. next \in Seq(1..MaxTrades)
  BY <1>1, Sizes, SliceBackFacts
<1>3. Len(next) <= HistoryCap
  <2> DEFINE all == Append(tradeHistory, tradesExecuted + 1)
  <2>1. Len(next) = IF HistoryCap >= Len(all) THEN Len(all) ELSE HistoryCap
    BY <1>1, Sizes, SliceBackFacts
  <2>2. Len(all) \in Nat
    BY <1>1
  <2> HIDE DEF all, next
  <2> QED
    BY <2>1, <2>2, Sizes
<1> QED
  BY <1>2, <1>3 DEF Kept

(* Every step keeps the state typed.                                       *)
LEMMA TypeStep == TypeOK /\ SentType /\ [Next]_vars => TypeOK' /\ SentType'
<1> SUFFICES ASSUME TypeOK, SentType, [Next]_vars PROVE TypeOK' /\ SentType'
  OBVIOUS
<1> USE DEF produced, served, connections
<1>0. SentType' => \A s \in Sockets : \A i \in DOMAIN sent'[s] : sent'[s][i] \in Message
  BY DEF SentType
<1>1. CASE RecordTrade
  <2>1. <<[type |-> "trade", payload |-> tradesExecuted + 1]>> \in Seq(Message)
    BY <1>1, Sizes DEF RecordTrade, TypeOK, Message
  <2>2. SentType'
    BY <1>1, <2>1, BroadcastType DEF RecordTrade
  <2>3. tradesExecuted' \in 0..MaxTrades
    BY <1>1, Sizes DEF RecordTrade, TypeOK
  <2>4. tradeHistory' \in Seq(1..MaxTrades) /\ Len(tradeHistory') <= HistoryCap
    BY <1>1, KeptType DEF RecordTrade
  <2> QED
    BY <1>0, <1>1, <2>2, <2>3, <2>4 DEF RecordTrade, TypeOK
<1>2. CASE PublishStats
  <2>1. <<Stats>> \in Seq(Message)
    BY Sizes DEF TypeOK, Stats, Message
  <2>2. SentType'
    BY <1>2, <2>1, BroadcastType DEF PublishStats
  <2> QED
    BY <1>0, <1>2, <2>2 DEF PublishStats, TypeOK
<1>3. CASE EndScan
  <2>1. <<Stats, [type |-> "opportunities", payload |-> scans + 1]>> \in Seq(Message)
    BY <1>3, Sizes DEF TypeOK, Stats, Message
  <2>2. SentType'
    BY <1>3, <2>1, BroadcastType DEF EndScan
  <2>3. scans' \in 0..MaxScans /\ opportunities' \in 0..MaxScans
    BY <1>3, Sizes DEF EndScan, TypeOK
  <2> QED
    BY <1>0, <1>3, <2>2, <2>3 DEF EndScan, TypeOK
<1>4. CASE Stop
  BY <1>4 DEF Stop, TypeOK, SentType
<1>5. CASE Stopped \/ Done \/ UNCHANGED vars
  BY <1>5 DEF Stopped, Done, vars, TypeOK, SentType
<1>6. ASSUME NEW s \in Sockets, NEW r \in Routes, Connect(s, r)
      PROVE  TypeOK' /\ SentType'
  <2>1. SentType'
    BY <1>6, SnapshotType DEF Connect, SentType
  <2>2. /\ readyState' \in [Sockets -> {"none", "open", "closing"}]
        /\ route' \in [Sockets -> Routes]
        /\ clients' \subseteq {c \in Sockets : readyState'[c] # "none"}
    BY <1>6 DEF Connect, TypeOK
  <2> QED
    BY <1>0, <1>6, <2>1, <2>2 DEF Connect, TypeOK
<1>7. ASSUME NEW s \in Sockets, NEW error \in BOOLEAN, Leave(s, error)
      PROVE  TypeOK' /\ SentType'
  <2>1. /\ readyState' \in [Sockets -> {"none", "open", "closing"}]
        /\ clients' \subseteq {c \in Sockets : readyState'[c] # "none"}
    BY <1>7 DEF Leave, TypeOK
  <2> QED
    BY <1>7, <2>1 DEF Leave, TypeOK, SentType
<1>8. ASSUME NEW s \in Sockets, Gone(s) PROVE TypeOK' /\ SentType'
  <2>1. SentType'
    <3>1. << >> \in Seq(Message)
      OBVIOUS
    <3> QED
      BY <1>8, <3>1 DEF Gone, SentType
  <2>2. /\ readyState' \in [Sockets -> {"none", "open", "closing"}]
        /\ clients' \subseteq {c \in Sockets : readyState'[c] # "none"}
    BY <1>8 DEF Gone, TypeOK
  <2> QED
    BY <1>0, <1>8, <2>1, <2>2 DEF Gone, TypeOK
<1> QED
  BY <1>1, <1>2, <1>3, <1>4, <1>5, <1>6, <1>7, <1>8 DEF Next

(* The server's state is typed, the history capped and every client        *)
(* registered is a connection that is not over.                            *)
THEOREM TypeCorrect == Spec => []TypeOK
<1>1. Init => TypeOK /\ SentType
  BY Sizes DEF Init, TypeOK, SentType, Routes, Unpublished
<1> QED
  BY <1>1, TypeStep, PTL DEF Spec

-----------------------------------------------------------------------------
(* Answers                                                                 *)

(* The history holds the latest trades in order, as many as it may.        *)
HistoryIsLatest ==
  /\ Len(tradeHistory) = IF tradesExecuted > HistoryCap THEN HistoryCap ELSE tradesExecuted
  /\ \A i \in 1..Len(tradeHistory) :
       tradeHistory[i] = tradesExecuted - Len(tradeHistory) + i

(* A trade that is recorded becomes the latest.                            *)
LEMMA LatestStays == TypeOK /\ HistoryIsLatest /\ [Next]_vars => HistoryIsLatest'
<1> SUFFICES ASSUME TypeOK, HistoryIsLatest, [Next]_vars PROVE HistoryIsLatest'
  OBVIOUS
<1>1. CASE RecordTrade
  <2> DEFINE n == tradesExecuted
             k == Len(tradeHistory)
             all == Append(tradeHistory, n + 1)
  <2>0. /\ n \in Nat /\ n < MaxTrades /\ tradeHistory \in Seq(1..MaxTrades)
        /\ n' = n + 1 /\ tradeHistory' = SliceBack(all, HistoryCap)
        /\ k = IF n > HistoryCap THEN HistoryCap ELSE n
        /\ \A i \in 1..k : tradeHistory[i] = n - k + i
    BY <1>1, Sizes DEF TypeOK, RecordTrade, Kept, HistoryIsLatest
  <2>1. /\ all \in Seq(1..MaxTrades) /\ Len(all) = k + 1 /\ k \in Nat
        /\ \A i \in 1..k + 1 : all[i] = n - k + i
    <3>1. all \in Seq(1..MaxTrades) /\ Len(all) = k + 1 /\ k \in Nat
      BY <2>0, Sizes
    <3>2. ASSUME NEW i \in 1..k + 1 PROVE all[i] = n - k + i
      <4>1. CASE i \in 1..k
        BY <2>0, <4>1
      <4>2. CASE i = k + 1
        BY <2>0, <4>2
      <4> QED
        BY <3>1, <4>1, <4>2
    <3> QED
      BY <3>1, <3>2
  <2> HIDE DEF all
  <2> DEFINE kept == SliceBack(all, HistoryCap)
  <2>2. /\ Len(kept) = IF HistoryCap >= k + 1 THEN k + 1 ELSE HistoryCap
        /\ \A i \in 1..Len(kept) : kept[i] = all[k + 1 - Len(kept) + i]
    <3>1. /\ Len(kept) = IF HistoryCap >= Len(all) THEN Len(all) ELSE HistoryCap
          /\ \A i \in 1..Len(kept) : kept[i] = all[Len(all) - Len(kept) + i]
      <4>1. all \in Seq(1..MaxTrades) /\ HistoryCap \in Nat /\ HistoryCap > 0
        BY <2>1, Sizes
      <4> QED
        BY <4>1, SliceBackFacts
    <3> HIDE DEF kept
    <3> QED
      BY <2>1, <3>1
  <2> HIDE DEF kept
  <2>3. ASSUME NEW i \in 1..Len(kept) PROVE kept[i] = n + 1 - Len(kept) + i
    <3>1. k + 1 - Len(kept) + i \in 1..k + 1
      BY <2>1, <2>2, Sizes
    <3>2. kept[i] = n - k + (k + 1 - Len(kept) + i)
      BY <2>1, <2>2, <3>1
    <3>3. Len(kept) \in Int /\ i \in Int
      BY <2>1, <2>2, Sizes
    <3> QED
      BY <2>0, <2>1, <3>2, <3>3
  <2>4. Len(kept) = IF n + 1 > HistoryCap THEN HistoryCap ELSE n + 1
    BY <2>0, <2>1, <2>2, Sizes
  <2> QED
    BY <2>0, <2>3, <2>4 DEF kept, HistoryIsLatest
<1>2. CASE UNCHANGED <<tradesExecuted, tradeHistory>>
  BY <1>2 DEF HistoryIsLatest
<1>3. CASE PublishStats \/ EndScan \/ Stop \/ Stopped \/ Done \/ UNCHANGED vars
             \/ \E s \in Sockets : \/ \E r \in Routes : Connect(s, r)
                                   \/ \E error \in BOOLEAN : Leave(s, error)
                                   \/ Gone(s)
  BY <1>2, <1>3 DEF PublishStats, EndScan, Stop, Stopped, Done, vars, Connect, Leave, Gone,
                    produced, served
<1> QED
  BY <1>1, <1>3 DEF Next

(* Its last trades, reversed, are the latest ones, newest first.           *)
LEMMA LatestTrades ==
  ASSUME TypeOK, HistoryIsLatest, NEW n \in Nat, n > 0, n <= HistoryCap
  PROVE  LET page == Reverse(SliceBack(tradeHistory, n))
         IN  /\ page \in Seq(1..MaxTrades)
             /\ Len(page) = IF tradesExecuted < n THEN tradesExecuted ELSE n
             /\ \A i \in 1..Len(page) : page[i] = tradesExecuted - i + 1
<1> DEFINE k == Len(tradeHistory)
           last == SliceBack(tradeHistory, n)
           page == Reverse(last)
<1>0. /\ tradesExecuted \in Nat /\ tradeHistory \in Seq(1..MaxTrades) /\ k \in Nat
      /\ k = IF tradesExecuted > HistoryCap THEN HistoryCap ELSE tradesExecuted
      /\ \A i \in 1..k : tradeHistory[i] = tradesExecuted - k + i
  BY Sizes DEF TypeOK, HistoryIsLatest
<1>1. /\ last \in Seq(1..MaxTrades)
      /\ Len(last) = IF n >= k THEN k ELSE n
      /\ \A i \in 1..Len(last) : last[i] = tradeHistory[k - Len(last) + i]
  BY <1>0, SliceBackFacts
<1> HIDE DEF last
<1>2. /\ page \in Seq(1..MaxTrades)
      /\ Len(page) = Len(last)
      /\ \A i \in 1..Len(last) : page[i] = last[Len(last) - i + 1]
  BY <1>1, ReverseFacts
<1> HIDE DEF page
<1>3. /\ tradesExecuted \in Nat /\ HistoryCap \in Nat /\ k \in Nat
      /\ k = IF tradesExecuted > HistoryCap THEN HistoryCap ELSE tradesExecuted
      /\ Len(last) = IF n >= k THEN k ELSE n
      /\ Len(page) = Len(last)
  BY <1>0, <1>1, <1>2, Sizes
<1> HIDE DEF k
<1>4. /\ Len(page) = IF tradesExecuted < n THEN tradesExecuted ELSE n
      /\ Len(last) \in Nat /\ Len(last) <= k
  BY <1>3
<1>5. ASSUME NEW i \in 1..Len(page) PROVE page[i] = tradesExecuted - i + 1
  <2>1. /\ Len(last) - i + 1 \in 1..Len(last)
        /\ k - Len(last) + (Len(last) - i + 1) = k - i + 1
        /\ k - i + 1 \in 1..k
        /\ tradesExecuted - k + (k - i + 1) = tradesExecuted - i + 1
    BY <1>3, <1>4
  <2>2. page[i] = tradeHistory[k - i + 1]
    BY <1>1, <1>2, <1>3, <2>1 DEF k
  <2> QED
    BY <1>0, <2>1, <2>2
<1> QED
  BY <1>2, <1>4, <1>5 DEF page, last

(* Whatever the limit, GET /api/trades answers with the latest trades,     *)
(* newest first, and with fewer than asked for only when there are no      *)
(* more: for every page size, cap and number of trades.                    *)
THEOREM AnswersAreLatest == Spec => []AnswersAgree
<1>1. Init => HistoryIsLatest
  BY Sizes DEF Init, HistoryIsLatest
<1>2. TypeOK /\ HistoryIsLatest => AnswersAgree
  <2> SUFFICES ASSUME TypeOK, HistoryIsLatest, NEW query \in 0..MaxLimit + 1
               PROVE  LET answer == GetTrades(query)
                      IN  /\ IsPrefix(answer, Reverse(AllTrades))
                          /\ Len(answer) <= MaxLimit
                          /\ query # 0 => Len(answer) <= query
                          /\ \/ Len(answer) = tradesExecuted
                             \/ Len(answer) >= IF query \in 1..MaxLimit THEN query ELSE Page
    BY DEF AnswersAgree
  <2> DEFINE n == tradesExecuted
             answer == Reverse(SliceBack(tradeHistory, Limit(query)))
  <2>0. n \in Nat /\ query \in Nat
    BY Sizes DEF TypeOK
  <2>1. /\ Limit(query) \in Nat /\ Limit(query) > 0 /\ Limit(query) <= MaxLimit
        /\ query # 0 => Limit(query) <= query
        /\ Limit(query) >= IF query \in 1..MaxLimit THEN query ELSE Page
    BY <2>0, Sizes DEF Limit
  <2>2. /\ answer \in Seq(1..MaxTrades)
        /\ Len(answer) = IF n < Limit(query) THEN n ELSE Limit(query)
        /\ \A i \in 1..Len(answer) : answer[i] = n - i + 1
    <3>1. Limit(query) <= HistoryCap
      BY <2>1, Sizes
    <3> QED
      BY <2>1, <3>1, LatestTrades
  <2> HIDE DEF answer
  <2>3. Len(answer) \in Nat /\ Len(answer) <= n
    BY <2>0, <2>1, <2>2
  <2>4. /\ Reverse(AllTrades) \in Seq(Nat) /\ Len(Reverse(AllTrades)) = n
        /\ \A i \in 1..n : Reverse(AllTrades)[i] = n - i + 1
    <3>1. AllTrades \in Seq(Nat) /\ Len(AllTrades) = n
      BY <2>0 DEF AllTrades
    <3>2. ASSUME NEW i \in 1..n PROVE Reverse(AllTrades)[i] = n - i + 1
      <4>1. n - i + 1 \in 1..n
        BY <2>0
      <4> QED
        BY <3>1, <4>1, ReverseFacts DEF AllTrades
    <3> QED
      BY <3>1, <3>2, ReverseFacts
  <2>5. IsPrefix(answer, Reverse(AllTrades))
    <3> DEFINE all == Reverse(AllTrades)
    <3>1. SubSeq(answer, 1, Len(answer)) = [i \in 1..Len(answer) |-> n - i + 1]
      BY <2>2, <2>3
    <3>2. SubSeq(all, 1, Len(answer)) = [i \in 1..Len(answer) |-> n - i + 1]
      BY <2>0, <2>3, <2>4
    <3> QED
      BY <2>2, <2>3, <2>4, <3>1, <3>2 DEF IsPrefix
  <2>6. GetTrades(query) = answer
    BY DEF GetTrades, answer
  <2> DEFINE limit == Limit(query)
             length == Len(answer)
             least == IF query \in 1..MaxLimit THEN query ELSE Page
  <2>7. /\ length \in Nat /\ limit \in Nat /\ least \in Nat /\ query \in Nat
        /\ length = IF n < limit THEN n ELSE limit
        /\ limit <= MaxLimit /\ limit >= least /\ (query # 0 => limit <= query)
    BY <2>0, <2>1, <2>2, <2>3, Sizes
  <2> HIDE DEF limit, length, least
  <2>8. /\ length <= MaxLimit
        /\ query # 0 => length <= query
        /\ length = n \/ length >= least
    BY <2>0, <2>7, Sizes
  <2> QED
    BY <2>5, <2>6, <2>8 DEF length, least
<1> QED
  BY <1>1, <1>2, LatestStays, TypeCorrect, PTL DEF Spec

-----------------------------------------------------------------------------
(* The stream of trades                                                    *)

(* Messages about other things leave no gap.                               *)
LEMMA OtherMessages ==
  ASSUME NEW S, NEW messages \in Seq(S), NEW more \in Seq(S), NEW latest,
         NoGap(messages, latest),
         \A i \in DOMAIN more : more[i].type \notin {"trades", "trade"}
  PROVE  NoGap(messages \o more, latest)
<1> DEFINE all == messages \o more
<1>1. \A i \in DOMAIN messages : i \in DOMAIN all /\ all[i] = messages[i]
  OBVIOUS
<1>2. \A i \in DOMAIN all \ DOMAIN messages :
        i - Len(messages) \in DOMAIN more /\ all[i] = more[i - Len(messages)]
  OBVIOUS
<1> HIDE DEF all
<1>3. \A i \in TradeMessages(messages) : all[i] = messages[i]
  BY <1>1 DEF TradeMessages
<1>4. TradeMessages(all) = TradeMessages(messages)
  BY <1>1, <1>2 DEF TradeMessages
<1> QED
  BY <1>3, <1>4 DEF NoGap, all

(* The next trade leaves no gap.                                           *)
LEMMA NextTrade ==
  ASSUME NEW S, NEW messages \in Seq(S), NEW latest \in Nat, NoGap(messages, latest),
         NEW trade \in S, trade = [type |-> "trade", payload |-> latest + 1]
  PROVE  NoGap(Append(messages, trade), latest + 1)
<1> DEFINE all == Append(messages, trade)
           last == Len(messages) + 1
<1>1. /\ \A i \in DOMAIN messages : i \in DOMAIN all /\ all[i] = messages[i] /\ i < last
      /\ DOMAIN all = DOMAIN messages \cup {last} /\ all[last] = trade
      /\ last \in Nat /\ DOMAIN messages \subseteq Nat
  OBVIOUS
<1> HIDE DEF all, last
<1>2. /\ \A i \in TradeMessages(messages) : all[i] = messages[i] /\ i < last
      /\ TradeMessages(messages) \subseteq Nat
  BY <1>1 DEF TradeMessages
<1>3. TradeMessages(all) = TradeMessages(messages) \cup {last}
  BY <1>1 DEF TradeMessages
<1>4. 1 \in TradeMessages(all) /\ FullPage(all[1])
  BY <1>2, <1>3 DEF NoGap
<1>5. ASSUME NEW i \in TradeMessages(messages)
      PROVE  \E j \in TradeMessages(all) :
               /\ j > i /\ \A k \in TradeMessages(all) : k <= i \/ k >= j
               /\ all[j] = [type |-> "trade", payload |-> LatestIn(all[i]) + 1]
  <2>1. CASE \E j \in TradeMessages(messages) :
               /\ j > i /\ \A k \in TradeMessages(messages) : k <= i \/ k >= j
               /\ messages[j] = [type |-> "trade", payload |-> LatestIn(messages[i]) + 1]
    <3>1. PICK j \in TradeMessages(messages) :
               /\ j > i /\ \A k \in TradeMessages(messages) : k <= i \/ k >= j
               /\ messages[j] = [type |-> "trade", payload |-> LatestIn(messages[i]) + 1]
      BY <2>1
    <3>2. j \in TradeMessages(all) /\ \A k \in TradeMessages(all) : k <= i \/ k >= j
      BY <1>1, <1>2, <1>3, <3>1
    <3> QED
      BY <1>2, <3>1, <3>2
  <2>2. CASE /\ \A j \in TradeMessages(messages) : j <= i
             /\ LatestIn(messages[i]) = latest
    <3>1. /\ last \in TradeMessages(all) /\ last > i
          /\ \A k \in TradeMessages(all) : k <= i \/ k >= last
      BY <1>1, <1>2, <1>3, <2>2
    <3>2. all[last] = [type |-> "trade", payload |-> LatestIn(all[i]) + 1]
      BY <1>1, <1>2, <2>2
    <3> QED
      BY <3>1, <3>2
  <2> QED
    BY <2>1, <2>2 DEF NoGap
<1>6. (\A j \in TradeMessages(all) : j <= last) /\ LatestIn(all[last]) = latest + 1
  BY <1>1, <1>2, <1>3 DEF LatestIn
<1> QED
  BY <1>3, <1>4, <1>5, <1>6 DEF NoGap, all

(* A snapshot of the trades has a full page of the latest.                 *)
LEMMA SnapshotIsFull ==
  ASSUME TypeOK, HistoryIsLatest
  PROVE  NoGap(Snapshot("trades"), tradesExecuted)
<1> DEFINE page == Reverse(SliceBack(tradeHistory, Page))
           message == [type |-> "trades", payload |-> page]
<1>1. Snapshot("trades") = <<message>>
  BY DEF Snapshot
<1>2. /\ page \in Seq(1..MaxTrades)
      /\ Len(page) = IF tradesExecuted < Page THEN tradesExecuted ELSE Page
      /\ \A i \in 1..Len(page) : page[i] = tradesExecuted - i + 1
  BY LatestTrades, Sizes
<1> HIDE DEF page
<1>3. tradesExecuted \in Nat
  BY Sizes DEF TypeOK
<1>4. LatestIn(message) = tradesExecuted
  <2>1. CASE page = << >>
    BY <1>2, <1>3, <2>1, Sizes DEF LatestIn
  <2>2. CASE page # << >>
    <3>1. Len(page) >= 1
      BY <1>2, <2>2
    <3>2. page[1] = tradesExecuted
      BY <1>2, <1>3, <3>1
    <3> QED
      BY <2>2, <3>2 DEF LatestIn
  <2> QED
    BY <2>1, <2>2
<1>5. FullPage(message)
  <2>1. DOMAIN page = 1..Len(page) /\ message.type = "trades" /\ message.payload = page
    BY <1>2
  <2> HIDE DEF message
  <2> QED
    BY <1>2, <1>4, <2>1 DEF FullPage
<1> HIDE DEF message
<1>6. message.type = "trades"
  BY <1>5 DEF FullPage
<1>7. TradeMessages(<<message>>) = {1} /\ <<message>>[1] = message
  BY <1>6 DEF TradeMessages
<1> QED
  BY <1>1, <1>4, <1>5, <1>7 DEF NoGap

(* A connection that is open is registered: no broadcast passes it by.     *)
OpenIsRegistered == \A s \in Sockets : readyState[s] = "open" => s \in clients

(* Every step keeps connections registered while they are open and their   *)
(* streams without a gap.                                                  *)
LEMMA StreamStep ==
  TypeOK /\ SentType /\ HistoryIsLatest /\ OpenIsRegistered /\ StreamsHaveNoGap /\ [Next]_vars
    => OpenIsRegistered' /\ StreamsHaveNoGap'
<1> SUFFICES ASSUME TypeOK, SentType, HistoryIsLatest, OpenIsRegistered, StreamsHaveNoGap,
                    [Next]_vars
             PROVE  OpenIsRegistered' /\ StreamsHaveNoGap'
  OBVIOUS
<1> USE DEF produced, served, connections
<1> DEFINE Open(s) == readyState[s] = "open" /\ route[s] = "trades"
<1>1. /\ \A s \in Sockets : sent[s] \in Seq(Message)
      /\ \A s \in Sockets : Open(s) => s \in clients /\ NoGap(sent[s], tradesExecuted)
      /\ tradesExecuted \in Nat
  BY Sizes DEF SentType, OpenIsRegistered, StreamsHaveNoGap, TypeOK
<1>2. CASE RecordTrade
  <2> DEFINE trade == [type |-> "trade", payload |-> tradesExecuted + 1]
  <2>1. trade \in Message /\ tradesExecuted' = tradesExecuted + 1
    BY <1>1, <1>2, Sizes DEF RecordTrade, TypeOK, Message
  <2>2. ASSUME NEW s \in Sockets, Open(s) PROVE NoGap(sent'[s], tradesExecuted')
    <3>1. sent'[s] = sent[s] \o <<trade>>
      BY <1>1, <1>2, <2>2 DEF RecordTrade, Broadcast
    <3>2. sent[s] \o <<trade>> = Append(sent[s], trade)
      BY <1>1, <2>1
    <3> HIDE DEF trade
    <3>3. NoGap(Append(sent[s], trade), tradesExecuted + 1)
      BY <1>1, <2>1, <2>2, NextTrade DEF trade
    <3> QED
      BY <2>1, <3>1, <3>2, <3>3
  <2>3. UNCHANGED <<readyState, route, clients>>
    BY <1>2 DEF RecordTrade
  <2> QED
    BY <2>2, <2>3 DEF OpenIsRegistered, StreamsHaveNoGap
<1>3. ASSUME NEW messages \in Seq(Message), Broadcast(messages),
             \A i \in DOMAIN messages : messages[i].type \notin {"trades", "trade"},
             UNCHANGED <<tradesExecuted, readyState, route, clients>>
      PROVE  OpenIsRegistered' /\ StreamsHaveNoGap'
  <2>1. ASSUME NEW s \in Sockets, Open(s) PROVE NoGap(sent'[s], tradesExecuted)
    <3>1. sent'[s] = sent[s] \o messages
      BY <1>1, <1>3, <2>1 DEF Broadcast
    <3>2. NoGap(sent[s] \o messages, tradesExecuted)
      BY <1>1, <1>3, <2>1, OtherMessages
    <3> QED
      BY <3>1, <3>2
  <2> QED
    BY <1>3, <2>1 DEF OpenIsRegistered, StreamsHaveNoGap
<1>4. CASE PublishStats
  <2>1. /\ <<Stats>> \in Seq(Message)
        /\ \A i \in DOMAIN <<Stats>> : <<Stats>>[i].type \notin {"trades", "trade"}
    BY Sizes DEF TypeOK, Stats, Message
  <2> QED
    BY <1>3, <1>4, <2>1 DEF PublishStats
<1>5. CASE EndScan
  <2> DEFINE messages == <<Stats, [type |-> "opportunities", payload |-> scans + 1]>>
  <2>1. /\ messages \in Seq(Message)
        /\ \A i \in DOMAIN messages : messages[i].type \notin {"trades", "trade"}
    BY <1>5, Sizes DEF EndScan, TypeOK, Stats, Message
  <2>2. Broadcast(messages) /\ UNCHANGED <<tradesExecuted, readyState, route, clients>>
    BY <1>5 DEF EndScan
  <2> QED
    BY <1>3, <2>1, <2>2
<1>6. CASE Stop
  <2>1. \A s \in Sockets : readyState'[s] # "open"
    BY <1>6 DEF Stop
  <2> QED
    BY <2>1 DEF OpenIsRegistered, StreamsHaveNoGap
<1>7. CASE Stopped \/ Done \/ UNCHANGED vars
  BY <1>7 DEF Stopped, Done, vars, OpenIsRegistered, StreamsHaveNoGap
<1>8. ASSUME NEW s \in Sockets, NEW r \in Routes, Connect(s, r)
      PROVE  OpenIsRegistered' /\ StreamsHaveNoGap'
  <2>1. OpenIsRegistered'
    BY <1>8 DEF Connect, OpenIsRegistered, TypeOK
  <2>2. ASSUME NEW c \in Sockets, Open(c)' PROVE NoGap(sent'[c], tradesExecuted')
    <3>1. CASE c = s
      <4>1. r = "trades" /\ sent'[c] = Snapshot("trades") /\ tradesExecuted' = tradesExecuted
        BY <1>8, <2>2, <3>1 DEF Connect, TypeOK, SentType
      <4> QED
        BY <4>1, SnapshotIsFull
    <3>2. CASE c # s
      BY <1>1, <1>8, <2>2, <3>2 DEF Connect, TypeOK, SentType
    <3> QED
      BY <3>1, <3>2
  <2> QED
    BY <2>1, <2>2 DEF StreamsHaveNoGap
<1>9. ASSUME NEW s \in Sockets,
             Gone(s) \/ \E error \in BOOLEAN : Leave(s, error)
      PROVE  OpenIsRegistered' /\ StreamsHaveNoGap'
  <2>1. /\ UNCHANGED <<route, tradesExecuted>>
        /\ \A c \in Sockets : readyState'[c] = "open" =>
             c # s /\ readyState[c] = "open" /\ sent'[c] = sent[c]
        /\ clients \ {s} \subseteq clients'
    BY <1>9 DEF Gone, Leave, TypeOK, SentType
  <2> QED
    BY <1>1, <2>1 DEF OpenIsRegistered, StreamsHaveNoGap
<1> QED
  BY <1>2, <1>4, <1>5, <1>6, <1>7, <1>8, <1>9 DEF Next

(* Whenever a client of /ws/trades has connected, it has a full page of    *)
(* the latest trades and then every trade, in order and once: for any      *)
(* number of connections, page size, cap and interleaving.                 *)
THEOREM NoTradeIsMissed == Spec => []StreamsHaveNoGap
<1>1. Init => HistoryIsLatest /\ SentType /\ OpenIsRegistered /\ StreamsHaveNoGap
  <2> SUFFICES ASSUME Init
               PROVE  HistoryIsLatest /\ SentType /\ OpenIsRegistered /\ StreamsHaveNoGap
    OBVIOUS
  <2>1. HistoryIsLatest
    BY Sizes DEF Init, HistoryIsLatest
  <2>2. SentType
    BY DEF Init, SentType
  <2> QED
    BY <2>1, <2>2 DEF Init, OpenIsRegistered, StreamsHaveNoGap
<1> QED
  BY <1>1, LatestStays, TypeStep, StreamStep, TypeCorrect, PTL DEF Spec
=============================================================================
