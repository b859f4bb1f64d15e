---------------------------- MODULE TradeLedger -----------------------------
(***************************************************************************)
(* What the orchestrator promises about its trades: a route is traded at   *)
(* most once, a trade that is begun is recorded at most once, the totals   *)
(* and the history change by recording alone, and only a trade that is     *)
(* still open can be missing from them, also after the process has ended.  *)
(***************************************************************************)
EXTENDS Integers, Sequences, FiniteSets

CONSTANTS
  TradeIds,
  Profit,     \* of each trade
  Room        \* how many trades the history keeps

VARIABLES
  begun,      \* trades that were begun
  open,       \* those that are under way
  recorded,   \* those whose answer is in the books
  count, total, history,   \* the books
  closed      \* the process has ended

vars == <<begun, open, recorded, count, total, history, closed>>

Init ==
  /\ begun = {} /\ open = {} /\ recorded = {}
  /\ count = 0 /\ total = 0 /\ history = << >>
  /\ closed = FALSE

Begin(t) ==
  /\ ~closed
  /\ t \notin begun
  /\ begun' = begun \cup {t}
  /\ open' = open \cup {t}
  /\ UNCHANGED <<recorded, count, total, history, closed>>

Record(t) ==
  /\ ~closed
  /\ t \in open \ recorded
  /\ recorded' = recorded \cup {t}
  /\ count' = count + 1
  /\ total' = total + Profit[t]
  /\ history' = IF Len(history) < Room THEN Append(history, t)
                                       ELSE Append(Tail(history), t)
  /\ UNCHANGED <<begun, open, closed>>

Settle(t) ==
  /\ ~closed
  /\ t \in open \cap recorded
  /\ open' = open \ {t}
  /\ UNCHANGED <<begun, recorded, count, total, history, closed>>

Close ==
  /\ ~closed
  /\ closed' = TRUE
  /\ UNCHANGED <<begun, open, recorded, count, total, history>>

Next == Close \/ \E t \in TradeIds : Begin(t) \/ Record(t) \/ Settle(t)

Spec == Init /\ [][Next]_vars

-----------------------------------------------------------------------------
(* Nothing begun is lost: what is not in the books is open, at the end of  *)
(* the process too; the history is made of recorded trades, none twice.    *)
NothingLost ==
  /\ begun = open \cup recorded
  /\ count = Cardinality(recorded)
  /\ \A i \in DOMAIN history : history[i] \in recorded
  /\ \A i, j \in DOMAIN history : history[i] = history[j] => i = j
  /\ Len(history) = IF count > Room THEN Room ELSE count
=============================================================================
