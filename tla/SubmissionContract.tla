------------------------- MODULE SubmissionContract -------------------------
(***************************************************************************)
(* What send_with_retry promises the caller that submits one arbitrage     *)
(* transaction: it answers once, and an answer Ok names a transaction that *)
(* landed.  It promises neither that only one landed nor, after Err, that  *)
(* none did or will: effects may grow at any time.                         *)
(***************************************************************************)
CONSTANTS Txs, NoTx

VARIABLES
  effects,   \* the transactions that landed on chain
  outcome,   \* what the caller was told
  reported   \* the transaction named by Ok

contract == <<effects, outcome, reported>>

Init == effects = {} /\ outcome = "none" /\ reported = NoTx

Land ==
  /\ \E t \in Txs \ effects : effects' = effects \cup {t}
  /\ UNCHANGED <<outcome, reported>>

AnswerOk ==
  /\ outcome = "none"
  /\ outcome' = "ok"
  /\ reported' \in effects
  /\ UNCHANGED effects

AnswerErr ==
  /\ outcome = "none"
  /\ outcome' = "err"
  /\ UNCHANGED <<effects, reported>>

Next == Land \/ AnswerOk \/ AnswerErr

Spec == Init /\ [][Next]_contract
=============================================================================
