------------------------- MODULE TransactionSender --------------------------
(***************************************************************************)
(* TransactionSender::send_with_retry of the Rust execution engine         *)
(* (solAribot-execution/src/sender.rs) against a Solana cluster that       *)
(* delays, drops, fails or lands what it was sent and an RPC node whose    *)
(* replies get lost.                                                       *)
(*                                                                         *)
(* Signing is deterministic, so one message with one blockhash is one      *)
(* transaction: a transaction is identified by its blockhash, a number.    *)
(* Two attempts within the same block send the same transaction.           *)
(***************************************************************************)
EXTENDS Integers, FiniteSets

CONSTANTS
  MaxRetries,          \* config.max_retries
  SimulateBeforeSend   \* config.simulate_before_send

ASSUME SenderConstants ==
  /\ MaxRetries \in Nat
  /\ SimulateBeforeSend \in BOOLEAN

(* The limit is looked at after an attempt, so there is always one.        *)
MaxAttempts == IF MaxRetries = 0 THEN 1 ELSE MaxRetries

Hashes == 1..MaxAttempts
NoHash == 0

VARIABLES
  pc,          \* where send_with_retry is
  attempt,
  blockhash,   \* of the transaction being sent
  latest,      \* the cluster's latest blockhash
  chain,       \* what became of each transaction
  errors       \* the errors attempts with each transaction ended with

vars == <<pc, attempt, blockhash, latest, chain, errors>>

Errors == {"blockhash", "simulation", "send", "reverted", "timeout"}

TypeOK ==
  /\ pc \in {"start", "blockhash", "simulate", "send", "poll", "backoff", "ok", "err"}
  /\ attempt \in 0..MaxAttempts
  /\ blockhash \in Hashes \cup {NoHash}
  /\ latest \in Hashes
  /\ chain \in [Hashes -> {"absent", "inFlight", "landed", "reverted"}]
  /\ errors \in [Hashes \cup {NoHash} -> SUBSET Errors]

Init ==
  /\ pc = "start"
  /\ attempt = 0
  /\ blockhash = NoHash
  /\ latest = 1
  /\ chain = [h \in Hashes |-> "absent"]
  /\ errors = [h \in Hashes \cup {NoHash} |-> {}]

-----------------------------------------------------------------------------
(* The sender                                                              *)

(* Bug: only the first attempt is counted.                                 *)
AttemptAfterStuck(n) == 1

AttemptAfter(n) == n + 1

BeginAttempt ==
  /\ pc \in {"start", "backoff"}
  /\ attempt' = AttemptAfter(attempt)
  /\ pc' = "blockhash"
  /\ UNCHANGED <<blockhash, latest, chain, errors>>

(* Bug: one attempt more than max_retries.                                 *)
GivesUpLate == attempt > MaxRetries

GivesUp == attempt >= MaxRetries

(* The attempt ends with an error: Err to the caller, or another attempt   *)
(* after the backoff sleep.                                                *)
FailAttempt(error) ==
  /\ pc' = IF GivesUp THEN "err" ELSE "backoff"
  /\ errors' = [errors EXCEPT ![blockhash] = @ \cup {error}]

(* Every attempt fetches the latest blockhash; the first one simulates.    *)
FetchBlockhash ==
  /\ pc = "blockhash"
  /\ blockhash' = latest
  /\ pc' = IF SimulateBeforeSend /\ attempt = 1 THEN "simulate" ELSE "send"
  /\ UNCHANGED <<attempt, latest, chain, errors>>

BlockhashFails ==
  /\ pc = "blockhash"
  /\ FailAttempt("blockhash")
  /\ UNCHANGED <<attempt, blockhash, latest, chain>>

SimulationPasses ==
  /\ pc = "simulate"
  /\ pc' = "send"
  /\ UNCHANGED <<attempt, blockhash, latest, chain, errors>>

SimulationFails ==
  /\ pc = "simulate"
  /\ FailAttempt("simulation")
  /\ UNCHANGED <<attempt, blockhash, latest, chain>>

Broadcast ==
  chain' = [chain EXCEPT ![blockhash] = IF @ = "absent" THEN "inFlight" ELSE @]

SendAccepted ==
  /\ pc = "send"
  /\ Broadcast
  /\ pc' = "poll"
  /\ UNCHANGED <<attempt, blockhash, latest, errors>>

(* sendTransaction returns an error, whether the node refused the          *)
(* transaction or broadcast it and its reply was lost.                     *)
SendFails ==
  /\ pc = "send"
  /\ Broadcast \/ UNCHANGED chain
  /\ FailAttempt("send")
  /\ UNCHANGED <<attempt, blockhash, latest>>

(* Bug: the presence of a status is taken for success.                     *)
StatusPresent(h) == chain[h] \in {"landed", "reverted"}

StatusOk(h) == chain[h] = "landed"

(* Bug: no status yet is taken for a failure.                              *)
StatusNotOk(h) == chain[h] # "landed"

StatusErr(h) == chain[h] = "reverted"

(* A poll finds the status; polls that find none, or fail, change nothing. *)
Confirmed ==
  /\ pc = "poll"
  /\ StatusOk(blockhash)
  /\ pc' = "ok"
  /\ UNCHANGED <<attempt, blockhash, latest, chain, errors>>

Reverted ==
  /\ pc = "poll"
  /\ StatusErr(blockhash)
  /\ FailAttempt("reverted")
  /\ UNCHANGED <<attempt, blockhash, latest, chain>>

(* send_timeout_ms has passed.  The status at commitment "confirmed" may   *)
(* lag behind the chain.                                                   *)
TimesOut ==
  /\ pc = "poll"
  /\ FailAttempt("timeout")
  /\ UNCHANGED <<attempt, blockhash, latest, chain>>

SenderStep ==
  \/ BeginAttempt
  \/ FetchBlockhash \/ BlockhashFails
  \/ SimulationPasses \/ SimulationFails
  \/ SendAccepted \/ SendFails
  \/ Confirmed \/ Reverted \/ TimesOut

-----------------------------------------------------------------------------
(* The cluster                                                             *)

NewBlock ==
  /\ latest < MaxAttempts
  /\ latest' = latest + 1
  /\ UNCHANGED <<pc, attempt, blockhash, chain, errors>>

(* A transaction in flight lands, fails on chain, or is dropped.           *)
Settle(h) ==
  /\ chain[h] = "inFlight"
  /\ \E fate \in {"landed", "reverted", "absent"} : chain' = [chain EXCEPT ![h] = fate]
  /\ UNCHANGED <<pc, attempt, blockhash, latest, errors>>

Done == pc \in {"ok", "err"}

(* The call has returned and nothing it sent is under way.                 *)
Quiet ==
  /\ Done
  /\ latest = MaxAttempts
  /\ \A h \in Hashes : chain[h] # "inFlight"
  /\ UNCHANGED vars

Next ==
  \/ SenderStep
  \/ NewBlock
  \/ \E h \in Hashes : Settle(h)
  \/ Quiet

Spec == Init /\ [][Next]_vars

(* RPC calls settle (the client's own timeout) and sleeps end.             *)
FairSpec == Spec /\ WF_vars(SenderStep)

-----------------------------------------------------------------------------
(* What may still take effect, or has, is either the transaction the       *)
(* sender is looking at, or the one it reported, or one of which an        *)
(* attempt ended without knowing: a timeout or an error of sendTransaction *)
(* (send_and_confirm).  A second landing, the hazard of retrying with a    *)
(* fresh blockhash, always has such an attempt behind it.                  *)
LandingsAccountedFor ==
  \A h \in Hashes :
    chain[h] \in {"inFlight", "landed"} =>
      \/ h = blockhash /\ pc \in {"poll", "ok"}
      \/ errors[h] \cap {"send", "timeout"} # {}

(* Every call returns: no sequence of failures keeps it retrying.          *)
Termination == <>Done

(* The sender keeps the contract it has with its caller.                   *)
Contract == INSTANCE SubmissionContract WITH
  Txs      <- Hashes,
  NoTx     <- NoHash,
  effects  <- {h \in Hashes : chain[h] = "landed"},
  outcome  <- IF Done THEN pc ELSE "none",
  reported <- IF pc = "ok" THEN blockhash ELSE NoHash

KeepsContract == Contract!Spec
=============================================================================
