---------------------- MODULE TransactionSenderProofs -----------------------
(***************************************************************************)
(* send_with_retry for every retry limit, with and without simulation: its *)
(* state is typed, every landing is accounted for and it implements the    *)
(* contract it has with its caller.                                        *)
(***************************************************************************)
EXTENDS TransactionSender, TLAPS

(* The attempts still allowed bound the counter, and a transaction exists  *)
(* once a blockhash was fetched for it.                                    *)
IInv ==
  /\ TypeOK
  /\ pc = "start" => attempt = 0
  /\ pc = "backoff" => attempt < MaxRetries
  /\ pc \in {"simulate", "send", "poll", "ok"} => blockhash \in Hashes

(* The loop makes at least one attempt and at most max_retries.            *)
LEMMA MaxAttemptsType ==
  MaxAttempts \in Nat \ {0} /\ NoHash \notin Hashes /\ 1 \in Hashes
  BY SenderConstants DEF MaxAttempts, Hashes, NoHash

(* The call begins in a typed state.                                       *)
LEMMA InitIInv == Init => IInv
<1> SUFFICES ASSUME Init PROVE IInv
  OBVIOUS
<1>1. attempt \in 0..MaxAttempts
  BY MaxAttemptsType DEF Init
<1>2. chain \in [Hashes -> {"absent", "inFlight", "landed", "reverted"}]
  BY DEF Init
<1>3. errors \in [Hashes \cup {NoHash} -> SUBSET Errors]
  BY DEF Init
<1> QED
  BY <1>1, <1>2, <1>3, MaxAttemptsType DEF Init, IInv, TypeOK

(* An attempt that fails leaves the counter within its bound.              *)
LEMMA FailAttemptType ==
  ASSUME IInv, NEW e \in Errors, FailAttempt(e),
         UNCHANGED <<attempt, blockhash>>
  PROVE  /\ pc' \in {"err", "backoff"}
         /\ pc' = "backoff" => attempt' < MaxRetries
         /\ errors' \in [Hashes \cup {NoHash} -> SUBSET Errors]
<1>1. pc' \in {"err", "backoff"} /\ (pc' = "backoff" => attempt < MaxRetries)
  BY SenderConstants DEF FailAttempt, GivesUp, IInv, TypeOK, MaxAttempts
<1>2. errors' \in [Hashes \cup {NoHash} -> SUBSET Errors]
  BY DEF FailAttempt, IInv, TypeOK
<1> QED
  BY <1>1, <1>2

(* Every step of the sender and of the cluster keeps the invariant.        *)
LEMMA TypeStep == IInv /\ [Next]_vars => IInv'
<1> SUFFICES ASSUME IInv, [Next]_vars PROVE IInv'
  OBVIOUS
<1> USE DEF IInv, TypeOK
<1>1. CASE BeginAttempt
  <2>1. attempt + 1 \in 0..MaxAttempts
    BY <1>1, SenderConstants DEF BeginAttempt, MaxAttempts
  <2> QED
    BY <1>1, <2>1 DEF BeginAttempt, AttemptAfter
<1>2. CASE FetchBlockhash
  BY <1>2 DEF FetchBlockhash
<1>3. CASE BlockhashFails
  BY <1>3, FailAttemptType DEF BlockhashFails, Errors
<1>4. CASE SimulationPasses
  BY <1>4 DEF SimulationPasses
<1>5. CASE SimulationFails
  BY <1>5, FailAttemptType DEF SimulationFails, Errors
<1>6. CASE SendAccepted
  BY <1>6 DEF SendAccepted, Broadcast
<1>7. CASE SendFails
  BY <1>7, FailAttemptType DEF SendFails, Broadcast, Errors
<1>8. CASE Confirmed
  BY <1>8 DEF Confirmed
<1>9. CASE Reverted
  BY <1>9, FailAttemptType DEF Reverted, Errors
<1>10. CASE TimesOut
  BY <1>10, FailAttemptType DEF TimesOut, Errors
<1>11. CASE NewBlock
  BY <1>11, MaxAttemptsType DEF NewBlock, Hashes
<1>12. ASSUME NEW h \in Hashes, Settle(h) PROVE IInv'
  BY <1>12 DEF Settle
<1>13. CASE UNCHANGED vars
  BY <1>13 DEF vars
<1>14. CASE Quiet
  BY <1>13, <1>14 DEF Quiet
<1> QED
  BY <1>1, <1>2, <1>3, <1>4, <1>5, <1>6, <1>7, <1>8, <1>9, <1>10, <1>11, <1>12,
     <1>13, <1>14 DEF Next, SenderStep

(* The invariant holds throughout.                                         *)
LEMMA Invariance == Spec => []IInv
  BY InitIInv, TypeStep, PTL DEF Spec

(* Among others: no run makes more attempts than the limit allows.         *)
THEOREM TypeCorrect == Spec => []TypeOK
<1>1. IInv => TypeOK
  BY DEF IInv
<1> QED
  BY <1>1, Invariance, PTL

-----------------------------------------------------------------------------
(* A failed attempt forgets no error, and its own joins them.              *)
LEMMA FailAttemptErrors ==
  ASSUME IInv, NEW e \in Errors, FailAttempt(e)
  PROVE  /\ \A h \in Hashes : errors[h] \subseteq errors'[h]
         /\ e \in errors'[blockhash]
  BY DEF FailAttempt, IInv, TypeOK

(* Every transaction that landed or still may is the one the sender looks  *)
(* at or reports, or one of which an attempt ended without knowing.        *)
THEOREM EveryLandingAccountedFor == Spec => []LandingsAccountedFor
<1>1. Init => LandingsAccountedFor
  BY DEF Init, LandingsAccountedFor
<1>2. IInv /\ LandingsAccountedFor /\ [Next]_vars => LandingsAccountedFor'
  <2> SUFFICES ASSUME IInv, LandingsAccountedFor, [Next]_vars,
                      NEW h \in Hashes, chain'[h] \in {"inFlight", "landed"}
               PROVE  \/ h = blockhash' /\ pc' \in {"poll", "ok"}
                      \/ errors'[h] \cap {"send", "timeout"} # {}
    BY DEF LandingsAccountedFor
  <2> DEFINE Unsure == errors[h] \cap {"send", "timeout"} # {}
  <2>1. CASE BeginAttempt
    BY <2>1 DEF BeginAttempt, LandingsAccountedFor
  <2>2. CASE FetchBlockhash
    BY <2>2 DEF FetchBlockhash, LandingsAccountedFor
  <2>3. CASE BlockhashFails
    BY <2>3, FailAttemptErrors DEF BlockhashFails, LandingsAccountedFor, Errors
  <2>4. CASE SimulationPasses
    BY <2>4 DEF SimulationPasses, LandingsAccountedFor
  <2>5. CASE SimulationFails
    BY <2>5, FailAttemptErrors DEF SimulationFails, LandingsAccountedFor, Errors
  <2>6. CASE SendAccepted
    <3>1. h # blockhash => chain'[h] = chain[h]
      BY <2>6 DEF SendAccepted, Broadcast, IInv, TypeOK
    <3> QED
      BY <2>6, <3>1 DEF SendAccepted, LandingsAccountedFor
  <2>7. CASE SendFails
    <3>1. h # blockhash => chain'[h] = chain[h]
      BY <2>7 DEF SendFails, Broadcast, IInv, TypeOK
    <3>2. errors[h] \subseteq errors'[h] /\ "send" \in errors'[blockhash]
      BY <2>7, FailAttemptErrors DEF SendFails, Errors
    <3> QED
      BY <2>7, <3>1, <3>2 DEF SendFails, LandingsAccountedFor
  <2>8. CASE Confirmed
    BY <2>8 DEF Confirmed, LandingsAccountedFor
  <2>9. CASE Reverted
    BY <2>9, FailAttemptErrors DEF Reverted, StatusErr, LandingsAccountedFor, Errors
  <2>10. CASE TimesOut
    <3>1. errors[h] \subseteq errors'[h] /\ "timeout" \in errors'[blockhash]
      BY <2>10, FailAttemptErrors DEF TimesOut, Errors
    <3> QED
      BY <2>10, <3>1 DEF TimesOut, LandingsAccountedFor
  <2>11. CASE NewBlock
    BY <2>11 DEF NewBlock, LandingsAccountedFor
  <2>12. ASSUME NEW k \in Hashes, Settle(k)
         PROVE  \/ h = blockhash' /\ pc' \in {"poll", "ok"}
                \/ errors'[h] \cap {"send", "timeout"} # {}
    <3>1. chain[h] \in {"inFlight", "landed"}
      BY <2>12 DEF Settle, IInv, TypeOK
    <3> QED
      BY <2>12, <3>1 DEF Settle, LandingsAccountedFor
  <2>13. CASE UNCHANGED vars
    BY <2>13 DEF vars, LandingsAccountedFor
  <2>14. CASE Quiet
    BY <2>13, <2>14 DEF Quiet
  <2> QED
    BY <2>1, <2>2, <2>3, <2>4, <2>5, <2>6, <2>7, <2>8, <2>9, <2>10, <2>11, <2>12,
       <2>13, <2>14 DEF Next, SenderStep
<1> QED
  BY <1>1, <1>2, Invariance, PTL DEF Spec

-----------------------------------------------------------------------------
(* The sender implements its contract: it answers once, and Ok names a     *)
(* transaction that landed.                                                *)
THEOREM Refinement == Spec => KeepsContract
<1> DEFINE Effects(c) == {h \in Hashes : c[h] = "landed"}
<1>1. Init => Contract!Init
  BY DEF Init, Contract!Init, Done
<1>2. IInv /\ [Next]_vars => [Contract!Next]_Contract!contract
  <2> SUFFICES ASSUME IInv, [Next]_vars
               PROVE  Contract!Next \/ UNCHANGED Contract!contract
    OBVIOUS
  <2> USE DEF Contract!contract, Done
  <2>1. ASSUME NEW e \in Errors, FailAttempt(e), UNCHANGED <<blockhash>>,
               {h \in Hashes : chain[h] = "landed"}' = {h \in Hashes : chain[h] = "landed"},
               ~Done
        PROVE  Contract!AnswerErr \/ UNCHANGED Contract!contract
    BY <2>1 DEF FailAttempt, Contract!AnswerErr
  <2>2. CASE BeginAttempt \/ FetchBlockhash \/ SimulationPasses \/ NewBlock
    BY <2>2 DEF BeginAttempt, FetchBlockhash, SimulationPasses, NewBlock
  <2>3. CASE BlockhashFails \/ SimulationFails \/ Reverted \/ TimesOut
    BY <2>1, <2>3 DEF BlockhashFails, SimulationFails, Reverted, TimesOut, Errors,
                      Contract!Next
  <2>4. ASSUME Broadcast
        PROVE  {h \in Hashes : chain'[h] = "landed"} = {h \in Hashes : chain[h] = "landed"}
    BY <2>4 DEF Broadcast, IInv, TypeOK
  <2>5. CASE SendAccepted
    BY <2>4, <2>5 DEF SendAccepted
  <2>6. CASE SendFails
    BY <2>1, <2>4, <2>6 DEF SendFails, Errors, Contract!Next
  <2>7. CASE Confirmed
    BY <2>7 DEF Confirmed, StatusOk, IInv, Contract!Next, Contract!AnswerOk
  <2>8. ASSUME NEW h \in Hashes, Settle(h)
        PROVE  Contract!Next \/ UNCHANGED Contract!contract
    <3>1. PICK fate \in {"landed", "reverted", "absent"} : chain' = [chain EXCEPT ![h] = fate]
      BY <2>8 DEF Settle
    <3>2. UNCHANGED <<pc, blockhash>> /\ chain[h] = "inFlight"
      BY <2>8 DEF Settle
    <3>3. CASE fate = "landed"
      <4>1. Effects(chain') = Effects(chain) \cup {h} /\ h \notin Effects(chain)
        BY <3>1, <3>2, <3>3 DEF IInv, TypeOK
      <4> QED
        BY <3>2, <4>1 DEF Contract!Next, Contract!Land
    <3>4. CASE fate # "landed"
      <4>1. Effects(chain') = Effects(chain)
        BY <3>1, <3>2, <3>4 DEF IInv, TypeOK
      <4> QED
        BY <3>2, <4>1
    <3> QED
      BY <3>3, <3>4
  <2>9. CASE UNCHANGED vars
    BY <2>9 DEF vars
  <2>10. CASE Quiet
    BY <2>9, <2>10 DEF Quiet
  <2> QED
    BY <2>2, <2>3, <2>5, <2>6, <2>7, <2>8, <2>9, <2>10 DEF Next, SenderStep
<1> QED
  BY <1>1, <1>2, Invariance, PTL DEF Spec, KeepsContract, Contract!Spec
=============================================================================
