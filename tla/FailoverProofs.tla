--------------------------- MODULE FailoverProofs ---------------------------
(***************************************************************************)
(* The health checker for every list of fallbacks and every threshold: its *)
(* state is typed, and an endpoint is given up only when that is earned.   *)
(***************************************************************************)
EXTENDS Failover, TLAPS

(* The counter of the code is the number of failed checks in a row, and    *)
(* fallbacks are only looked at once it has reached the threshold.         *)
CountIsEarned ==
  /\ failures = failedInARow
  /\ pc = "fallback" => failures >= Threshold

(* What the script begins with is typed.                                   *)
LEMMA StartTypes ==
  /\ Threshold \in Nat /\ Threshold > 0
  /\ Len(Fallbacks) \in Nat
  /\ Primary \in Endpoints
  /\ 1 \in 1..Len(Fallbacks) + 1
  /\ \A i \in 1..Len(Fallbacks) : Fallbacks[i] \in Endpoints
<1>1. /\ Threshold \in Nat /\ Threshold > 0
      /\ Fallbacks \in Seq(Endpoints)
  BY FailoverConstants
<1>2. Primary \in Endpoints
  BY DEF Endpoints
<1> HIDE DEF Endpoints
<1> QED
  BY <1>1, <1>2

(* The count is kept in its range.                                         *)
LEMMA SaturatedType ==
  ASSUME NEW n \in 0..Threshold + 1
  PROVE  /\ Saturated(n + 1) \in 0..Threshold + 1
         /\ Saturated(n + 1) >= Threshold <=> n + 1 >= Threshold
  BY StartTypes DEF Saturated

(* Type correctness of the script, its files and the history variable      *)
(* (main, docker-compose restart loop).                                    *)
THEOREM TypeCorrect == Spec => []TypeOK
<1>1. Init => TypeOK
  BY StartTypes DEF Init, TypeOK, Health
<1>2. TypeOK /\ [Next]_vars => TypeOK'
  <2> SUFFICES ASSUME TypeOK, [Next]_vars PROVE TypeOK'
    OBVIOUS
  <2> USE DEF TypeOK, locals, files
  <2>1. ASSUME NEW e \in Endpoints, Change(e) PROVE TypeOK'
    BY <2>1 DEF Change
  <2>2. CASE CheckRpc \/ SlotFails
    BY <2>2 DEF CheckRpc, SlotFails
  <2>3. CASE Healthy
    BY <2>3, StartTypes DEF Healthy
  <2>4. CASE Failed
    BY <2>4, StartTypes, SaturatedType DEF Failed
  <2>5. CASE TryFallback
    <3>1. next \in 1..Len(Fallbacks) /\ Fallbacks[next] \in Endpoints
      BY <2>5, StartTypes DEF TryFallback
    <3>2. CASE rpc[Fallbacks[next]] = "healthy"
      BY <2>5, <3>1, <3>2, StartTypes DEF TryFallback
    <3>3. CASE rpc[Fallbacks[next]] # "healthy"
      <4>1. next' = next + 1 /\ next' \in 1..Len(Fallbacks) + 1
        BY <2>5, <3>1, <3>3, StartTypes DEF TryFallback
      <4> QED
        BY <2>5, <3>3, <4>1 DEF TryFallback
    <3> QED
      BY <3>2, <3>3
  <2>6. CASE AllDown
    BY <2>6 DEF AllDown
  <2>7. CASE Restart
    BY <2>7, StartTypes DEF Restart, Start, Health
  <2>8. CASE UNCHANGED vars
    BY <2>8 DEF vars
  <2> QED
    BY <2>1, <2>2, <2>3, <2>4, <2>5, <2>6, <2>7, <2>8 DEF Next, Script
<1> QED
  BY <1>1, <1>2, PTL DEF Spec

(* The count is always the one that was earned.                            *)
LEMMA EarnedCount == Spec => []CountIsEarned
<1>1. Init => CountIsEarned
  BY DEF Init, CountIsEarned
<1>2. TypeOK /\ CountIsEarned /\ [Next]_vars => CountIsEarned'
  <2> SUFFICES ASSUME TypeOK, CountIsEarned, [Next]_vars PROVE CountIsEarned'
    OBVIOUS
  <2> USE DEF CountIsEarned, locals, files
  <2>1. CASE Failed
    <3>1. failures' = Saturated(failures + 1) /\ failedInARow' = failures'
      BY <2>1 DEF Failed
    <3>2. pc' = "fallback" => failures' >= Threshold
      BY <2>1 DEF Failed, Reached
    <3> QED
      BY <3>1, <3>2
  <2>2. CASE CheckRpc \/ SlotFails \/ Healthy \/ AllDown \/ Restart
    BY <2>2 DEF CheckRpc, SlotFails, Healthy, AllDown, Restart, Start
  <2>3. CASE TryFallback
    BY <2>3 DEF TryFallback
  <2>4. CASE UNCHANGED vars \/ \E e \in Endpoints : Change(e)
    BY <2>4 DEF vars, Change
  <2> QED
    BY <2>1, <2>2, <2>3, <2>4 DEF Next, Script
<1> QED
  BY <1>1, <1>2, TypeCorrect, PTL DEF Spec

(* The checker moves to another endpoint only after Threshold failed       *)
(* checks in a row, to a healthy one, or because it starts anew.           *)
THEOREM FailoversAreEarned == Spec => FailoverIsEarned
<1> DEFINE Earned ==
      current' # current =>
        \/ pc = "ended" /\ current' = Primary
        \/ failedInARow >= Threshold /\ rpc[current'] = "healthy"
<1>1. CountIsEarned /\ [Next]_vars => Earned
  <2> SUFFICES ASSUME CountIsEarned, [Next]_vars PROVE Earned
    OBVIOUS
  <2> USE DEF CountIsEarned, locals, files
  <2>1. CASE TryFallback
    BY <2>1 DEF TryFallback
  <2>2. CASE Restart
    BY <2>2 DEF Restart, Start
  <2>3. CASE CheckRpc \/ SlotFails \/ Healthy \/ Failed \/ AllDown
               \/ UNCHANGED vars \/ \E e \in Endpoints : Change(e)
    BY <2>3 DEF CheckRpc, SlotFails, Healthy, Failed, AllDown, vars, Change
  <2> QED
    BY <2>1, <2>2, <2>3 DEF Next, Script
<1> HIDE DEF Earned
<1>2. Spec => [][Earned]_vars
  BY <1>1, EarnedCount, PTL DEF Spec
<1> QED
  BY <1>2, PTL DEF FailoverIsEarned, Earned
=============================================================================
