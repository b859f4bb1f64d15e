------------------------------ MODULE Failover ------------------------------
(***************************************************************************)
(* The RPC health checker (scripts/healthcheck.sh), a loop that watches    *)
(* one endpoint and moves to a fallback after Threshold failed checks, and *)
(* the container command that starts it again when it ends                 *)
(* (docker-compose.yml).                                                   *)
(*                                                                         *)
(* Each curl is a step of its own, as endpoints change between two of      *)
(* them.  The script runs under set -e: a getSlot that gets no answer ends *)
(* it, and its variables with it, while its files stay.                    *)
(***************************************************************************)
EXTENDS Integers, Sequences

CONSTANTS
  Primary,     \* SOLANA_RPC_URL
  Fallbacks,   \* SOLANA_RPC_FALLBACKS, in order
  Threshold    \* CONSECUTIVE_FAILURES_THRESHOLD

Endpoints == {Primary} \cup {Fallbacks[i] : i \in DOMAIN Fallbacks}
NoEndpoint == "none"
AllDownReport == "allDown"

ASSUME FailoverConstants ==
  /\ Threshold \in Nat \ {0}
  /\ Fallbacks \in Seq(Endpoints)
  /\ {NoEndpoint, AllDownReport} \cap Endpoints = {}

VARIABLES
  rpc,          \* what each endpoint is like
  pc,           \* where the script is: before which curl, or ended
  status,       \* what check_rpc said of the endpoint watched
  failures,     \* primary_failures
  current,      \* current_primary
  next,         \* the fallback to be tried
  healthFile,   \* the endpoint HEALTH_FILE calls healthy, or "allDown"
  failoverFile, \* the endpoint named in FAILOVER_FILE
  failedInARow  \* history: failed checks of current since a good one

locals == <<status, failures, current, next, failedInARow>>
files == <<healthFile, failoverFile>>
vars == <<rpc, pc, locals, files>>

(* An endpoint answers getHealth with ok, answers it with an error, or     *)
(* does not answer anything that curl and jq can read.                     *)
Health == {"healthy", "error", "unreachable"}

(* The code only compares the counter with the threshold, so it is kept    *)
(* at one above; the mutant that compares for equality sees the difference.*)
Saturated(n) == IF n > Threshold THEN Threshold + 1 ELSE n

TypeOK ==
  /\ rpc \in [Endpoints -> Health]
  /\ pc \in {"check", "slot", "fallback", "ended"}
  /\ status \in Health
  /\ failures \in 0..Threshold + 1
  /\ current \in Endpoints
  /\ next \in 1..Len(Fallbacks) + 1
  /\ healthFile \in Endpoints \cup {NoEndpoint, AllDownReport}
  /\ failoverFile \in Endpoints \cup {NoEndpoint}
  /\ failedInARow \in 0..Threshold + 1

(* What the script begins with.                                            *)
Start ==
  /\ pc' = "check"
  /\ status' = "healthy"
  /\ failures' = 0
  /\ current' = Primary
  /\ next' = 1
  /\ failedInARow' = 0

Init ==
  /\ rpc \in [Endpoints -> Health]
  /\ pc = "check"
  /\ status = "healthy"
  /\ failures = 0
  /\ current = Primary
  /\ next = 1
  /\ healthFile = NoEndpoint
  /\ failoverFile = NoEndpoint
  /\ failedInARow = 0

-----------------------------------------------------------------------------
(* An endpoint changes.                                                    *)
Change(e) ==
  /\ \E health \in Health \ {rpc[e]} : rpc' = [rpc EXCEPT ![e] = health]
  /\ UNCHANGED <<pc, locals, files>>

(* The sleep is over: check_rpc of the endpoint watched.  A curl that      *)
(* fails in it is not fatal: set -e is not inherited by $( ).              *)
CheckRpc ==
  /\ pc = "check"
  /\ pc' = "slot"
  /\ status' = rpc[current]
  /\ UNCHANGED <<rpc, failures, current, next, failedInARow, files>>

(* get_slot fails with its pipeline, and the script with it.               *)
SlotFails ==
  /\ pc = "slot"
  /\ rpc[current] = "unreachable"
  /\ pc' = "ended"
  /\ UNCHANGED <<rpc, locals, files>>

SlotAnswers == pc = "slot" /\ rpc[current] # "unreachable"

(* Bug: a healthy answer leaves the count as it was.                       *)
HealthyKeepsCount ==
  /\ SlotAnswers
  /\ status = "healthy"
  /\ failures' = failures
  /\ failedInARow' = 0
  /\ pc' = "check"
  /\ healthFile' = current
  /\ UNCHANGED <<rpc, status, current, next, failoverFile>>

Healthy ==
  /\ SlotAnswers
  /\ status = "healthy"
  /\ failures' = 0
  /\ failedInARow' = 0
  /\ pc' = "check"
  /\ healthFile' = current
  /\ UNCHANGED <<rpc, status, current, next, failoverFile>>

(* Bug: failing over is tried once only.                                   *)
ReachedOnce(n) == n = Threshold

Reached(n) == n >= Threshold

(* One failure more; from the threshold on the fallbacks are tried.        *)
Failed ==
  /\ SlotAnswers
  /\ status # "healthy"
  /\ failures' = Saturated(failures + 1)
  /\ failedInARow' = Saturated(failedInARow + 1)
  /\ pc' = IF Reached(failures') THEN "fallback" ELSE "check"
  /\ next' = 1
  /\ UNCHANGED <<rpc, status, current, files>>

(* check_rpc of the next fallback: it is taken when it is healthy.         *)
TryFallback ==
  /\ pc = "fallback"
  /\ next <= Len(Fallbacks)
  /\ LET e == Fallbacks[next]
     IN  IF rpc[e] = "healthy"
         THEN /\ current' = e
              /\ failures' = 0
              /\ failedInARow' = 0
              /\ failoverFile' = e
              /\ pc' = "check"
              /\ UNCHANGED next
         ELSE /\ next' = next + 1
              /\ UNCHANGED <<pc, failures, current, failoverFile, failedInARow>>
  /\ UNCHANGED <<rpc, status, healthFile>>

(* Bug: one fallback too many is looked for.                               *)
AllDownLate ==
  /\ pc = "fallback"
  /\ next > Len(Fallbacks)
  /\ pc' = IF next > Len(Fallbacks) + 1 THEN "check" ELSE pc
  /\ next' = next + 1
  /\ UNCHANGED <<rpc, status, failures, current, files, failedInARow>>

(* No fallback is healthy: the same endpoint is watched on.                *)
AllDown ==
  /\ pc = "fallback"
  /\ next > Len(Fallbacks)
  /\ pc' = "check"
  /\ healthFile' = AllDownReport
  /\ UNCHANGED <<rpc, locals, failoverFile>>

(* The container's loop runs the script again.                             *)
Restart ==
  /\ pc = "ended"
  /\ Start
  /\ UNCHANGED <<rpc, files>>

-----------------------------------------------------------------------------
Script ==
  \/ CheckRpc \/ SlotFails \/ Healthy \/ Failed
  \/ TryFallback \/ AllDown
  \/ Restart

Next == Script \/ \E e \in Endpoints : Change(e)

Spec == Init /\ [][Next]_vars

(* Sleeps end, curl gives up after TIMEOUT_SECS, the container's loop goes *)
(* on: the script always takes its next step.                              *)
FairSpec == Spec /\ WF_vars(Script)

-----------------------------------------------------------------------------
(* Properties                                                              *)

(* An endpoint is given up only after Threshold failed checks with no good *)
(* one between them, for one that was healthy when it was looked at;       *)
(* otherwise the script has been started anew (main).                      *)
FailoverIsEarned ==
  [][current' # current =>
       \/ pc = "ended" /\ current' = Primary
       \/ failedInARow >= Threshold /\ rpc[current'] = "healthy"]_vars

Watchable(e) == rpc[e] # "unreachable"

(* Once the endpoints rest, the script comes to watch a healthy one and    *)
(* stays with it, through restarts and failed failovers, provided that a   *)
(* fallback is healthy and that the primary answers at all (main, restart  *)
(* loop of rpc-health).                                                    *)
SettlesOnHealthy ==
  (/\ <>[][UNCHANGED rpc]_rpc
   /\ <>[](Watchable(Primary) /\ \E i \in DOMAIN Fallbacks : rpc[Fallbacks[i]] = "healthy"))
  => <>[](rpc[current] = "healthy")
=============================================================================
