---------------------------- MODULE RecoveryVerifier ----------------------------
(***************************************************************************)
(* RecoveryVerifier (chaos/recovery_verifier.rs).  Every operation is one  *)
(* critical section on the map of metrics.                                 *)
(*                                                                         *)
(* Abstractions.  Rates are compared as fractions.  Of the instants only   *)
(* the age of recovery_start is kept; recovery_end and failure_start only  *)
(* feed durations that are printed, and are left out with the report.      *)
(***************************************************************************)
EXTENDS Naturals

CONSTANTS
  Targets,
  Thresholds,    \* the values of success_threshold to check, in thousandths
  Timeout,       \* recovery_timeout, in ticks
  MaxRequests    \* bound on the requests of each kind

VARIABLES
  threshold,     \* self.success_threshold; it never changes
  recovery,      \* self.metrics: a function on the targets that are tracked
  verdict        \* history: what verify_recovery last said of a target, "none" since anything else

vars == <<threshold, recovery, verdict>>

RecoveryResult == {"Success", "PartialRecovery", "Failed", "InProgress", "NotStarted"}

\* RecoveryMetrics::new.  age is that of recovery_start, if the recovery has begun.
NewMetrics ==
  [ begun |-> FALSE, age |-> 0, result |-> "NotStarted",
    failing |-> [requests |-> 0, successful |-> 0],
    recovering |-> [requests |-> 0, successful |-> 0] ]

Init ==
  /\ threshold \in Thresholds
  /\ recovery = [t \in {} |-> NewMetrics]
  /\ verdict = [t \in Targets |-> "none"]

-----------------------------------------------------------------------------
Forget(t) == verdict' = [verdict EXCEPT ![t] = "none"]

StartFailureTracking(t) ==
  /\ recovery' = [u \in DOMAIN recovery \cup {t} |-> IF u = t THEN NewMetrics ELSE recovery[u]]
  /\ Forget(t)
  /\ UNCHANGED threshold

\* record_request counts until there is a verdict.
Counts_Always(m) == TRUE     \* slip: requests are counted after the verdict, too

Counts(m) == m.result \in {"NotStarted", "InProgress"}

Counted(n, success) ==
  [requests |-> n.requests + 1, successful |-> n.successful + (IF success THEN 1 ELSE 0)]

RecordRequest(t) ==
  /\ t \in DOMAIN recovery /\ Counts(recovery[t])
  /\ \E success \in BOOLEAN :
       \/ /\ ~recovery[t].begun /\ recovery[t].failing.requests < 2
          /\ recovery' = [recovery EXCEPT ![t].failing = Counted(@, success)]
       \/ /\ recovery[t].begun /\ recovery[t].recovering.requests < MaxRequests
          /\ recovery' = [recovery EXCEPT ![t].recovering = Counted(@, success)]
  /\ UNCHANGED <<threshold, verdict>>

\* start_recovery; the counts of an earlier recovery stay.
StartRecovery(t) ==
  /\ t \in DOMAIN recovery
  /\ recovery' = [recovery EXCEPT ![t].begun = TRUE, ![t].age = 0, ![t].result = "InProgress"]
  /\ Forget(t)
  /\ UNCHANGED threshold

\* What verify_recovery says, success_rate_during_recovery included.
Verdict(m) ==
  LET n == m.recovering
      AtLeast(thousandths) == 1000 * n.successful >= thousandths * n.requests
  IN  CASE ~m.begun -> "NotStarted"
        [] m.begun /\ m.age > Timeout -> "Failed"
        [] m.begun /\ m.age <= Timeout /\ n.requests >= 10 /\ AtLeast(threshold) -> "Success"
        [] m.begun /\ m.age <= Timeout /\ n.requests >= 10 /\ ~AtLeast(threshold) /\ AtLeast(900)
             -> "PartialRecovery"
        [] OTHER -> "InProgress"

\* ... and what it keeps of it.
VerifyRecovery(t) ==
  /\ t \in DOMAIN recovery
  /\ LET said == Verdict(recovery[t])
     IN  /\ recovery' = [recovery EXCEPT ![t].result =
                           IF said \in {"NotStarted", "InProgress"} THEN @ ELSE said]
         /\ verdict' = [verdict EXCEPT ![t] = said]
  /\ UNCHANGED threshold

CompleteRecovery(t) ==
  /\ t \in DOMAIN recovery
  /\ \E result \in RecoveryResult : recovery' = [recovery EXCEPT ![t].result = result]
  /\ Forget(t)
  /\ UNCHANGED threshold

\* clear of one target, clear_all of every one.
Clear(gone) ==
  /\ recovery' = [t \in DOMAIN recovery \ gone |-> recovery[t]]
  /\ verdict' = [t \in Targets |-> IF t \in gone THEN "none" ELSE verdict[t]]
  /\ UNCHANGED threshold

Tick ==
  /\ recovery' = [t \in DOMAIN recovery |->
                    [recovery[t] EXCEPT !.age = IF recovery[t].begun /\ @ <= Timeout THEN @ + 1 ELSE @]]
  /\ UNCHANGED <<threshold, verdict>>

Next ==
  \/ Tick
  \/ Clear(Targets)
  \/ \E t \in Targets :
       \/ StartFailureTracking(t) \/ RecordRequest(t) \/ StartRecovery(t)
       \/ VerifyRecovery(t) \/ CompleteRecovery(t) \/ Clear({t})

-----------------------------------------------------------------------------
(***************************************************************************)
(* Once verify_recovery has called a recovery successful or partial it     *)
(* says the same whatever is recorded, until the timeout has passed; then  *)
(* it says failed, even of a success, and stays with that.  Only starting, *)
(* completing or clearing reopens the question (record_request,            *)
(* verify_recovery).                                                       *)
(***************************************************************************)
VerdictStable ==
  \A t \in Targets : verdict[t] \in {"Success", "PartialRecovery", "Failed"} =>
    /\ t \in DOMAIN recovery
    /\ Verdict(recovery[t]) = IF recovery[t].age > Timeout THEN "Failed" ELSE verdict[t]
===============================================================================
