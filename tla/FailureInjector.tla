---------------------------- MODULE FailureInjector ----------------------------
(***************************************************************************)
(* FailureInjector (chaos/failure_injector.rs), shared by the threads that *)
(* inject failures and those that ask for them.  inject holds both of its  *)
(* mutexes and the rest only that of the active failures, so each          *)
(* operation is one step.                                                  *)
(*                                                                         *)
(* Abstractions.  A failure rate is "never" (0), "sometimes" or "always"   *)
(* (1, where no random number is drawn).  Of the duration what is left of  *)
(* it is kept.  The failure types differ in nothing but their names.       *)
(***************************************************************************)
EXTENDS Naturals, SequencesExt

CONSTANTS
  Targets, FailureTypes,
  MaxDuration,        \* of a failure, in ticks
  MaxHistory,         \* bound on the failures injected
  MaxAsked            \* bound on the requests a failure is asked about

VARIABLES
  active_failures,    \* self.active_failures: a function on the targets it has
  failure_history,    \* self.failure_history
  told                \* history, per target: [n, failed], the requests since it was injected

vars == <<active_failures, failure_history, told>>

FailureConfig ==
  [ target : Targets, failure_type : FailureTypes, duration : 0 .. MaxDuration,
    failure_rate : {"never", "sometimes", "always"} ]

Untold == [n |-> 0, failed |-> 0]

Init ==
  /\ active_failures = [t \in {} |-> 0]
  /\ failure_history = <<>>
  /\ told = [t \in Targets |-> Untold]

-----------------------------------------------------------------------------
\* HashMap::insert.
Inserted(failures, config) ==
  [t \in DOMAIN failures \cup {config.target} |->
     IF t # config.target THEN failures[t]
     ELSE [config |-> config, left |-> config.duration, requests_affected |-> 0]]

Inject ==
  /\ Len(failure_history) < MaxHistory
  /\ \E config \in FailureConfig :
       /\ active_failures' = Inserted(active_failures, config)
       /\ failure_history' = Append(failure_history, config)
       /\ told' = [told EXCEPT ![config.target] = Untold]

\* remove of one target, clear_all of every one.
RemoveFailures(gone) ==
  /\ active_failures' = [t \in DOMAIN active_failures \ gone |-> active_failures[t]]
  /\ told' = [t \in Targets |-> IF t \in gone THEN Untold ELSE told[t]]
  /\ UNCHANGED failure_history

IsFailureActive(t) == t \in DOMAIN active_failures /\ active_failures[t].left > 0

\* should_fail of a failure in force; of another it says None and counts nothing.
ShouldFail(t) ==
  /\ IsFailureActive(t) /\ told[t].n < MaxAsked
  /\ active_failures' = [active_failures EXCEPT ![t].requests_affected = @ + 1]
  /\ \E fails \in BOOLEAN :
       /\ active_failures[t].config.failure_rate = "always" => fails
       /\ active_failures[t].config.failure_rate = "never" => ~fails
       /\ told' = [told EXCEPT ![t] = [n |-> @.n + 1, failed |-> @.failed + (IF fails THEN 1 ELSE 0)]]
  /\ UNCHANGED failure_history

Tick ==
  /\ active_failures' = [t \in DOMAIN active_failures |->
                           [active_failures[t] EXCEPT !.left = IF @ > 0 THEN @ - 1 ELSE 0]]
  /\ UNCHANGED <<failure_history, told>>

Next ==
  \/ Tick \/ Inject \/ RemoveFailures(Targets)
  \/ \E t \in Targets : RemoveFailures({t}) \/ ShouldFail(t)

-----------------------------------------------------------------------------
\* config is that of the last failure injected for t.
LastFor(t, config) ==
  \E i \in DOMAIN failure_history :
    /\ failure_history[i] = config /\ config.target = t
    /\ \A j \in DOMAIN failure_history : j > i => failure_history[j].target # t

(***************************************************************************)
(* The failure a target has is the last one injected for it, with its own  *)
(* count of requests, and a failure that always fails has failed all the   *)
(* requests it counts, one that never does none of them (inject,           *)
(* should_fail): an injection does not inherit from the one it replaces.   *)
(***************************************************************************)
LastInjected ==
  \A t \in DOMAIN active_failures :
    LET f == active_failures[t]
    IN  /\ LastFor(t, f.config)
        /\ f.requests_affected = told[t].n
        /\ f.config.failure_rate = "always" => told[t].failed = f.requests_affected
        /\ f.config.failure_rate = "never" => told[t].failed = 0
===============================================================================
