------------------------------ MODULE BreakerOps ------------------------------
(***************************************************************************)
(* The operations of one circuit breaker (circuit_breaker/state_machine.rs) *)
(* as functions on the record its mutex protects.  Every public method of  *)
(* CircuitBreaker locks that mutex once, so each operator below is one     *)
(* atomic step of whichever module uses it.                                *)
(*                                                                         *)
(* Abstractions.                                                           *)
(*  - last_state_change is only ever compared with the timeout while the   *)
(*    circuit is Open: age counts the ticks since then and stops at        *)
(*    Timeout, beyond which elapsed() >= timeout no longer changes.        *)
(*  - consecutive_* are only compared with a threshold by >=, so they stop *)
(*    at it (Bump).                                                        *)
(*  - total_calls, successful_calls, failed_calls, rejected_calls and      *)
(*    state_transitions are statistics no decision reads; they are left    *)
(*    out, and with them get_metrics.                                      *)
(***************************************************************************)
EXTENDS Naturals

CONSTANTS
  FailureThreshold,   \* config.failure_threshold
  SuccessThreshold,   \* config.success_threshold
  HalfOpenMaxCalls,   \* config.half_open_max_calls
  Timeout             \* config.timeout, in clock ticks

\* CircuitBreakerConfig::new accepts any unsigned values, zeros included.
ASSUME BreakerAssumption ==
  /\ FailureThreshold \in Nat
  /\ SuccessThreshold \in Nat
  /\ HalfOpenMaxCalls \in Nat
  /\ Timeout \in Nat

CircuitState == {"Closed", "Open", "HalfOpen"}

Breaker == [ state                 : CircuitState,
             age                   : 0 .. Timeout,
             consecutive_failures  : 0 .. FailureThreshold,
             consecutive_successes : 0 .. SuccessThreshold,
             half_open_calls       : 0 .. HalfOpenMaxCalls ]

\* new (Closed) and with_state (any state): fresh metrics, the clock starts now.
NewBreaker(s) == [ state                 |-> s,
                   age                   |-> 0,
                   consecutive_failures  |-> 0,
                   consecutive_successes |-> 0,
                   half_open_calls       |-> 0 ]

Bump(n, top) == IF n < top THEN n + 1 ELSE n

\* check_and_update_state: what the state "is" now; it writes nothing.
ObservedState(b) ==
  IF b.state = "Open" /\ b.age >= Timeout THEN "HalfOpen" ELSE b.state

-----------------------------------------------------------------------------
(***************************************************************************)
(* transition_to.  A transition to the state the breaker is already in     *)
(* does nothing at all: in particular it does not restart the timeout.     *)
(***************************************************************************)
TransitionTo_KeepBudget(b, s) ==    \* slip: the test-call budget is not reset
  IF b.state = s
  THEN b
  ELSE [b EXCEPT !.state = s,
                 !.age = 0,
                 !.consecutive_failures  = IF s = "Open" THEN @ ELSE 0,
                 !.consecutive_successes = IF s = "Open" THEN @ ELSE 0]

TransitionTo(b, s) ==
  IF b.state = s
  THEN b
  ELSE [state |-> s,
        age   |-> 0,
        consecutive_failures  |-> IF s = "Open" THEN b.consecutive_failures ELSE 0,
        consecutive_successes |-> IF s = "Open" THEN b.consecutive_successes ELSE 0,
        half_open_calls       |-> 0]

(***************************************************************************)
(* state(): the only operation that turns an Open breaker whose timeout    *)
(* has elapsed into a HalfOpen one.                                        *)
(***************************************************************************)
StateQuery_NeverMoves(b) == b       \* slip: the elapsed timeout is not stored

StateQuery(b) ==
  IF ObservedState(b) = "HalfOpen" /\ b.state = "Open"
  THEN TransitionTo(b, "HalfOpen")
  ELSE b

(***************************************************************************)
(* is_call_permitted(): the answer, and what a positive answer writes.  An *)
(* Open breaker whose timeout has elapsed is treated as HalfOpen here but  *)
(* stays Open.                                                             *)
(***************************************************************************)
CallPermitted_WhileOpen(b) ==       \* slip: stale state instead of the clock
  \/ b.state = "Closed"
  \/ b.half_open_calls < HalfOpenMaxCalls

CallPermitted(b) ==
  \/ ObservedState(b) = "Closed"
  \/ ObservedState(b) = "HalfOpen" /\ b.half_open_calls < HalfOpenMaxCalls

TakePermit_Uncounted(b) == b        \* slip: half_open_calls is not counted

TakePermit(b) ==
  IF ObservedState(b) = "HalfOpen"
  THEN [b EXCEPT !.half_open_calls = @ + 1]
  ELSE b

(***************************************************************************)
(* record_success() and record_failure().                                  *)
(***************************************************************************)
RecordSuccess(b) ==
  LET counted == [b EXCEPT !.consecutive_successes = Bump(@, SuccessThreshold),
                           !.consecutive_failures  = 0]
  IN  IF /\ counted.state = "HalfOpen"
         /\ counted.consecutive_successes >= SuccessThreshold
      THEN TransitionTo(counted, "Closed")
      ELSE counted

RecordFailure_OffByOne(b) ==        \* slip: > instead of >=
  LET counted == [b EXCEPT !.consecutive_failures  = Bump(@, FailureThreshold),
                           !.consecutive_successes = 0]
  IN  IF \/ counted.state = "HalfOpen"
         \/ /\ counted.state = "Closed"
            /\ b.consecutive_failures >= FailureThreshold
      THEN TransitionTo(counted, "Open")
      ELSE counted

RecordFailure(b) ==
  LET counted == [b EXCEPT !.consecutive_failures  = Bump(@, FailureThreshold),
                           !.consecutive_successes = 0]
  IN  IF \/ counted.state = "HalfOpen"
         \/ /\ counted.state = "Closed"
            /\ counted.consecutive_failures >= FailureThreshold
      THEN TransitionTo(counted, "Open")
      ELSE counted

\* reset(): fresh metrics first, then the transition to Closed.
ResetBreaker(b) ==
  TransitionTo([b EXCEPT !.consecutive_failures  = 0,
                         !.consecutive_successes = 0,
                         !.half_open_calls       = 0], "Closed")

\* Instant::elapsed seen by an Open breaker: time moves on by one tick.
ClockTick(b) == [b EXCEPT !.age = @ + 1]
===============================================================================
