---------------------------- MODULE CircuitBreaker ----------------------------
(***************************************************************************)
(* One CircuitBreaker shared by threads (circuit_breaker/state_machine.rs). *)
(*                                                                         *)
(* call(f) is three steps of its thread: is_call_permitted (one locked     *)
(* step), f itself, which runs with no lock held, and record_success or    *)
(* record_failure (one locked step).  Between the first and the last       *)
(* anything may happen to the breaker, so an outcome can arrive in a state *)
(* that is not the one its permit was given in.                            *)
(***************************************************************************)
EXTENDS BreakerOps, FiniteSets

CONSTANTS
  Callers,           \* the threads that use call()
  MaxInterventions   \* bound on force_open/force_closed/force_half_open/reset

ASSUME InterventionsAssumption == MaxInterventions \in Nat

VARIABLES
  breaker,        \* the record the mutex protects
  permit,         \* per caller: "none", or the kind of permit f runs under
  healthy,        \* environment: while TRUE, f does not fail
  interventions   \* number of operator interventions so far

(***************************************************************************)
(* History variables: no action's guard reads them.                        *)
(*   testCalls  calls let in on an elapsed timeout or in HalfOpen since    *)
(*              the breaker last became Open or Closed                     *)
(*   abandoned  some f panicked, so that its outcome was never recorded    *)
(***************************************************************************)
VARIABLES testCalls, abandoned

vars == <<breaker, permit, healthy, interventions, testCalls, abandoned>>

PermitKind == {"none", "regular", "test"}

Init ==
  /\ breaker = NewBreaker("Closed")
  /\ permit = [c \in Callers |-> "none"]
  /\ healthy \in BOOLEAN
  /\ interventions = 0
  /\ testCalls = 0
  /\ abandoned = FALSE

\* A new period for the history variable starts on becoming Open or Closed.
NewPeriod ==
  /\ breaker'.state # breaker.state
  /\ breaker'.state \in {"Closed", "Open"}

-----------------------------------------------------------------------------
\* call(), first step.  A refused call only counts a statistic and returns.
Enter(c) ==
  /\ permit[c] = "none"
  /\ CallPermitted(breaker)
  /\ breaker' = TakePermit(breaker)
  /\ IF breaker.state = "Closed"
     THEN permit' = [permit EXCEPT ![c] = "regular"] /\ UNCHANGED testCalls
     ELSE permit' = [permit EXCEPT ![c] = "test"] /\ testCalls' = testCalls + 1
  /\ UNCHANGED <<healthy, interventions, abandoned>>

\* call(), last step: f returned and its outcome is recorded.
Leave(c, recorded) ==
  /\ permit[c] # "none"
  /\ breaker' = recorded
  /\ permit' = [permit EXCEPT ![c] = "none"]
  /\ testCalls' = IF NewPeriod THEN 0 ELSE testCalls
  /\ UNCHANGED <<healthy, interventions, abandoned>>

Succeed(c) == Leave(c, RecordSuccess(breaker))

Fail(c) == ~healthy /\ Leave(c, RecordFailure(breaker))

\* f panics: call() unwinds without recording anything, its permit is lost.
Panic(c) ==
  /\ permit[c] # "none"
  /\ permit' = [permit EXCEPT ![c] = "none"]
  /\ abandoned' = TRUE
  /\ UNCHANGED <<breaker, healthy, interventions, testCalls>>

\* state(), called by whoever watches the breaker (the router polls it).
Poll ==
  /\ breaker' = StateQuery(breaker)
  /\ UNCHANGED <<permit, healthy, interventions, testCalls, abandoned>>

Tick ==
  /\ breaker.state = "Open"
  /\ breaker.age < Timeout
  /\ breaker' = ClockTick(breaker)
  /\ UNCHANGED <<permit, healthy, interventions, testCalls, abandoned>>

HealthChanges ==
  /\ healthy' = ~healthy
  /\ UNCHANGED <<breaker, permit, interventions, testCalls, abandoned>>

\* force_open, force_closed, force_half_open and reset.
Intervene ==
  /\ interventions < MaxInterventions
  /\ interventions' = interventions + 1
  /\ \/ \E s \in CircuitState : breaker' = TransitionTo(breaker, s)
     \/ breaker' = ResetBreaker(breaker)
  /\ testCalls' = IF NewPeriod THEN 0 ELSE testCalls
  /\ UNCHANGED <<permit, healthy, abandoned>>

CallStep(c) == Enter(c) \/ Succeed(c) \/ Fail(c) \/ Panic(c)

Next ==
  \/ \E c \in Callers : CallStep(c)
  \/ Poll
  \/ Tick
  \/ HealthChanges
  \/ Intervene

(***************************************************************************)
(* Fairness: time passes, threads keep calling, every f returns or panics, *)
(* and someone keeps polling state().                                      *)
(***************************************************************************)
CallFairness ==
  /\ WF_vars(Tick)
  /\ \A c \in Callers : WF_vars(Enter(c)) /\ WF_vars(Succeed(c) \/ Fail(c) \/ Panic(c))

Spec == Init /\ [][Next]_vars /\ CallFairness /\ WF_vars(Poll)

(***************************************************************************)
(* The same system with call() as the breaker's only client: nobody polls  *)
(* state() and nobody intervenes.                                          *)
(***************************************************************************)
CallOnlyNext ==
  \/ \E c \in Callers : CallStep(c)
  \/ Tick
  \/ HealthChanges

CallOnlySpec == Init /\ [][CallOnlyNext]_vars /\ CallFairness

-----------------------------------------------------------------------------
(* Type correctness of the breaker and of its callers. *)
TypeOK ==
  /\ breaker \in Breaker
  /\ permit \in [Callers -> PermitKind]
  /\ healthy \in BOOLEAN
  /\ interventions \in 0 .. MaxInterventions
  /\ testCalls \in Nat
  /\ abandoned \in BOOLEAN

(***************************************************************************)
(* No outcome that should have moved the breaker is ever left standing,    *)
(* whatever state it arrives in: a Closed breaker is below its failure     *)
(* threshold, and a HalfOpen one has seen no failure and is below its      *)
(* success threshold (record_success, record_failure, transition_to).      *)
(***************************************************************************)
NoPendingTransition ==
  /\ breaker.state = "Closed" /\ FailureThreshold > 0
       => breaker.consecutive_failures < FailureThreshold
  /\ breaker.state = "HalfOpen"
       => /\ breaker.consecutive_failures = 0
          /\ SuccessThreshold > 0 => breaker.consecutive_successes < SuccessThreshold

(***************************************************************************)
(* Between becoming Open and leaving HalfOpen, at most twice               *)
(* half_open_max_calls calls reach the failing service: one budget spent   *)
(* by is_call_permitted on the elapsed timeout while still Open, and one   *)
(* after state() has moved to HalfOpen and reset the count.  This is what  *)
(* the code keeps; the documented limit is TestCallsLimited, below.        *)
(***************************************************************************)
TestCallBudget == testCalls <= 2 * HalfOpenMaxCalls

(***************************************************************************)
(* The breaker implements its contract.                                    *)
(***************************************************************************)
Contract == INSTANCE BreakerContract WITH
  mode         <- breaker.state,
  cooled       <- breaker.state = "Open" /\ breaker.age >= Timeout,
  running      <- {c \in Callers : permit[c] # "none"},
  overrides    <- interventions,
  InstantRetry <- Timeout = 0

ImplementsContract == Contract!Spec

(***************************************************************************)
(* An open breaker does not stay open ("OPEN -> HALF_OPEN: after           *)
(* timeout_duration elapsed", transaction_router.md).                      *)
(***************************************************************************)
OpenTimesOut == breaker.state = "Open" ~> breaker.state # "Open"

(***************************************************************************)
(* Once the service is healthy for good the circuit closes for good, if no *)
(* outcome was ever lost to a panic and nobody intervenes again (a lost    *)
(* test call can leave HalfOpen without budget, which has no timeout).     *)
(* It needs half_open_max_calls >= success_threshold.                      *)
(***************************************************************************)
Recovery ==
  [](~abandoned) /\ <>[]healthy => <>[](breaker.state = "Closed")

(***************************************************************************)
(* "half_open_max_calls: Concurrent test requests allowed"                 *)
(* (transaction_router.md): no more calls than that run at a time under a  *)
(* permit that an elapsed timeout or HalfOpen gave (is_call_permitted).    *)
(***************************************************************************)
TestCallsLimited ==
  Cardinality({c \in Callers : permit[c] = "test"}) <= HalfOpenMaxCalls
===============================================================================
