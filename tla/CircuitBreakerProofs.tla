------------------------- MODULE CircuitBreakerProofs -------------------------
(***************************************************************************)
(* Theorems about CircuitBreaker for every set of callers, every           *)
(* configuration of the breaker and every number of interventions.         *)
(***************************************************************************)
EXTENDS CircuitBreaker, TLAPS

-----------------------------------------------------------------------------
(* Every operation of the breaker returns a well-typed record. *)

LEMMA TransitionToType ==
  ASSUME NEW b \in Breaker, NEW s \in CircuitState
  PROVE  TransitionTo(b, s) \in Breaker
  BY BreakerAssumption DEF TransitionTo, Breaker, CircuitState

LEMMA NewBreakerType ==
  ASSUME NEW s \in CircuitState
  PROVE  NewBreaker(s) \in Breaker
  BY BreakerAssumption DEF NewBreaker, Breaker, CircuitState

LEMMA BumpType ==
  ASSUME NEW top \in Nat, NEW n \in 0 .. top
  PROVE  Bump(n, top) \in 0 .. top
  BY DEF Bump

(* The zeros that fresh counters start from are in their ranges. *)
LEMMA ZeroInRange ==
  /\ 0 \in 0 .. FailureThreshold
  /\ 0 \in 0 .. SuccessThreshold
  /\ 0 \in 0 .. HalfOpenMaxCalls
  /\ 0 \in 0 .. Timeout
  BY BreakerAssumption

LEMMA StateQueryType ==
  ASSUME NEW b \in Breaker
  PROVE  StateQuery(b) \in Breaker
  BY TransitionToType DEF StateQuery, CircuitState

LEMMA TakePermitType ==
  ASSUME NEW b \in Breaker, CallPermitted(b)
  PROVE  TakePermit(b) \in Breaker
  BY BreakerAssumption
     DEF TakePermit, CallPermitted, ObservedState, Breaker, CircuitState

LEMMA RecordSuccessType ==
  ASSUME NEW b \in Breaker
  PROVE  RecordSuccess(b) \in Breaker
<1> DEFINE counted == [b EXCEPT
      !.consecutive_successes = Bump(@, SuccessThreshold),
      !.consecutive_failures  = 0]
<1>1. counted \in Breaker
  <2>1. Bump(b.consecutive_successes, SuccessThreshold) \in 0 .. SuccessThreshold
    BY BreakerAssumption, BumpType DEF Breaker
  <2> QED
    BY <2>1, ZeroInRange DEF Breaker
<1>2. TransitionTo(counted, "Closed") \in Breaker
  BY <1>1, TransitionToType DEF CircuitState
<1> QED
  BY <1>1, <1>2 DEF RecordSuccess

LEMMA RecordFailureType ==
  ASSUME NEW b \in Breaker
  PROVE  RecordFailure(b) \in Breaker
<1> DEFINE counted == [b EXCEPT
      !.consecutive_failures  = Bump(@, FailureThreshold),
      !.consecutive_successes = 0]
<1>1. counted \in Breaker
  <2>1. Bump(b.consecutive_failures, FailureThreshold) \in 0 .. FailureThreshold
    BY BreakerAssumption, BumpType DEF Breaker
  <2> QED
    BY <2>1, ZeroInRange DEF Breaker
<1>2. TransitionTo(counted, "Open") \in Breaker
  BY <1>1, TransitionToType DEF CircuitState
<1> QED
  BY <1>1, <1>2 DEF RecordFailure

LEMMA ResetBreakerType ==
  ASSUME NEW b \in Breaker
  PROVE  ResetBreaker(b) \in Breaker
<1> DEFINE fresh == [b EXCEPT !.consecutive_failures  = 0,
                              !.consecutive_successes = 0,
                              !.half_open_calls       = 0]
<1>1. fresh \in Breaker
  BY ZeroInRange DEF Breaker
<1> QED
  BY <1>1, TransitionToType DEF ResetBreaker, CircuitState

LEMMA ClockTickType ==
  ASSUME NEW b \in Breaker, b.age < Timeout
  PROVE  ClockTick(b) \in Breaker
  BY BreakerAssumption DEF ClockTick, Breaker

-----------------------------------------------------------------------------
(***************************************************************************)
(* Spec => []TypeOK.                                                       *)
(***************************************************************************)
LEMMA TypeInit == Init => TypeOK
<1>1. NewBreaker("Closed") \in Breaker
  BY NewBreakerType DEF CircuitState
<1> SUFFICES ASSUME Init PROVE TypeOK
  OBVIOUS
<1>2. breaker \in Breaker
  BY <1>1 DEF Init
<1>3. permit \in [Callers -> PermitKind]
  BY DEF Init, PermitKind
<1>4. healthy \in BOOLEAN /\ abandoned \in BOOLEAN
  BY DEF Init
<1>5. interventions \in 0 .. MaxInterventions /\ testCalls \in Nat
  BY InterventionsAssumption DEF Init
<1> QED
  BY <1>2, <1>3, <1>4, <1>5 DEF TypeOK

LEMMA TypeStep == TypeOK /\ [Next]_vars => TypeOK'
<1> SUFFICES ASSUME TypeOK, [Next]_vars PROVE TypeOK'
  OBVIOUS
<1> USE InterventionsAssumption DEF TypeOK, PermitKind
<1>1. ASSUME NEW c \in Callers, Enter(c) PROVE TypeOK'
  BY <1>1, TakePermitType DEF Enter
<1>2. ASSUME NEW c \in Callers, Succeed(c) PROVE TypeOK'
  BY <1>2, RecordSuccessType DEF Succeed, Leave
<1>3. ASSUME NEW c \in Callers, Fail(c) PROVE TypeOK'
  BY <1>3, RecordFailureType DEF Fail, Leave
<1>4. ASSUME NEW c \in Callers, Panic(c) PROVE TypeOK'
  BY <1>4 DEF Panic
<1>5. CASE Poll
  BY <1>5, StateQueryType DEF Poll
<1>6. CASE Tick
  BY <1>6, ClockTickType DEF Tick
<1>7. CASE HealthChanges
  BY <1>7 DEF HealthChanges
<1>8. CASE Intervene
  BY <1>8, TransitionToType, ResetBreakerType DEF Intervene
<1>9. CASE UNCHANGED vars
  BY <1>9 DEF vars
<1> QED
  BY <1>1, <1>2, <1>3, <1>4, <1>5, <1>6, <1>7, <1>8, <1>9 DEF Next, CallStep

(* In every behaviour the breaker's record and its callers keep their types; *)
(* in particular half_open_calls never exceeds half_open_max_calls.          *)
THEOREM TypeCorrect == Spec => []TypeOK
  BY TypeInit, TypeStep, PTL DEF Spec
-----------------------------------------------------------------------------
(***************************************************************************)
(* Spec => []NoPendingTransition.  Settled says of one record what the     *)
(* invariant says of the breaker; it is inductive given the types, because *)
(* every transition into Closed or HalfOpen zeroes the consecutive counts  *)
(* and every outcome that reaches a threshold leaves the state at once.    *)
(***************************************************************************)
Settled(b) ==
  /\ b.state = "Closed" /\ FailureThreshold > 0
       => b.consecutive_failures < FailureThreshold
  /\ b.state = "HalfOpen"
       => /\ b.consecutive_failures = 0
          /\ SuccessThreshold > 0 => b.consecutive_successes < SuccessThreshold

LEMMA TransitionToSettles ==
  ASSUME NEW b \in Breaker, NEW s \in CircuitState, Settled(b) \/ b.state # s
  PROVE  Settled(TransitionTo(b, s))
  BY BreakerAssumption DEF TransitionTo, Settled, Breaker, CircuitState

LEMMA StateQuerySettles ==
  ASSUME NEW b \in Breaker, Settled(b)
  PROVE  Settled(StateQuery(b))
  BY TransitionToSettles DEF StateQuery, CircuitState

LEMMA TakePermitSettles ==
  ASSUME NEW b \in Breaker, Settled(b)
  PROVE  Settled(TakePermit(b))
  BY DEF TakePermit, Settled, Breaker

LEMMA RecordSuccessSettles ==
  ASSUME NEW b \in Breaker, Settled(b)
  PROVE  Settled(RecordSuccess(b))
<1> DEFINE counted == [b EXCEPT
      !.consecutive_successes = Bump(@, SuccessThreshold),
      !.consecutive_failures  = 0]
<1>1. counted \in Breaker
  <2>1. Bump(b.consecutive_successes, SuccessThreshold) \in 0 .. SuccessThreshold
    BY BreakerAssumption, BumpType DEF Breaker
  <2> QED
    BY <2>1, ZeroInRange DEF Breaker
<1>2. /\ counted.consecutive_failures = 0
      /\ counted.state = b.state
      /\ counted.consecutive_successes \in 0 .. SuccessThreshold
  BY <1>1 DEF Breaker
<1> HIDE DEF counted
<1>3. CASE counted.state = "HalfOpen" /\ counted.consecutive_successes >= SuccessThreshold
  <2>1. Settled(TransitionTo(counted, "Closed"))
    BY <1>1, <1>3, TransitionToSettles DEF CircuitState
  <2> QED
    BY <2>1, <1>3 DEF RecordSuccess, counted
<1>4. CASE ~(counted.state = "HalfOpen" /\ counted.consecutive_successes >= SuccessThreshold)
  <2>1. Settled(counted)
    BY <1>2, <1>4, BreakerAssumption DEF Settled
  <2> QED
    BY <2>1, <1>4 DEF RecordSuccess, counted
<1> QED
  BY <1>3, <1>4

LEMMA RecordFailureSettles ==
  ASSUME NEW b \in Breaker, Settled(b)
  PROVE  Settled(RecordFailure(b))
<1> DEFINE counted == [b EXCEPT
      !.consecutive_failures  = Bump(@, FailureThreshold),
      !.consecutive_successes = 0]
<1> DEFINE trips == \/ counted.state = "HalfOpen"
                    \/ /\ counted.state = "Closed"
                       /\ counted.consecutive_failures >= FailureThreshold
<1>1. counted \in Breaker
  <2>1. Bump(b.consecutive_failures, FailureThreshold) \in 0 .. FailureThreshold
    BY BreakerAssumption, BumpType DEF Breaker
  <2> QED
    BY <2>1, ZeroInRange DEF Breaker
<1>2. counted.consecutive_failures \in 0 .. FailureThreshold
  BY <1>1 DEF Breaker
<1>3. CASE trips
  <2>1. Settled(TransitionTo(counted, "Open"))
    BY <1>1, <1>3, TransitionToSettles DEF CircuitState
  <2> QED
    BY <2>1, <1>3 DEF RecordFailure
<1>4. CASE ~trips
  <2>1. Settled(counted)
    <3> HIDE DEF counted
    <3> QED BY <1>2, <1>4, BreakerAssumption DEF Settled
  <2> QED
    BY <2>1, <1>4 DEF RecordFailure
<1> QED
  BY <1>3, <1>4

LEMMA ResetBreakerSettles ==
  ASSUME NEW b \in Breaker
  PROVE  Settled(ResetBreaker(b))
<1> DEFINE fresh == [b EXCEPT !.consecutive_failures  = 0,
                              !.consecutive_successes = 0,
                              !.half_open_calls       = 0]
<1>1. fresh \in Breaker
  BY ZeroInRange DEF Breaker
<1>2. fresh.consecutive_failures = 0
  BY DEF Breaker
<1> HIDE DEF fresh
<1>3. Settled(fresh) \/ fresh.state # "Closed"
  BY <1>2, BreakerAssumption DEF Settled
<1>4. Settled(TransitionTo(fresh, "Closed"))
  BY <1>1, <1>3, TransitionToSettles DEF CircuitState
<1> QED
  BY <1>4 DEF ResetBreaker, fresh

LEMMA SettledStep == TypeOK /\ Settled(breaker) /\ [Next]_vars => Settled(breaker')
<1> SUFFICES ASSUME TypeOK, Settled(breaker), [Next]_vars
             PROVE  Settled(breaker')
  OBVIOUS
<1> USE DEF TypeOK
<1>1. ASSUME NEW c \in Callers, Enter(c) PROVE Settled(breaker')
  BY <1>1, TakePermitSettles DEF Enter
<1>2. ASSUME NEW c \in Callers, Succeed(c) PROVE Settled(breaker')
  BY <1>2, RecordSuccessSettles DEF Succeed, Leave
<1>3. ASSUME NEW c \in Callers, Fail(c) PROVE Settled(breaker')
  BY <1>3, RecordFailureSettles DEF Fail, Leave
<1>4. ASSUME NEW c \in Callers, Panic(c) PROVE Settled(breaker')
  BY <1>4 DEF Panic
<1>5. CASE Poll
  BY <1>5, StateQuerySettles DEF Poll
<1>6. CASE Tick
  BY <1>6 DEF Tick, ClockTick, Settled, Breaker
<1>7. CASE HealthChanges
  BY <1>7 DEF HealthChanges
<1>8. CASE Intervene
  BY <1>8, TransitionToSettles, ResetBreakerSettles DEF Intervene
<1>9. CASE UNCHANGED vars
  BY <1>9 DEF vars
<1> QED
  BY <1>1, <1>2, <1>3, <1>4, <1>5, <1>6, <1>7, <1>8, <1>9 DEF Next, CallStep

(* No interleaving of calls, polls and interventions leaves the breaker in a *)
(* state whose threshold has already been reached.                           *)
THEOREM ThresholdsAct == Spec => []NoPendingTransition
<1>1. Init => Settled(breaker)
  BY BreakerAssumption DEF Init, NewBreaker, Settled
<1>2. Settled(breaker) => NoPendingTransition
  BY DEF Settled, NoPendingTransition
<1>3. Settled(breaker') <=> Settled(breaker)'
  BY DEF Settled
<1>4. TypeOK /\ Settled(breaker) /\ [Next]_vars => Settled(breaker)'
  BY SettledStep, <1>3
<1> QED
  BY <1>1, <1>2, <1>4, TypeCorrect, PTL DEF Spec

-----------------------------------------------------------------------------
(***************************************************************************)
(* What the operations do to the state, the timeout and the budget of test *)
(* calls: the facts the last two theorems are built from.                  *)
(***************************************************************************)
SameButCounts(r, b) ==
  /\ r.state = b.state
  /\ r.age = b.age
  /\ r.half_open_calls = b.half_open_calls

EnteredAfresh(r, s) ==
  /\ r.state = s
  /\ r.age = 0
  /\ r.half_open_calls = 0

LEMMA TransitionToEffect ==
  ASSUME NEW b \in Breaker, NEW s \in CircuitState
  PROVE  IF b.state = s THEN TransitionTo(b, s) = b
         ELSE EnteredAfresh(TransitionTo(b, s), s)
  BY DEF TransitionTo, EnteredAfresh

LEMMA StateQueryEffect ==
  ASSUME NEW b \in Breaker
  PROVE  \/ StateQuery(b) = b
         \/ /\ b.state = "Open"
            /\ b.age >= Timeout
            /\ EnteredAfresh(StateQuery(b), "HalfOpen")
  BY TransitionToEffect DEF StateQuery, ObservedState, CircuitState

LEMMA TakePermitEffect ==
  ASSUME NEW b \in Breaker
  PROVE  /\ TakePermit(b).state = b.state
         /\ TakePermit(b).age = b.age
         /\ TakePermit(b).half_open_calls = b.half_open_calls
               + (IF ObservedState(b) = "HalfOpen" THEN 1 ELSE 0)
  BY DEF TakePermit, Breaker

LEMMA RecordSuccessEffect ==
  ASSUME NEW b \in Breaker
  PROVE  \/ SameButCounts(RecordSuccess(b), b)
         \/ b.state = "HalfOpen" /\ EnteredAfresh(RecordSuccess(b), "Closed")
<1> DEFINE counted == [b EXCEPT
      !.consecutive_successes = Bump(@, SuccessThreshold),
      !.consecutive_failures  = 0]
<1>1. counted \in Breaker
  <2>1. Bump(b.consecutive_successes, SuccessThreshold) \in 0 .. SuccessThreshold
    BY BreakerAssumption, BumpType DEF Breaker
  <2> QED
    BY <2>1, ZeroInRange DEF Breaker
<1>2. SameButCounts(counted, b)
  BY DEF SameButCounts, Breaker
<1>3. counted.state # "Closed" => EnteredAfresh(TransitionTo(counted, "Closed"), "Closed")
  BY <1>1, TransitionToEffect DEF CircuitState
<1>4. \/ RecordSuccess(b) = counted
      \/ counted.state = "HalfOpen" /\ RecordSuccess(b) = TransitionTo(counted, "Closed")
  BY DEF RecordSuccess
<1> HIDE DEF counted
<1> QED
  BY <1>2, <1>3, <1>4 DEF SameButCounts

LEMMA RecordFailureEffect ==
  ASSUME NEW b \in Breaker
  PROVE  \/ SameButCounts(RecordFailure(b), b)
         \/ b.state # "Open" /\ EnteredAfresh(RecordFailure(b), "Open")
<1> DEFINE counted == [b EXCEPT
      !.consecutive_failures  = Bump(@, FailureThreshold),
      !.consecutive_successes = 0]
<1>1. counted \in Breaker
  <2>1. Bump(b.consecutive_failures, FailureThreshold) \in 0 .. FailureThreshold
    BY BreakerAssumption, BumpType DEF Breaker
  <2> QED
    BY <2>1, ZeroInRange DEF Breaker
<1>2. SameButCounts(counted, b)
  BY DEF SameButCounts, Breaker
<1>3. counted.state # "Open" => EnteredAfresh(TransitionTo(counted, "Open"), "Open")
  BY <1>1, TransitionToEffect DEF CircuitState
<1>4. \/ RecordFailure(b) = counted
      \/ counted.state \in {"Closed", "HalfOpen"}
         /\ RecordFailure(b) = TransitionTo(counted, "Open")
  BY DEF RecordFailure
<1> HIDE DEF counted
<1> QED
  BY <1>2, <1>3, <1>4 DEF SameButCounts

LEMMA ResetBreakerEffect ==
  ASSUME NEW b \in Breaker
  PROVE  IF b.state = "Closed"
         THEN ResetBreaker(b).state = "Closed"
         ELSE EnteredAfresh(ResetBreaker(b), "Closed")
<1> DEFINE fresh == [b EXCEPT !.consecutive_failures  = 0,
                              !.consecutive_successes = 0,
                              !.half_open_calls       = 0]
<1>1. fresh \in Breaker
  BY ZeroInRange DEF Breaker
<1>2. fresh.state = b.state
  BY DEF Breaker
<1>3. IF fresh.state = "Closed" THEN TransitionTo(fresh, "Closed") = fresh
      ELSE EnteredAfresh(TransitionTo(fresh, "Closed"), "Closed")
  BY <1>1, TransitionToEffect DEF CircuitState
<1>4. ResetBreaker(b) = TransitionTo(fresh, "Closed")
  BY DEF ResetBreaker
<1> HIDE DEF fresh
<1> QED
  BY <1>2, <1>3, <1>4

-----------------------------------------------------------------------------
(***************************************************************************)
(* Spec => []TestCallBudget.  The bound alone is not inductive: a poll     *)
(* hands out a fresh budget, so one has to know that an Open breaker has   *)
(* granted exactly what its own half_open_calls says.                      *)
(***************************************************************************)
BudgetInv ==
  /\ breaker.state = "Closed"   => testCalls = 0
  /\ breaker.state = "Open"     => testCalls = breaker.half_open_calls
  /\ breaker.state = "HalfOpen" => testCalls <= HalfOpenMaxCalls + breaker.half_open_calls

LEMMA BudgetStep == TypeOK /\ BudgetInv /\ [Next]_vars => BudgetInv'
<1> SUFFICES ASSUME TypeOK, BudgetInv, [Next]_vars
             PROVE  BudgetInv'
  OBVIOUS
<1>0. /\ breaker \in Breaker
      /\ testCalls \in Nat
      /\ breaker.state \in CircuitState
      /\ breaker.half_open_calls \in 0 .. HalfOpenMaxCalls
  BY DEF TypeOK, Breaker
<1> USE DEF BudgetInv
<1>1. ASSUME NEW c \in Callers, Enter(c) PROVE BudgetInv'
  BY <1>0, <1>1, TakePermitEffect, BreakerAssumption
     DEF Enter, CallPermitted, ObservedState, CircuitState
<1>2. ASSUME NEW c \in Callers, Succeed(c) PROVE BudgetInv'
  BY <1>0, <1>2, RecordSuccessEffect
     DEF Succeed, Leave, NewPeriod, SameButCounts, EnteredAfresh
<1>3. ASSUME NEW c \in Callers, Fail(c) PROVE BudgetInv'
  BY <1>0, <1>3, RecordFailureEffect
     DEF Fail, Leave, NewPeriod, SameButCounts, EnteredAfresh
<1>4. ASSUME NEW c \in Callers, Panic(c) PROVE BudgetInv'
  BY <1>4 DEF Panic
<1>5. CASE Poll
  BY <1>0, <1>5, StateQueryEffect, BreakerAssumption DEF Poll, EnteredAfresh
<1>6. CASE Tick
  BY <1>6, <1>0 DEF Tick, ClockTick, Breaker
<1>7. CASE HealthChanges
  BY <1>7 DEF HealthChanges
<1>8. CASE Intervene
  <2>1. ASSUME NEW s \in CircuitState, breaker' = TransitionTo(breaker, s)
        PROVE  BudgetInv'
    BY <1>0, <1>8, <2>1, TransitionToEffect, BreakerAssumption
       DEF Intervene, NewPeriod, EnteredAfresh, CircuitState
  <2>2. CASE breaker' = ResetBreaker(breaker)
    BY <1>0, <1>8, <2>2, ResetBreakerEffect DEF Intervene, NewPeriod, EnteredAfresh
  <2> QED
    BY <1>8, <2>1, <2>2 DEF Intervene
<1>9. CASE UNCHANGED vars
  BY <1>9 DEF vars
<1> QED
  BY <1>1, <1>2, <1>3, <1>4, <1>5, <1>6, <1>7, <1>8, <1>9 DEF Next, CallStep

(* For every configuration, at most 2 * half_open_max_calls calls reach the  *)
(* service between the breaker opening and its leaving HalfOpen.             *)
THEOREM TestCallsBounded == Spec => []TestCallBudget
<1>1. Init => BudgetInv
  BY DEF Init, NewBreaker, BudgetInv
<1>2. TypeOK /\ BudgetInv => TestCallBudget
  BY BreakerAssumption DEF TypeOK, Breaker, CircuitState, BudgetInv, TestCallBudget
<1> QED
  BY <1>1, <1>2, BudgetStep, TypeCorrect, PTL DEF Spec

-----------------------------------------------------------------------------
(***************************************************************************)
(* Spec => ImplementsContract.  Types are the only invariant needed: each  *)
(* action maps to one action of the contract or to a stuttering step.      *)
(***************************************************************************)
LEMMA ContractStep == TypeOK /\ [Next]_vars => [Contract!Next]_(Contract!contractVars)
<1> SUFFICES ASSUME TypeOK, [Next]_vars
             PROVE  [Contract!Next]_(Contract!contractVars)
  OBVIOUS
<1>0. /\ breaker \in Breaker
      /\ permit \in [Callers -> PermitKind]
      /\ breaker.state \in CircuitState
      /\ breaker.age \in 0 .. Timeout
      /\ interventions \in Nat
  BY InterventionsAssumption DEF TypeOK, Breaker
<1> USE DEF PermitKind
<1>1. ASSUME NEW c \in Callers, Enter(c) PROVE Contract!Admit(c)
  BY <1>0, <1>1, TakePermitEffect
     DEF Enter, CallPermitted, ObservedState, Contract!Admit
<1>2. ASSUME NEW c \in Callers, Succeed(c) PROVE Contract!Finish(c)
  BY <1>0, <1>2, RecordSuccessEffect
     DEF Succeed, Leave, SameButCounts, EnteredAfresh, Contract!Finish
<1>3. ASSUME NEW c \in Callers, Fail(c) PROVE Contract!Finish(c)
  BY <1>0, <1>3, RecordFailureEffect, BreakerAssumption
     DEF Fail, Leave, SameButCounts, EnteredAfresh, Contract!Finish, CircuitState
<1>4. ASSUME NEW c \in Callers, Panic(c) PROVE Contract!Finish(c)
  BY <1>0, <1>4 DEF Panic, Contract!Finish
<1>5. CASE Poll
  <2>1. Contract!StartTesting \/ UNCHANGED Contract!contractVars
    BY <1>0, <1>5, StateQueryEffect
       DEF Poll, EnteredAfresh, Contract!StartTesting, Contract!contractVars
  <2> QED
    BY <2>1 DEF Contract!Next
<1>6. CASE Tick
  <2>1. breaker'.state = "Open" /\ breaker'.age = breaker.age + 1
    BY <1>0, <1>6 DEF Tick, ClockTick, Breaker
  <2>2. Contract!CoolDown \/ UNCHANGED Contract!contractVars
    BY <1>0, <1>6, <2>1, BreakerAssumption
       DEF Tick, Contract!CoolDown, Contract!contractVars
  <2> QED
    BY <2>2 DEF Contract!Next
<1>7. CASE HealthChanges
  BY <1>7 DEF HealthChanges, Contract!contractVars
<1>8. CASE Intervene
  <2>1. ASSUME NEW s \in CircuitState, breaker' = TransitionTo(breaker, s)
        PROVE  Contract!Override
    BY <1>0, <1>8, <2>1, TransitionToEffect, BreakerAssumption
       DEF Intervene, EnteredAfresh, CircuitState, Contract!Override
  <2>2. ASSUME breaker' = ResetBreaker(breaker)
        PROVE  Contract!Override
    <3>1. breaker'.state = "Closed"
      BY <1>0, <2>2, ResetBreakerEffect DEF EnteredAfresh
    <3>2. interventions' = interventions + 1 /\ permit' = permit
      BY <1>8 DEF Intervene
    <3> QED
      BY <3>1, <3>2 DEF Contract!Override
  <2>3. Contract!Override
    BY <1>8, <2>1, <2>2 DEF Intervene
  <2> QED
    BY <2>3 DEF Contract!Next
<1>9. CASE UNCHANGED vars
  BY <1>9 DEF vars, Contract!contractVars
<1> QED
  BY <1>1, <1>2, <1>3, <1>4, <1>5, <1>6, <1>7, <1>8, <1>9
     DEF Next, CallStep, Contract!Next

(* Whatever the threads do, the breaker behaves as its contract says: nobody *)
(* gets in before the timeout, and only outcomes of admitted calls, the      *)
(* elapsed timeout or an operator move it.                                   *)
THEOREM BreakerImplementsContract == Spec => ImplementsContract
<1>1. Init => Contract!Init
  BY DEF Init, NewBreaker, Contract!Init
<1> QED
  BY <1>1, ContractStep, TypeCorrect, PTL DEF Spec, ImplementsContract, Contract!Spec
===============================================================================
