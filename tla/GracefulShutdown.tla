--------------------------- MODULE GracefulShutdown ---------------------------
(***************************************************************************)
(* GracefulShutdown (deployment/graceful_shutdown.rs): a flag, a counter   *)
(* and a start time, shared by the threads that serve requests and those   *)
(* that shut the service down.  The flag and the counter are atomics, the  *)
(* start time has a mutex; every access is one action.                     *)
(*                                                                         *)
(* Time is counted in ticks.  is_shutdown_requested, state and             *)
(* time_until_force_shutdown write nothing: state() is the operator State, *)
(* read at one moment (its two loads are both of values that the threads   *)
(* below may change in between).                                           *)
(***************************************************************************)
EXTENDS Integers, FiniteSets

CONSTANTS
  Workers,           \* threads that serve requests
  Operators,         \* threads that request, await or reset a shutdown
  GracefulTimeout,   \* config.graceful_timeout
  DrainTimeout,      \* config.drain_timeout
  ForceTimeout,      \* config.force_shutdown_timeout
  Modulus,           \* u64::MAX + 1
  NotStarted         \* None, where a number of ticks is optional

ASSUME ShutdownAssumption ==
  /\ IsFiniteSet(Workers)
  /\ Workers \cap Operators = {}
  /\ GracefulTimeout \in Nat
  /\ DrainTimeout \in Nat
  /\ ForceTimeout \in Nat
  /\ Modulus \in Nat /\ Modulus > Cardinality(Workers)
  /\ NotStarted \notin Nat

VARIABLES
  shutdown_requested,
  in_flight_requests,
  shutdown_start,    \* NotStarted, or the ticks since then (at most ForceTimeout)
  pc,                \* per thread: the access it does next, "idle" or "serving"
  waited             \* per operator: ticks spent in wait_for_drain so far

(***************************************************************************)
(* History variables, not read by any action:                              *)
(*   asked       ticks since the flag was set (at most ForceTimeout)       *)
(*   overlapped  a reset has run at the same time as another operation, or *)
(*               while requests were being served                          *)
(*   stragglers  per operator: after wait_for_drain returned true, the     *)
(*               number of workers that had by then passed the flag but    *)
(*               not counted themselves; otherwise NotStarted              *)
(***************************************************************************)
VARIABLES asked, overlapped, stragglers

shared == <<shutdown_requested, in_flight_requests, shutdown_start>>
history == <<asked, overlapped, stragglers>>
vars == <<shared, pc, waited, history>>

Threads == Workers \cup Operators

At(steps) == {t \in Threads : pc[t] \in steps}

Init ==
  /\ shutdown_requested = FALSE
  /\ in_flight_requests = 0
  /\ shutdown_start = NotStarted
  /\ pc = [t \in Threads |-> "idle"]
  /\ waited = [o \in Operators |-> 0]
  /\ asked = 0
  /\ overlapped = FALSE
  /\ stragglers = [o \in Operators |-> NotStarted]

ResetSteps == {"reset_flag", "reset_count", "reset_start"}

\* A reset that is not alone spoils the counts.
RecordOverlap ==
  overlapped' = \/ overlapped
                \/ \E o \in Operators : /\ pc'[o] \in ResetSteps
                                        /\ \E t \in Threads \ {o} : pc'[t] # "idle"

Goto(t, step) ==
  /\ pc' = [pc EXCEPT ![t] = step]
  /\ RecordOverlap

-----------------------------------------------------------------------------
\* start_request: the load of the flag, and what it decides.
CheckFlag_Ignored(w) ==        \* slip: the flag is not looked at
  /\ pc[w] = "idle"
  /\ Goto(w, "add")
  /\ UNCHANGED <<shared, waited, asked, stragglers>>

CheckFlag(w) ==
  /\ pc[w] = "idle"
  /\ ~shutdown_requested
  /\ Goto(w, "add")
  /\ UNCHANGED <<shared, waited, asked, stragglers>>

\* start_request: the fetch_add; the request is served from here on.
CountIn(w) ==
  /\ pc[w] = "add"
  /\ in_flight_requests' = (in_flight_requests + 1) % Modulus
  /\ Goto(w, "serving")
  /\ UNCHANGED <<shutdown_requested, shutdown_start, waited, asked, stragglers>>

\* end_request: the load, then the fetch_sub if it was not zero.
EndRequest(w) ==
  /\ pc[w] = "serving"
  /\ Goto(w, IF in_flight_requests > 0 THEN "subtract" ELSE "idle")
  /\ UNCHANGED <<shared, waited, asked, stragglers>>

CountOut_Store(w) ==           \* slip: stores zero instead of subtracting one
  /\ pc[w] = "subtract"
  /\ in_flight_requests' = 0
  /\ Goto(w, "idle")
  /\ UNCHANGED <<shutdown_requested, shutdown_start, waited, asked, stragglers>>

CountOut(w) ==
  /\ pc[w] = "subtract"
  /\ in_flight_requests' = (in_flight_requests + (Modulus - 1)) % Modulus
  /\ Goto(w, "idle")
  /\ UNCHANGED <<shutdown_requested, shutdown_start, waited, asked, stragglers>>

Serve(w) == CheckFlag(w) \/ CountIn(w) \/ EndRequest(w) \/ CountOut(w)

-----------------------------------------------------------------------------
\* request_shutdown: the flag first, then the start time under its mutex.
RequestShutdown(o) ==
  /\ pc[o] = "idle"
  /\ shutdown_requested' = TRUE
  /\ asked' = IF shutdown_requested THEN asked ELSE 0
  /\ Goto(o, "set_start")
  /\ UNCHANGED <<in_flight_requests, shutdown_start, waited, stragglers>>

SetStart_Always(o) ==          \* slip: a second request restarts the clock
  /\ pc[o] = "set_start"
  /\ shutdown_start' = 0
  /\ Goto(o, "idle")
  /\ UNCHANGED <<shutdown_requested, in_flight_requests, waited, asked, stragglers>>

SetStart(o) ==
  /\ pc[o] = "set_start"
  /\ shutdown_start' = IF shutdown_start = NotStarted THEN 0 ELSE shutdown_start
  /\ Goto(o, "idle")
  /\ UNCHANGED <<shutdown_requested, in_flight_requests, waited, asked, stragglers>>

\* wait_for_drain: it may be called before, during or without a shutdown.
WaitForDrain(o) ==
  /\ pc[o] = "idle"
  /\ Goto(o, "wait")
  /\ UNCHANGED <<shared, waited, asked, stragglers>>

\* It returns when its own time is up, or when it sees a count of zero; until
\* then it sleeps between looks that change nothing.
Drained(o) ==
  /\ pc[o] = "wait"
  /\ \/ /\ waited[o] >= GracefulTimeout + DrainTimeout
        /\ UNCHANGED stragglers
     \/ /\ waited[o] < GracefulTimeout + DrainTimeout
        /\ in_flight_requests = 0
        /\ stragglers' = [stragglers EXCEPT ![o] =
             IF shutdown_requested THEN Cardinality(At({"add"})) ELSE @]
  /\ waited' = [waited EXCEPT ![o] = 0]
  /\ Goto(o, "idle")
  /\ UNCHANGED <<shared, asked>>

\* reset: flag, counter and start time, one after the other.
ResetFlag(o) ==
  \/ /\ pc[o] = "idle"
     /\ Goto(o, "reset_flag")
     /\ UNCHANGED <<shared, waited, asked, stragglers>>
  \/ /\ pc[o] = "reset_flag"
     /\ shutdown_requested' = FALSE
     /\ stragglers' = [p \in Operators |-> NotStarted]
     /\ Goto(o, "reset_count")
     /\ UNCHANGED <<in_flight_requests, shutdown_start, waited, asked>>

ResetCount(o) ==
  /\ pc[o] = "reset_count"
  /\ in_flight_requests' = 0
  /\ Goto(o, "reset_start")
  /\ UNCHANGED <<shutdown_requested, shutdown_start, waited, asked, stragglers>>

ResetStart_Forgotten(o) ==     \* slip: the old start time is kept
  /\ pc[o] = "reset_start"
  /\ Goto(o, "idle")
  /\ UNCHANGED <<shared, waited, asked, stragglers>>

ResetStart(o) ==
  /\ pc[o] = "reset_start"
  /\ shutdown_start' = NotStarted
  /\ Goto(o, "idle")
  /\ UNCHANGED <<shutdown_requested, in_flight_requests, waited, asked, stragglers>>

Reset(o) == ResetFlag(o) \/ ResetCount(o) \/ ResetStart(o)

Operate(o) ==
  RequestShutdown(o) \/ SetStart(o) \/ WaitForDrain(o) \/ Drained(o) \/ Reset(o)

\* Instant::elapsed: every clock that is read moves on by one tick.
Later(n, limit) == IF n < limit THEN n + 1 ELSE n

Tick ==
  /\ shutdown_start' = IF shutdown_start = NotStarted THEN NotStarted
                       ELSE Later(shutdown_start, ForceTimeout)
  /\ waited' = [o \in Operators |->
       IF pc[o] = "wait" THEN Later(waited[o], GracefulTimeout + DrainTimeout)
       ELSE waited[o]]
  /\ asked' = IF shutdown_requested THEN Later(asked, ForceTimeout) ELSE asked
  /\ UNCHANGED <<shutdown_requested, in_flight_requests, pc, overlapped, stragglers>>

Next ==
  \/ \E w \in Workers : Serve(w)
  \/ \E o \in Operators : Operate(o)
  \/ Tick

\* Time passes and operators finish what they have begun.
Fairness ==
  /\ WF_vars(Tick)
  /\ \A o \in Operators : WF_vars(SetStart(o)) /\ WF_vars(Drained(o))

Spec == Init /\ [][Next]_vars /\ Fairness

-----------------------------------------------------------------------------
\* state(), on the values of one moment.
State ==
  IF ~shutdown_requested THEN "Running"
  ELSE IF shutdown_start = NotStarted THEN "ShuttingDown"
  ELSE IF shutdown_start >= ForceTimeout \/ in_flight_requests = 0 THEN "Terminated"
  ELSE IF shutdown_start >= GracefulTimeout THEN "Draining"
  ELSE "ShuttingDown"

WorkerSteps == {"idle", "add", "serving", "subtract"}
OperatorSteps == {"idle", "set_start", "wait"} \cup ResetSteps

(* Type correctness: in particular no thread is at a step that its         *)
(* operation does not have.                                                *)
TypeOK ==
  /\ shutdown_requested \in BOOLEAN
  /\ in_flight_requests \in 0 .. Modulus - 1
  /\ shutdown_start \in {NotStarted} \cup 0 .. ForceTimeout
  /\ pc \in [Threads -> WorkerSteps \cup OperatorSteps]
  /\ \A w \in Workers : pc[w] \in WorkerSteps
  /\ \A o \in Operators : pc[o] \in OperatorSteps
  /\ waited \in [Operators -> 0 .. GracefulTimeout + DrainTimeout]
  /\ asked \in 0 .. ForceTimeout
  /\ overlapped \in BOOLEAN
  /\ stragglers \in [Operators -> Nat \cup {NotStarted}]

(***************************************************************************)
(* The counter is the number of requests being served, so end_request      *)
(* never finds it zero and never wraps it, as long as every reset happens  *)
(* while nothing else is going on (start_request, end_request, reset).     *)
(***************************************************************************)
InFlightExact == ~overlapped => in_flight_requests = Cardinality(At({"serving", "subtract"}))

(***************************************************************************)
(* "Drain in-flight requests before termination" (README.md): after        *)
(* wait_for_drain has returned true during a shutdown, the only requests   *)
(* that are still served or still begin are those of workers that had      *)
(* passed the flag but not counted themselves when it looked.              *)
(***************************************************************************)
DrainedStaysQuiet ==
  ~overlapped =>
    \A o \in Operators : stragglers[o] # NotStarted =>
      Cardinality(At({"add", "serving", "subtract"})) <= stragglers[o]

(***************************************************************************)
(* Requests in flight are cut off only by the force timeout, counted from  *)
(* the request for this shutdown and not from an earlier one (state,       *)
(* request_shutdown, reset).                                               *)
(***************************************************************************)
GraceGiven ==
  ~overlapped /\ State = "Terminated" /\ At({"serving", "subtract"}) # {} =>
    asked >= ForceTimeout

(***************************************************************************)
(* A shutdown that is not reset terminates: stuck requests cannot hold it  *)
(* up, and neither can asking for it again (request_shutdown, state).      *)
(* Without the first condition it fails: a request that sets the flag      *)
(* between the first and the last store of a reset loses its start time,   *)
(* and state() then stays ShuttingDown with nothing in flight.             *)
(***************************************************************************)
EventuallyTerminated ==
  [](~overlapped) /\ <>[]shutdown_requested => <>[](State = "Terminated")
===============================================================================
