--------------------------- MODULE BreakerContract ---------------------------
(***************************************************************************)
(* What a circuit breaker promises its callers (transaction_router.md,     *)
(* "Circuit Breaker Pattern"), without thresholds, counters or locks:      *)
(*  - while it is open and its timeout has not elapsed nobody gets in;     *)
(*  - it closes or opens only on the outcome of a call that was let in;    *)
(*  - an open breaker leaves Open only by becoming HalfOpen, and only      *)
(*    after its timeout;                                                   *)
(*  - an operator may override it.                                         *)
(***************************************************************************)
EXTENDS Naturals

CONSTANTS Callers, InstantRetry   \* InstantRetry: the timeout is zero

VARIABLES
  mode,       \* "Closed", "Open" or "HalfOpen"
  cooled,     \* TRUE iff mode is "Open" and the timeout has elapsed
  running,    \* the callers between being let in and reporting
  overrides   \* how often an operator has intervened

contractVars == <<mode, cooled, running, overrides>>

Init ==
  /\ mode = "Closed"
  /\ cooled = FALSE
  /\ running = {}
  /\ overrides = 0

\* A call is let in: never while the breaker is open and has not cooled down.
Admit(c) ==
  /\ c \notin running
  /\ mode = "Open" => cooled
  /\ running' = running \cup {c}
  /\ UNCHANGED <<mode, cooled, overrides>>

\* A running call ends, moving the breaker along one of the documented edges.
Finish(c) ==
  /\ c \in running
  /\ running' = running \ {c}
  /\ UNCHANGED overrides
  /\ \/ UNCHANGED <<mode, cooled>>
     \/ mode \in {"Closed", "HalfOpen"} /\ mode' = "Open" /\ cooled' = InstantRetry
     \/ mode = "HalfOpen" /\ mode' = "Closed" /\ UNCHANGED cooled

CoolDown ==
  /\ mode = "Open" /\ ~cooled
  /\ cooled' = TRUE
  /\ UNCHANGED <<mode, running, overrides>>

StartTesting ==
  /\ mode = "Open" /\ cooled
  /\ mode' = "HalfOpen"
  /\ cooled' = FALSE
  /\ UNCHANGED <<running, overrides>>

Override ==
  /\ overrides' = overrides + 1
  /\ mode' \in {"Closed", "Open", "HalfOpen"}
  /\ \/ mode' # "Open" /\ ~cooled'
     \/ mode' = "Open" /\ (cooled' = cooled \/ cooled' = InstantRetry)
  /\ UNCHANGED running

Next ==
  \/ \E c \in Callers : Admit(c) \/ Finish(c)
  \/ CoolDown
  \/ StartTesting
  \/ Override

Spec == Init /\ [][Next]_contractVars
===============================================================================
