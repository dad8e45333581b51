--------------------------- MODULE TransactionRouter ---------------------------
(***************************************************************************)
(* TransactionRouter (router/transaction_router.rs), shared by worker      *)
(* threads, with one circuit breaker per PSP.                              *)
(*                                                                         *)
(* route(&self) takes four locks one after the other and holds none of     *)
(* them in between: circuit_breakers, merchant_preferences (twice),        *)
(* audit_log, metrics.  Each locked region is one action here, so whatever *)
(* other threads do may fall between any two of them.  update_routes takes *)
(* &mut self: it runs only when no route() call is in progress.            *)
(*                                                                         *)
(* The decision id, score map, reason, timestamps and latencies are not    *)
(* modelled, and of the audit log only how often each outcome is in it.    *)
(***************************************************************************)
EXTENDS BreakerOps, RouteSelection

CONSTANTS
  Workers,          \* threads that route a payment, make it, report on it
  Merchants,
  RouteTables,      \* the validated route lists new and update_routes can be given
  Transactions,     \* the transactions workers can ask to route
  Preferences,      \* the values set_merchant_preferences can be given
  NoPreferences,    \* the effect of having no entry: [preferred, blocked, weights]
  NoWeights,        \* custom_weights = None
  DefaultWeights,   \* the router's own ScoringWeights
  NoPsp,            \* the empty PSP id, and "no route selected"
  MaxRequests,      \* bound on route() calls
  MaxChanges        \* bound on update_routes and set_merchant_preferences

Psps == UNION {PspsOf(table) : table \in RouteTables}

\* What the audit log says of a request: the PSP selected, or NoPsp.
Outcomes == Psps \cup {NoPsp}

\* TransactionRequest::new; an empty merchant_id is refused.
ValidTransaction(tx) == tx.merchant \in Merchants /\ tx.amount > 0

ASSUME RouterAssumption ==
  /\ IsFiniteSet(Workers)
  /\ \A table \in RouteTables : ValidConfig(table)
  /\ \A tx \in Transactions : ValidTransaction(tx)
  /\ NoPsp \notin Psps
  /\ MaxRequests \in Nat
  /\ MaxChanges \in Nat
  /\ NoPreferences \in Preferences

\* Fees, priorities and weights may be negative as far as the code is concerned.
ASSUME NumbersAssumption ==
  /\ \A table \in RouteTables : \A i \in DOMAIN table :
       table[i].fee \in Int /\ table[i].priority \in Int
  /\ \A tx \in Transactions : tx.amount \in Int
  /\ \A weights \in {DefaultWeights} \cup {prefs.weights : prefs \in Preferences} :
       weights.latency \in Int /\ weights.cost \in Int

VARIABLES
  routes,       \* self.routes
  breakers,     \* self.circuit_breakers
  preferences,  \* self.merchant_preferences
  audit_log,    \* self.audit_log: how many decisions of each outcome it holds
  metrics,      \* self.metrics
  pc,           \* per worker: the lock it takes next, "pay" or "idle"
  request,      \* per worker: the transaction it routes
  cands,        \* per worker: its local vector of eligible routes
  decision,     \* per worker: [selected, fallbacks]
  requests,     \* number of route() calls so far
  changes       \* number of reconfigurations so far

(***************************************************************************)
(* History variables, not read by any action:                              *)
(*   erased    the decisions clear_audit_log has dropped, per outcome      *)
(*   refused   per worker: the PSPs whose circuit has been open and not    *)
(*             timed out ever since its request began                      *)
(*   barred    per worker: the PSPs its merchant has blocked ever since    *)
(*   testing   per worker: the candidates that were HalfOpen when filtered *)
(***************************************************************************)
VARIABLES erased, refused, barred, testing

config == <<routes, preferences>>
local == <<pc, request, cands, decision>>
books == <<audit_log, metrics, erased>>
bounds == <<requests, changes>>
history == <<refused, barred, testing>>
vars == <<config, breakers, local, books, bounds, history>>

NoTransaction == [merchant |-> NoPsp, method |-> NoPsp, currency |-> NoPsp, amount |-> 0]
NoDecision == [selected |-> NoPsp, fallbacks |-> <<>>]
NoneOf == [o \in Outcomes |-> 0]

FreshBreakers(table) == [p \in PspsOf(table) |-> NewBreaker("Closed")]

Init ==
  /\ routes \in RouteTables
  /\ breakers = FreshBreakers(routes)
  /\ preferences = [m \in Merchants |-> NoPreferences]
  /\ audit_log = NoneOf
  /\ metrics = [ total_requests  |-> 0, successful_routes |-> 0,
                 failed_routes   |-> 0, routes_selected   |-> [p \in Psps |-> 0] ]
  /\ pc = [w \in Workers |-> "idle"]
  /\ request = [w \in Workers |-> NoTransaction]
  /\ cands = [w \in Workers |-> <<>>]
  /\ decision = [w \in Workers |-> NoDecision]
  /\ requests = 0
  /\ changes = 0
  /\ erased = NoneOf
  /\ refused = [w \in Workers |-> {}]
  /\ barred = [w \in Workers |-> {}]
  /\ testing = [w \in Workers |-> {}]

\* The circuits that admit nobody.
Refusing(bs) == {p \in DOMAIN bs : bs[p].state = "Open" /\ bs[p].age < Timeout}

Keep(past, now, w) == IF pc[w] = "idle" THEN now ELSE past[w] \cap now

\* The history variables after a step; a worker without a request has none.
RecordHistory ==
  LET active == {w \in Workers : pc'[w] # "idle"}
  IN  /\ refused' = [w \in Workers |->
           IF w \in active THEN Keep(refused, Refusing(breakers'), w) ELSE {}]
      /\ barred' = [w \in Workers |->
           IF w \in active
           THEN Keep(barred, preferences'[request'[w].merchant].blocked, w) ELSE {}]
      /\ testing' = [w \in Workers |->
           IF w \notin active THEN {}
           ELSE IF pc[w] = "idle"
           THEN {p \in PspsOf(cands'[w]) \cap DOMAIN breakers' : breakers'[p].state = "HalfOpen"}
           ELSE testing[w]]

-----------------------------------------------------------------------------
\* A worker goes on with candidates cs, or with the failed decision if none.
Continue(w, cs, next) ==
  /\ cands' = [cands EXCEPT ![w] = cs]
  /\ pc' = [pc EXCEPT ![w] = IF cs = <<>> THEN "audit_log" ELSE next]
  /\ UNCHANGED decision

\* state() of the breakers of some PSPs; those it does not know stay away.
PollBreakers(psps) ==
  [p \in DOMAIN breakers |-> IF p \in psps THEN StateQuery(breakers[p]) ELSE breakers[p]]

\* route(): filter_eligible and filter_by_circuit_state.
Begin(w) ==
  /\ pc[w] = "idle"
  /\ requests < MaxRequests
  /\ requests' = requests + 1
  /\ \E tx \in Transactions :
       LET eligible == FilterEligible(routes, tx)
           usable == {i \in DOMAIN eligible :
             eligible[i].psp \in DOMAIN breakers => breakers'[eligible[i].psp].state # "Open"}
       IN  /\ request' = [request EXCEPT ![w] = tx]
           /\ breakers' = PollBreakers(PspsOf(eligible))
           /\ Continue(w, Pick(eligible, usable), "preferences")
  /\ UNCHANGED <<config, books, changes>>
  /\ RecordHistory

\* route(): apply_merchant_preferences.
Prefer(w) ==
  /\ pc[w] = "preferences"
  /\ Continue(w, ApplyPreferences(cands[w], preferences[request[w].merchant]), "weights")
  /\ UNCHANGED <<config, breakers, request, books, bounds>>
  /\ RecordHistory

(***************************************************************************)
(* route(): get_merchant_weights locks the preferences again; scoring,     *)
(* selection and create_decision are local.  With a single candidate       *)
(* create_decision still pushes a fallback, the empty string.              *)
(***************************************************************************)
Decide(w) ==
  /\ pc[w] = "weights"
  /\ LET tx == request[w]
         custom == preferences[tx.merchant].weights
         weights == IF custom = NoWeights THEN DefaultWeights ELSE custom
     IN  \E i \in Primaries(cands[w], tx, weights) :
           LET backups == Fallbacks(i, cands[w], tx, weights)
               backup == IF backups = {} THEN NoPsp
                         ELSE cands[w][CHOOSE k \in backups : TRUE].psp
           IN  decision' = [decision EXCEPT ![w] =
                              [selected |-> cands[w][i].psp, fallbacks |-> <<backup>>]]
  /\ pc' = [pc EXCEPT ![w] = "audit_log"]
  /\ UNCHANGED <<config, breakers, request, cands, books, bounds>>
  /\ RecordHistory

\* record_decision.
Record(w) ==
  /\ pc[w] = "audit_log"
  /\ audit_log' = [audit_log EXCEPT ![decision[w].selected] = @ + 1]
  /\ pc' = [pc EXCEPT ![w] = "metrics"]
  /\ UNCHANGED <<config, breakers, request, cands, decision, metrics, erased, bounds>>
  /\ RecordHistory

\* update_metrics, and the end of create_failed_decision.
Counted_FailuresToo(selected) ==     \* slip: no route counts as a route to ""
  LET seen == metrics.routes_selected
      Of(o) == IF o \in DOMAIN seen THEN seen[o] ELSE 0
  IN  [metrics EXCEPT !.total_requests = @ + 1,
                      !.successful_routes = @ + 1,
                      !.routes_selected = [o \in DOMAIN seen \cup {selected} |->
                         IF o = selected THEN Of(o) + 1 ELSE Of(o)]]

Counted(selected) ==
  IF selected = NoPsp
  THEN [metrics EXCEPT !.total_requests = @ + 1, !.failed_routes = @ + 1]
  ELSE [metrics EXCEPT !.total_requests = @ + 1,
                       !.successful_routes = @ + 1,
                       !.routes_selected[selected] = @ + 1]

\* The worker forgets a request it is done with.
Forget(w) ==
  /\ pc' = [pc EXCEPT ![w] = "idle"]
  /\ request' = [request EXCEPT ![w] = NoTransaction]
  /\ cands' = [cands EXCEPT ![w] = <<>>]
  /\ decision' = [decision EXCEPT ![w] = NoDecision]

\* The metrics are updated and route() returns.
Count(w) ==
  /\ pc[w] = "metrics"
  /\ metrics' = Counted(decision[w].selected)
  /\ IF decision[w].selected = NoPsp
     THEN Forget(w)
     ELSE pc' = [pc EXCEPT ![w] = "pay"] /\ UNCHANGED <<request, cands, decision>>
  /\ UNCHANGED <<config, breakers, audit_log, erased, bounds>>
  /\ RecordHistory

(***************************************************************************)
(* The caller has tried the selected PSP: it calls record_route_success,   *)
(* record_route_failure, or nothing (it crashed).                          *)
(***************************************************************************)
Report(w) ==
  /\ pc[w] = "pay"
  /\ LET psp == decision[w].selected
     IN  \/ /\ psp \in DOMAIN breakers
            /\ \E b \in {RecordSuccess(breakers[psp]), RecordFailure(breakers[psp])} :
                 breakers' = [breakers EXCEPT ![psp] = b]
         \/ UNCHANGED breakers
  /\ Forget(w)
  /\ UNCHANGED <<config, books, bounds>>
  /\ RecordHistory

-----------------------------------------------------------------------------
\* set_merchant_preferences.
SetPreferences(m) ==
  /\ changes < MaxChanges
  /\ changes' = changes + 1
  /\ \E prefs \in Preferences : preferences' = [preferences EXCEPT ![m] = prefs]
  /\ UNCHANGED <<routes, breakers, local, books, requests>>
  /\ RecordHistory

\* update_routes: breakers are added for PSPs that have none, never removed.
UpdatedBreakers_Rebuilt(table) ==    \* slip: the map is built anew
  FreshBreakers(table)

UpdatedBreakers_NotExtended(table) ==   \* slip: new PSPs get no breaker
  breakers

UpdatedBreakers(table) ==
  [p \in DOMAIN breakers \cup PspsOf(table) |->
     IF p \in DOMAIN breakers THEN breakers[p] ELSE NewBreaker("Closed")]

UpdateRoutes ==
  /\ changes < MaxChanges
  /\ \A w \in Workers : pc[w] \in {"idle", "pay"}
  /\ changes' = changes + 1
  /\ \E table \in RouteTables :
       /\ breakers' = UpdatedBreakers(table)
       /\ routes' = table
  /\ UNCHANGED <<preferences, local, books, requests>>
  /\ RecordHistory

\* get_all_circuit_states polls every breaker, also those without a route.
PollAll ==
  /\ breakers' = PollBreakers(DOMAIN breakers)
  /\ UNCHANGED <<config, local, books, bounds>>
  /\ RecordHistory

ClearAuditLog ==
  /\ erased' = [o \in Outcomes |-> erased[o] + audit_log[o]]
  /\ audit_log' = NoneOf
  /\ UNCHANGED <<config, breakers, local, metrics, bounds>>
  /\ RecordHistory

Tick ==
  /\ \E p \in DOMAIN breakers :
       /\ breakers[p].state = "Open"
       /\ breakers[p].age < Timeout
       /\ breakers' = [breakers EXCEPT ![p] = ClockTick(@)]
  /\ UNCHANGED <<config, local, books, bounds>>
  /\ RecordHistory

WorkerStep(w) ==
  Begin(w) \/ Prefer(w) \/ Decide(w) \/ Record(w) \/ Count(w) \/ Report(w)

Next ==
  \/ \E w \in Workers : WorkerStep(w)
  \/ \E m \in Merchants : SetPreferences(m)
  \/ UpdateRoutes
  \/ PollAll
  \/ ClearAuditLog
  \/ Tick

Spec == Init /\ [][Next]_vars

-----------------------------------------------------------------------------
(* Type correctness. *)
TypeOK ==
  /\ routes \in RouteTables
  /\ DOMAIN breakers \subseteq Psps
  /\ \A p \in DOMAIN breakers : breakers[p] \in Breaker
  /\ preferences \in [Merchants -> Preferences]
  /\ audit_log \in [Outcomes -> Nat]
  /\ metrics \in [ total_requests : Nat, successful_routes : Nat,
                   failed_routes : Nat, routes_selected : [Psps -> Nat] ]
  /\ pc \in [Workers ->
       {"idle", "preferences", "weights", "audit_log", "metrics", "pay"}]
  /\ request \in [Workers -> Transactions \cup {NoTransaction}]
  /\ \A w \in Workers : PspsOf(cands[w]) \subseteq Psps
  /\ \A w \in Workers : decision[w].selected \in Outcomes
  /\ requests \in 0 .. MaxRequests
  /\ changes \in 0 .. MaxChanges

(***************************************************************************)
(* The audit log and the metrics are updated under different locks, yet    *)
(* they never disagree by more than the requests between the two: for each *)
(* outcome the decisions logged (also those cleared since) are those       *)
(* counted plus those of the workers about to count (record_decision,      *)
(* update_metrics, create_failed_decision).                                *)
(***************************************************************************)
CountedAs(o) == IF o = NoPsp THEN metrics.failed_routes ELSE metrics.routes_selected[o]

AboutToCount(o) == {w \in Workers : pc[w] = "metrics" /\ decision[w].selected = o}

AuditMatchesMetrics ==
  /\ TypeOK
  /\ \A o \in Outcomes :
       audit_log[o] + erased[o] = CountedAs(o) + Cardinality(AboutToCount(o))

(***************************************************************************)
(* Whatever changes between the locks of one route() call, the PSP it      *)
(* selects and the fallback it names accept the transaction, differ, and   *)
(* were neither blocked by the merchant nor open for the whole call.  The  *)
(* only fallback that is no PSP is the empty string.                       *)
(***************************************************************************)
Named(d) == {d.selected} \cup {d.fallbacks[i] : i \in DOMAIN d.fallbacks}

DecisionsSound ==
  \A w \in Workers :
    pc[w] \in {"audit_log", "metrics"} /\ decision[w].selected # NoPsp =>
      /\ Len(decision[w].fallbacks) = 1
      /\ decision[w].fallbacks[1] # decision[w].selected
      /\ \A p \in Named(decision[w]) \ {NoPsp} :
           /\ p \notin refused[w] \cup barred[w]
           /\ \E i \in DOMAIN routes : routes[i].psp = p /\ Accepts(routes[i], request[w])

(***************************************************************************)
(* Every configured PSP has a circuit breaker, through every reload:       *)
(* filter_by_circuit_state lets a PSP without one through unconditionally  *)
(* and record_route_failure drops its failures.                            *)
(***************************************************************************)
EveryRouteGuarded == PspsOf(routes) \subseteq DOMAIN breakers

(***************************************************************************)
(* A reload forgets no circuit: a PSP that is taken out of the routes and  *)
(* put back later is still open if it was open.  Only time, polls and      *)
(* reports move a breaker (update_routes).                                 *)
(***************************************************************************)
ReloadKeepsCircuits ==
  [][ /\ DOMAIN breakers \subseteq DOMAIN breakers'
      /\ routes' # routes => \A p \in DOMAIN breakers : breakers'[p] = breakers[p] ]_vars

(***************************************************************************)
(* "half_open_max_calls: Concurrent test requests allowed"                 *)
(* (transaction_router.md): of the payments under way, no more than that   *)
(* many were routed to a PSP while its circuit was HalfOpen.               *)
(***************************************************************************)
TestRequestsLimited ==
  \A p \in Psps :
    Cardinality({w \in Workers : /\ pc[w] = "pay"
                                 /\ decision[w].selected = p
                                 /\ p \in testing[w]}) <= HalfOpenMaxCalls
===============================================================================
