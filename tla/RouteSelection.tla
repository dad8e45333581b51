---------------------------- MODULE RouteSelection ----------------------------
(***************************************************************************)
(* The pure part of routing: which routes accept a transaction             *)
(* (router/filter.rs), how they are scored (router/scorer.rs), which one   *)
(* is picked and which one backs it up (router/selector.rs).               *)
(*                                                                         *)
(* A route is a record [psp, enabled, methods, currencies, min, max, fee,  *)
(* percent, priority], a transaction a record [merchant, method, currency, *)
(* amount].  Amounts and fees are integers in one unit; scores are scaled  *)
(* to integers by the factor 20 * MaxCost that all candidates share.  The  *)
(* success-rate and availability terms are the same for every candidate    *)
(* (0.95, and 1.0 for an enabled route), so they never change an order.    *)
(* Rounding of the f64 scores is not modelled.                             *)
(***************************************************************************)
EXTENDS Integers, Sequences, FiniteSets

CONSTANT
  Strategy      \* "HighestScore" or "WeightedRandom"

ASSUME StrategyAssumption == Strategy \in {"HighestScore", "WeightedRandom"}

(***************************************************************************)
(* What a configuration must satisfy to be loaded (config/validator.rs,    *)
(* RouteConfig::validate): a PSP id stands for one route.                  *)
(***************************************************************************)
ValidRoute(route) ==
  /\ route.min <= route.max
  /\ route.percent \in 0 .. 100
  /\ route.methods # {}

ValidConfig(routes) ==
  /\ routes \in Seq({routes[i] : i \in DOMAIN routes})
  /\ routes # <<>>
  /\ \A i, j \in DOMAIN routes : routes[i].psp = routes[j].psp => i = j
  /\ \A i \in DOMAIN routes : ValidRoute(routes[i])
  /\ \E i \in DOMAIN routes : routes[i].enabled

-----------------------------------------------------------------------------
\* Iterator::filter: the elements of a sequence at some of its positions, in their order.
Pick(seq, at) ==
  [k \in 1 .. Cardinality(at) |->
     seq[CHOOSE i \in at : Cardinality({j \in at : j <= i}) = k]]

\* RouteFilter::is_eligible.
Accepts(route, tx) ==
  /\ route.enabled
  /\ tx.method \in route.methods
  /\ tx.currency \in route.currencies
  /\ tx.amount >= route.min
  /\ tx.amount <= route.max

FilterEligible(routes, tx) ==
  Pick(routes, {i \in DOMAIN routes : Accepts(routes[i], tx)})

PspsOf(routes) == {routes[i].psp : i \in DOMAIN routes}

-----------------------------------------------------------------------------
\* fixed_fee + amount * percentage_fee / 100, in hundredths.
Cost(route, tx) == 100 * route.fee + tx.amount * route.percent

MaxCost(cands, tx) ==
  LET costs == {Cost(cands[i], tx) : i \in DOMAIN cands} \cup {0}
  IN  CHOOSE m \in costs : \A c \in costs : c <= m

\* 1.0 - 0.05 * priority clamped to [0.5, 1.0], in twentieths.
LatencyPoints(route) ==
  IF route.priority < 0 THEN 20
  ELSE IF route.priority > 10 THEN 10
  ELSE 20 - route.priority

\* score_route: costs are relative to the dearest candidate.
Score(route, cands, tx, weights) ==
  LET m == MaxCost(cands, tx)
  IN  IF m = 0
      THEN weights.latency * LatencyPoints(route) + weights.cost * 20
      ELSE weights.latency * LatencyPoints(route) * m
             + weights.cost * 20 * (m - Cost(route, tx))

\* The candidates of a set of positions with the highest score.
Best(positions, cands, tx, weights) ==
  {i \in positions : \A j \in positions :
     Score(cands[j], cands, tx, weights) <= Score(cands[i], cands, tx, weights)}

(***************************************************************************)
(* select(): the positions it may pick.  max_by keeps the last of several  *)
(* maxima; the weighted draw can end on any candidate.                     *)
(***************************************************************************)
Primaries(cands, tx, weights) ==
  IF Strategy = "HighestScore"
  THEN LET best == Best(DOMAIN cands, cands, tx, weights)
       IN  {i \in best : \A j \in best : j <= i}
  ELSE DOMAIN cands

(***************************************************************************)
(* get_fallback_routes(): the stable sort puts the first of several maxima *)
(* first.  Only the first fallback is ever used; there may be none.        *)
(***************************************************************************)
Fallbacks(primary, cands, tx, weights) ==
  LET best == Best(DOMAIN cands \ {primary}, cands, tx, weights)
  IN  {i \in best : \A j \in best : i <= j}

-----------------------------------------------------------------------------
(***************************************************************************)
(* apply_merchant_preferences, on preferences [preferred, blocked, weights]: *)
(* drop the blocked PSPs, then a stable sort puts the preferred ones first. *)
(***************************************************************************)
Preferring(cands, kept, prefs) ==
  LET first == {i \in kept : cands[i].psp \in prefs.preferred}
  IN  Pick(cands, first) \o Pick(cands, kept \ first)

ApplyPreferences_OnlyOrder(cands, prefs) ==     \* slip: nothing is dropped
  Preferring(cands, DOMAIN cands, prefs)

ApplyPreferences(cands, prefs) ==
  Preferring(cands, {i \in DOMAIN cands : cands[i].psp \notin prefs.blocked}, prefs)
===============================================================================
