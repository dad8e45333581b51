----------------------------- MODULE HealthChecker -----------------------------
(***************************************************************************)
(* HealthChecker (health/checker.rs), shared by the threads that probe.    *)
(*                                                                         *)
(* record_probe_* locks the map of routes twice: once to create the route  *)
(* if it is new, and again to record.  The two are separate steps, so a    *)
(* reset can fall between them.                                            *)
(*                                                                         *)
(* Abstractions.  Of a probe's result only its status is kept: a success   *)
(* that took longer than timeout_ms is "Degraded".  consecutive_* are only *)
(* compared with a threshold by >=, so they stop at it (Bump).  Response   *)
(* times, messages and probe times are left out, and with them the getters *)
(* that average or return them.                                            *)
(***************************************************************************)
EXTENDS Naturals, SequencesExt, FiniteSets

CONSTANTS
  Routes,     \* route ids
  Threads,
  Configs     \* the [window_size, healthy_threshold, unhealthy_threshold] to check

VARIABLES
  config,        \* self.config; it never changes
  routes,        \* self.routes: a function on the ids it has
  pc,            \* per thread: "idle", or "record" between the two locks
  probe,         \* per thread: [route, status] of the probe it records
  interrupted    \* history, per thread: a reset has hit its route since the first lock

vars == <<config, routes, pc, probe, interrupted>>

Results == {"Healthy", "Degraded", "Unhealthy"}

NewRouteHealthData ==
  [ results               |-> <<>>,
    total_probes          |-> 0,
    successful_probes     |-> 0,
    failed_probes         |-> 0,
    consecutive_successes |-> 0,
    consecutive_failures  |-> 0,
    current_status        |-> "Unknown" ]

NoRoutes == [r \in {} |-> NewRouteHealthData]
NoProbe == [route |-> CHOOSE r \in Routes : TRUE, status |-> "Healthy"]

Init ==
  /\ config \in Configs
  /\ routes = NoRoutes
  /\ pc = [t \in Threads |-> "idle"]
  /\ probe = [t \in Threads |-> NoProbe]
  /\ interrupted = [t \in Threads |-> FALSE]

-----------------------------------------------------------------------------
SaturatingLess(n) == IF n = 0 THEN 0 ELSE n - 1

Bump(n, top) == IF n < top THEN n + 1 ELSE n

\* record_result, first half: make room.  A window of zero keeps one result.
Evict(data) ==
  IF Len(data.results) < config.window_size \/ data.results = <<>> THEN data
  ELSE LET old == [data EXCEPT !.results = Tail(@),
                               !.total_probes = SaturatingLess(@)]
       IN  IF Head(data.results) = "Healthy"
           THEN [old EXCEPT !.successful_probes = SaturatingLess(@)]
           ELSE [old EXCEPT !.failed_probes = SaturatingLess(@)]

\* record_result, second half: anything but "Healthy" is a failure.
Add(data, status) ==
  LET new == [data EXCEPT !.results = Append(@, status), !.total_probes = @ + 1]
  IN  IF status = "Healthy"
      THEN [new EXCEPT !.successful_probes = @ + 1,
                       !.consecutive_successes = Bump(@, config.healthy_threshold),
                       !.consecutive_failures = 0]
      ELSE [new EXCEPT !.failed_probes = @ + 1,
                       !.consecutive_failures = Bump(@, config.unhealthy_threshold),
                       !.consecutive_successes = 0]

\* The rates 0.9 and 0.5 of update_status and what they stand for.
ByRate(successful, total) ==
  IF 10 * successful >= 9 * total THEN "Healthy"
  ELSE IF 2 * successful >= total THEN "Degraded" ELSE "Unhealthy"

\* update_status, which is only called right after a result was added.
UpdateStatus(data) ==
  [data EXCEPT !.current_status =
     IF data.consecutive_successes >= config.healthy_threshold THEN "Healthy"
     ELSE IF data.consecutive_failures >= config.unhealthy_threshold THEN "Unhealthy"
     ELSE ByRate(data.successful_probes, data.total_probes)]

-----------------------------------------------------------------------------
\* get_or_create_route_data.
Created_Known(r) == routes     \* slip: only add_route creates

Created(r) ==
  [q \in DOMAIN routes \cup {r} |->
     IF q \in DOMAIN routes THEN routes[q] ELSE NewRouteHealthData]

AddRoute(r) ==
  /\ routes' = Created(r)
  /\ UNCHANGED <<config, pc, probe, interrupted>>

\* record_probe_success and record_probe_failure, under their first lock.
Probe(t) ==
  /\ pc[t] = "idle"
  /\ \E r \in Routes, status \in Results :
       /\ routes' = Created(r)
       /\ probe' = [probe EXCEPT ![t] = [route |-> r, status |-> status]]
  /\ pc' = [pc EXCEPT ![t] = "record"]
  /\ UNCHANGED <<config, interrupted>>

\* ... and under the second: a route that has gone in between is left alone.
Record(t) ==
  /\ pc[t] = "record"
  /\ LET p == probe[t]
     IN  routes' = IF p.route \in DOMAIN routes
                   THEN [routes EXCEPT ![p.route] = UpdateStatus(Add(Evict(@), p.status))]
                   ELSE routes
  /\ pc' = [pc EXCEPT ![t] = "idle"]
  /\ probe' = [probe EXCEPT ![t] = NoProbe]
  /\ interrupted' = [interrupted EXCEPT ![t] = FALSE]
  /\ UNCHANGED config

\* reset of one route, reset_all of every one.
Reset(gone) ==
  /\ routes' = [q \in DOMAIN routes \ gone |-> routes[q]]
  /\ interrupted' = [t \in Threads |->
       interrupted[t] \/ (pc[t] = "record" /\ probe[t].route \in gone)]
  /\ UNCHANGED <<config, pc, probe>>

Next ==
  \/ \E r \in Routes : AddRoute(r) \/ Reset({r})
  \/ Reset(Routes)
  \/ \E t \in Threads : Probe(t) \/ Record(t)

Spec == Init /\ [][Next]_vars

-----------------------------------------------------------------------------
Healthy(results) == {i \in DOMAIN results : results[i] = "Healthy"}

\* The last n results are all successes, or all failures.
Streak(results, n, success) ==
  /\ n <= Len(results)
  /\ \A i \in Len(results) - n + 1 .. Len(results) : (results[i] = "Healthy") = success

(***************************************************************************)
(* The status a window of results deserves, defined without any counter.   *)
(***************************************************************************)
Deserved(results) ==
  IF Streak(results, config.healthy_threshold, TRUE) THEN "Healthy"
  ELSE IF Streak(results, config.unhealthy_threshold, FALSE) THEN "Unhealthy"
  ELSE ByRate(Cardinality(Healthy(results)), Len(results))

(***************************************************************************)
(* The counters, updated one result at a time, are those of the window,    *)
(* and the status is the one the window deserves: no result older than     *)
(* that has any influence, although consecutive_* are never trimmed to the *)
(* window and may have counted more results than it holds.  The exception  *)
(* is a configuration that asks for more successes than the window holds   *)
(* and calls every other route unhealthy: there the counter remembers      *)
(* successes that have left the window (record_result, update_status).     *)
(***************************************************************************)
Capacity == IF config.window_size = 0 THEN 1 ELSE config.window_size

CounterOutlives ==
  config.unhealthy_threshold = 0 /\ config.healthy_threshold > Capacity

StatusFromWindow ==
  \A r \in DOMAIN routes :
    LET data == routes[r]
        successes == Cardinality(Healthy(data.results))
    IN  /\ data.total_probes = Len(data.results)
        /\ data.successful_probes = successes
        /\ data.failed_probes = Len(data.results) - successes
        /\ Len(data.results) <= Capacity
        /\ ~CounterOutlives =>
             data.current_status =
               IF data.results = <<>> THEN "Unknown" ELSE Deserved(data.results)

(***************************************************************************)
(* A probe is lost only to a reset of its route: otherwise it is the       *)
(* latest in the window when record_probe_* returns.                       *)
(***************************************************************************)
OnlyResetsLose ==
  [][ \A t \in Threads :
        pc[t] = "record" /\ pc'[t] = "idle" /\ ~interrupted[t] =>
          LET p == probe[t]
          IN  /\ p.route \in DOMAIN routes'
              /\ Last(routes'[p.route].results) = p.status ]_vars
===============================================================================
