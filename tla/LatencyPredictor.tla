--------------------------- MODULE LatencyPredictor ---------------------------
(***************************************************************************)
(* LatencyPredictor (health/predictor.rs), shared by the threads that      *)
(* report latencies.  update locks the map of routes twice, as the health  *)
(* checker does: once to create a route, once to record in it.             *)
(*                                                                         *)
(* Abstractions.  What f64 computes is kept exact: the average is ema_ms / *)
(* unit, the variance is variance / unit^2.  Square roots are avoided by   *)
(* comparing squares, quotients by multiplying out.                        *)
(***************************************************************************)
EXTENDS Integers, SequencesExt

CONSTANTS
  Routes, Threads,
  Latencies,             \* in milliseconds
  Windows,               \* the values of degradation_window to check
  AlphaNum, AlphaDen,    \* ema_alpha, as a fraction
  Multiplier,            \* anomaly_threshold_multiplier
  RatioNum, RatioDen,    \* degradation_threshold, as a fraction
  MaxUpdates             \* bound on the samples of a route

VARIABLES
  window,      \* config.degradation_window; it never changes
  latencies,   \* self.routes: a function on the ids it has
  at,          \* per thread: "idle", or "update" between the two locks
  latency,     \* per thread: [route, ms] it reports
  lost         \* history, per thread: a reset has hit its route since the first lock

vars == <<window, latencies, at, latency, lost>>

(***************************************************************************)
(* RouteLatencyData.  observed is a history variable: the samples so far.  *)
(***************************************************************************)
NewRouteLatencyData ==
  [ ema_ms |-> 0, variance |-> 0, unit |-> 1, recent_latencies |-> <<>>,
    sample_count |-> 0, last_latency_ms |-> 0, observed |-> {} ]

NoLatency == [route |-> CHOOSE r \in Routes : TRUE, ms |-> 0]

Init ==
  /\ window \in Windows
  /\ latencies = [r \in {} |-> NewRouteLatencyData]
  /\ at = [t \in Threads |-> "idle"]
  /\ latency = [t \in Threads |-> NoLatency]
  /\ lost = [t \in Threads |-> FALSE]

-----------------------------------------------------------------------------
\* RouteLatencyData::update.  The first sample is the average.  A window of zero keeps one.
IsFirst_Never(data) == FALSE     \* slip: the first sample is averaged with zero

IsFirst(data) == data.sample_count = 0

Updated(data, ms) ==
  LET delta == ms * data.unit - data.ema_ms
      room == Len(data.recent_latencies) < window \/ data.recent_latencies = <<>>
  IN  [ ema_ms |-> IF IsFirst(data) THEN ms ELSE AlphaDen * data.ema_ms + AlphaNum * delta,
        variance |-> IF IsFirst(data) THEN 0
                     ELSE (AlphaDen - AlphaNum)
                            * (AlphaDen * data.variance + AlphaNum * delta * delta),
        unit |-> IF IsFirst(data) THEN 1 ELSE AlphaDen * data.unit,
        recent_latencies |->
          Append(IF room THEN data.recent_latencies ELSE Tail(data.recent_latencies), ms),
        sample_count |-> data.sample_count + 1,
        last_latency_ms |-> ms,
        observed |-> data.observed \cup {ms} ]

\* update, under its first lock (get_or_create_route_data).
Find(t) ==
  /\ at[t] = "idle"
  /\ \E r \in Routes, ms \in Latencies :
       /\ latencies' = [q \in DOMAIN latencies \cup {r} |->
                          IF q \in DOMAIN latencies THEN latencies[q]
                          ELSE NewRouteLatencyData]
       /\ latency' = [latency EXCEPT ![t] = [route |-> r, ms |-> ms]]
  /\ at' = [at EXCEPT ![t] = "update"]
  /\ UNCHANGED <<window, lost>>

\* ... and under the second: a route that has gone in between is left alone.
Update(t) ==
  /\ at[t] = "update"
  /\ LET l == latency[t]
     IN  IF l.route \in DOMAIN latencies
         THEN /\ latencies[l.route].sample_count < MaxUpdates
              /\ latencies' = [latencies EXCEPT ![l.route] = Updated(@, l.ms)]
         ELSE UNCHANGED latencies
  /\ at' = [at EXCEPT ![t] = "idle"]
  /\ latency' = [latency EXCEPT ![t] = NoLatency]
  /\ lost' = [lost EXCEPT ![t] = FALSE]
  /\ UNCHANGED window

\* reset of one route, reset_all of every one.
Reset(gone) ==
  /\ latencies' = [r \in DOMAIN latencies \ gone |-> latencies[r]]
  /\ lost' = [t \in Threads |-> lost[t] \/ (at[t] = "update" /\ latency[t].route \in gone)]
  /\ UNCHANGED <<window, at, latency>>

Next ==
  \/ \E t \in Threads : Find(t) \/ Update(t)
  \/ \E r \in Routes : Reset({r})
  \/ Reset(Routes)

-----------------------------------------------------------------------------
\* predict, get_all_predictions: the average, rounded.
Predict(data) == (data.ema_ms + data.unit \div 2) \div data.unit

\* is_anomaly: further above the average than Multiplier standard deviations.
IsAnomaly(data, ms) ==
  LET above == ms * data.unit - data.ema_ms
  IN  /\ data.sample_count >= 10
      /\ above > 0
      /\ above * above > Multiplier * Multiplier * data.variance

(***************************************************************************)
(* is_degrading and trend compare the averages of the two halves of the    *)
(* window; the second half has the odd one.  Sums(seq)[n] is the sum of    *)
(* the first n.                                                            *)
(***************************************************************************)
Sums(seq) ==
  LET sum[n \in 0 .. Len(seq)] == IF n = 0 THEN 0 ELSE sum[n - 1] + seq[n]
  IN  sum

Halves(data) ==
  LET recent == data.recent_latencies
      mid_point == Len(recent) \div 2
      sum == Sums(recent)
  IN  [ first  |-> sum[mid_point] * (Len(recent) - mid_point),
        second |-> (sum[Len(recent)] - sum[mid_point]) * mid_point ]

IsDegrading(data) ==
  /\ Len(data.recent_latencies) >= 10
  /\ Halves(data).first # 0
  /\ Halves(data).second * RatioDen > RatioNum * Halves(data).first

\* The sign of trend(); its size is the quotient is_degrading compares, less one.
TrendUp(data) ==
  /\ Len(data.recent_latencies) >= 5
  /\ Halves(data).first # 0
  /\ Halves(data).second > Halves(data).first

(***************************************************************************)
(* What the predictor says follows from the samples since the last reset.  *)
(* The average lies within them, its variance is at most what a population *)
(* in that range can have, so that a latency is an anomaly only above the  *)
(* least of them; the window holds the newest, and degradation is an       *)
(* upward trend with two samples, the later one above the earlier by the   *)
(* threshold, to show for it (update, predict, is_anomaly, is_degrading).  *)
(***************************************************************************)
PredictionsFromSamples ==
  \A r \in DOMAIN latencies :
    LET data == latencies[r]
        recent == data.recent_latencies
        low == Min(data.observed)
        high == Max(data.observed)
    IN  data.sample_count > 0 =>
          /\ low * data.unit <= data.ema_ms /\ data.ema_ms <= high * data.unit
          /\ Predict(data) \in low .. high
          /\ 4 * data.variance <= (high - low) * (high - low) * data.unit * data.unit
          /\ \A ms \in Latencies : IsAnomaly(data, ms) => ms > low
          /\ Len(recent) = Min({data.sample_count, Max({window, 1})})
          /\ data.last_latency_ms = Last(recent) /\ ToSet(recent) \subseteq data.observed
          /\ IsDegrading(data) =>
               /\ TrendUp(data)
               /\ \E i, j \in DOMAIN recent : i < j /\ recent[j] * RatioDen > RatioNum * recent[i]

(***************************************************************************)
(* A latency is lost only to a reset of its route.                         *)
(***************************************************************************)
OnlyResetsLose ==
  [][ \A t \in Threads :
        at[t] = "update" /\ at'[t] = "idle" /\ ~lost[t] =>
          /\ latency[t].route \in DOMAIN latencies'
          /\ latencies'[latency[t].route].last_latency_ms = latency[t].ms ]_vars
===============================================================================
