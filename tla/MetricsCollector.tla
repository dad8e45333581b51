--------------------------- MODULE MetricsCollector ---------------------------
(***************************************************************************)
(* MetricsCollector (metrics/collector.rs), shared by the threads that     *)
(* report on requests.                                                     *)
(*                                                                         *)
(* record_* locks the map only to get hold of the route's metrics, which   *)
(* have a mutex of their own; a reset takes them out of the map, but a     *)
(* thread that holds them still records there.  So metrics are objects     *)
(* (data), and the map (index) says which of them belongs to which route. *)
(*                                                                         *)
(* Abstractions.  The average that f64 computes is kept exact, as a        *)
(* fraction of two integers.  Percentiles are rounded to the nearest       *)
(* integer, halves up, as in the code.  A window of zero makes             *)
(* record_success panic and is left out.                                   *)
(***************************************************************************)
EXTENDS Naturals, FiniteSets, SequencesExt

CONSTANTS
  Routes,         \* route ids
  Threads,
  WindowSizes,    \* the values of window_size to check
  Latencies,      \* in milliseconds
  AlphaNum,       \* ema_alpha is AlphaNum / AlphaDen
  AlphaDen,
  MaxSamples      \* bound on the number of calls of record_*

VARIABLES
  window_size,   \* self.window_size; it never changes
  data,          \* the RouteMetricsData that were ever created
  index,         \* self.routes: for each id it has, the index of its data
  step,          \* per thread: "idle", or "record" between the two locks
  handle,        \* per thread: the index of the data it holds
  sample,        \* per thread: what it records
  samples        \* number of calls so far

(***************************************************************************)
(* History variables, not read by any action:                              *)
(*   cut    per thread: a reset has hit its route since the first lock     *)
(*   seen   per data: all latencies it was ever given                      *)
(***************************************************************************)
VARIABLES cut, seen

vars == <<window_size, data, index, step, handle, sample, samples, cut, seen>>

\* The EMA is ema_latency / unit.
NewRouteMetricsData ==
  [ latencies |-> <<>>, successes |-> <<>>,
    total_requests |-> 0, successful_requests |-> 0, failed_requests |-> 0,
    ema_latency |-> 0, unit |-> 1 ]

(***************************************************************************)
(* What record_latency, record_success, record_failure and record_request  *)
(* are given: a latency, an outcome, or both; <<>> is nothing.             *)
(***************************************************************************)
Maybe(S) == {<<>>} \cup {<<x>> : x \in S}

Samples == {s \in [route : Routes, latency : Maybe(Latencies), success : Maybe(BOOLEAN)] :
              s.latency # <<>> \/ s.success # <<>>}

NoSample == CHOOSE s \in Samples : TRUE

Init ==
  /\ window_size \in WindowSizes
  /\ data = <<>>
  /\ index = [r \in {} |-> 0]
  /\ step = [t \in Threads |-> "idle"]
  /\ handle = [t \in Threads |-> 0]
  /\ sample = [t \in Threads |-> NoSample]
  /\ samples = 0
  /\ cut = [t \in Threads |-> FALSE]
  /\ seen = <<>>

-----------------------------------------------------------------------------
\* A window pushes its oldest element out first.
Push(window, x) ==
  Append(IF Len(window) >= window_size THEN Tail(window) ELSE window, x)

\* The EMA starts again whenever it is zero, with the latency itself.
WithLatency(d, ms) ==
  LET first == d.ema_latency = 0
  IN  [d EXCEPT !.latencies = Push(@, ms),
                !.ema_latency = IF first THEN ms
                                ELSE AlphaNum * ms * d.unit + (AlphaDen - AlphaNum) * @,
                !.unit = IF first THEN 1 ELSE AlphaDen * @]

One(b) == IF b THEN 1 ELSE 0

\* saturating_sub.
Less(n, m) == IF n < m THEN 0 ELSE n - m

\* record_success(bool): what falls out of the window is no longer counted.
WithOutcome(d, success) ==
  LET full == Len(d.successes) >= window_size
      old == full /\ Head(d.successes)
  IN  [d EXCEPT !.successes = Push(@, success),
                !.total_requests = Less(@, One(full)) + 1,
                !.successful_requests = Less(@, One(full /\ old)) + One(success),
                !.failed_requests = Less(@, One(full /\ ~old)) + One(~success)]

\* The latency is recorded before the outcome.
Recorded(d, s) ==
  LET first == IF s.latency = <<>> THEN d ELSE WithLatency(d, s.latency[1])
  IN  IF s.success = <<>> THEN first ELSE WithOutcome(first, s.success[1])

\* get_or_create_metrics: the thread holds on to the route's data.
Lookup(t) ==
  /\ step[t] = "idle"
  /\ samples < MaxSamples
  /\ samples' = samples + 1
  /\ \E s \in Samples :
       /\ sample' = [sample EXCEPT ![t] = s]
       /\ IF s.route \in DOMAIN index
          THEN /\ handle' = [handle EXCEPT ![t] = index[s.route]]
               /\ UNCHANGED <<data, index, seen>>
          ELSE LET new == Len(data) + 1
               IN  /\ handle' = [handle EXCEPT ![t] = new]
                   /\ data' = Append(data, NewRouteMetricsData)
                   /\ seen' = Append(seen, {})
                   /\ index' = [r \in DOMAIN index \cup {s.route} |->
                                   IF r = s.route THEN new ELSE index[r]]
  /\ step' = [step EXCEPT ![t] = "record"]
  /\ UNCHANGED <<window_size, cut>>

\* RouteMetrics::record_*, under the mutex of the data.
Record(t) ==
  /\ step[t] = "record"
  /\ LET i == handle[t]
         s == sample[t]
     IN  /\ data' = [data EXCEPT ![i] = Recorded(@, s)]
         /\ seen' = [seen EXCEPT ![i] = @ \cup ToSet(s.latency)]
  /\ step' = [step EXCEPT ![t] = "idle"]
  /\ handle' = [handle EXCEPT ![t] = 0]
  /\ sample' = [sample EXCEPT ![t] = NoSample]
  /\ cut' = [cut EXCEPT ![t] = FALSE]
  /\ UNCHANGED <<window_size, index, samples>>

\* reset of one route, reset_all of every one.
Reset(gone) ==
  /\ index' = [r \in DOMAIN index \ gone |-> index[r]]
  /\ cut' = [t \in Threads |-> cut[t] \/ (step[t] = "record" /\ sample[t].route \in gone)]
  /\ UNCHANGED <<window_size, data, samples, seen, step, handle, sample>>

Next ==
  \/ \E t \in Threads : Lookup(t) \/ Record(t)
  \/ \E r \in Routes : Reset({r})
  \/ Reset(Routes)

Spec == Init /\ [][Next]_vars

-----------------------------------------------------------------------------
\* What comes at place k once the samples are sorted: fewer are less, k are not greater.
Sorted(window, k) ==
  CHOOSE x \in ToSet(window) :
    /\ Cardinality({i \in DOMAIN window : window[i] < x}) < k
    /\ k <= Cardinality({i \in DOMAIN window : window[i] <= x})

(***************************************************************************)
(* calculate_percentile: interpolation between the two samples next to the *)
(* rank, which is kept in hundredths.                                      *)
(***************************************************************************)
Percentile(d, p) ==
  LET rank == p * (Len(d.latencies) - 1)
      lower == rank \div 100
      fraction == rank % 100
      Value(k) == Sorted(d.latencies, k)
  IN  IF d.latencies = <<>> THEN 0
      ELSE IF fraction = 0 THEN Value(lower + 1)
      ELSE (Value(lower + 1) * (100 - fraction) + Value(lower + 2) * fraction + 50) \div 100

\* get_stats.  The rates and the plain average are quotients of what is here.
Stats(d) ==
  LET window == ToSet(d.latencies)
  IN  [ total_requests      |-> d.total_requests,
        successful_requests |-> d.successful_requests,
        failed_requests     |-> d.failed_requests,
        percentiles         |-> [p \in {50, 95, 99} |-> Percentile(d, p)],
        min_latency_ms      |-> IF window = {} THEN 0 ELSE Min(window),
        max_latency_ms      |-> IF window = {} THEN 0 ELSE Max(window),
        ema_latency_ms      |-> d.ema_latency ]

-----------------------------------------------------------------------------
(***************************************************************************)
(* get_stats says what is in the windows: the counters, updated one        *)
(* outcome at a time, are those of the window, the percentiles are in      *)
(* order and within it, and the EMA is within all latencies so far (those  *)
(* of zero, which restart it, included).                                   *)
(***************************************************************************)
Times(seq, x) == Cardinality({i \in DOMAIN seq : seq[i] = x})

StatsFromWindow ==
  \A i \in DOMAIN data :
    LET d == data[i]
        stats == Stats(d)
        percentile == stats.percentiles
    IN  /\ Len(d.successes) <= window_size /\ Len(d.latencies) <= window_size
        /\ stats.total_requests = Len(d.successes)
        /\ stats.successful_requests = Times(d.successes, TRUE)
        /\ stats.failed_requests = Times(d.successes, FALSE)
        /\ stats.min_latency_ms <= percentile[50]
        /\ percentile[50] <= percentile[95]
        /\ percentile[95] <= percentile[99]
        /\ percentile[99] <= stats.max_latency_ms
        /\ seen[i] # {} =>
             /\ Min(seen[i]) * d.unit <= stats.ema_latency_ms
             /\ stats.ema_latency_ms <= Max(seen[i]) * d.unit

(***************************************************************************)
(* A sample is lost only to a reset of its route: otherwise the metrics it *)
(* went into are those of the route when record_* returns.                 *)
(***************************************************************************)
OnlyResetsLose ==
  [][ \A t \in Threads :
        step[t] = "record" /\ step'[t] = "idle" /\ ~cut[t] =>
          /\ sample[t].route \in DOMAIN index'
          /\ index'[sample[t].route] = handle[t] ]_vars
===============================================================================
