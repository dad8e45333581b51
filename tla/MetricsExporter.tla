---------------------------- MODULE MetricsExporter ----------------------------
(***************************************************************************)
(* PrometheusExporter and the RoutingMetricsCollector that feeds it        *)
(* (telemetry/metrics_exporter.rs).  A decision is recorded as a counter   *)
(* and a latency, each exported under a lock of its own.                   *)
(*                                                                         *)
(* Abstractions.  A metric is its name and its psp_id; values, types,      *)
(* other labels, times and the text that render makes of them are left     *)
(* out.  The four record_* calls with one export are alike (a gauge).      *)
(***************************************************************************)
EXTENDS Naturals, SequencesExt, FiniteSetsExt

CONSTANTS
  Routes, Threads,
  MaxExports     \* bound on the metrics kept

VARIABLES
  metrics,       \* self.metrics: for each name it has, the metrics exported, oldest first
  decision,      \* per thread: the psp whose decision is exported and whose latency is not
  severed,       \* history, per thread: a reset fell between the two
  orphans        \* history: the psps of the latencies that lost their decision so, in order

vars == <<metrics, decision, severed, orphans>>

Decision(psp) == [name |-> "routing_decisions_total", psp_id |-> psp]
Latency(psp) == [name |-> "routing_decision_latency_ms", psp_id |-> psp]
Gauges == [name : {"circuit_breaker_state", "psp_health_status"}, psp_id : Routes]

Init ==
  /\ metrics = [n \in {} |-> <<>>]
  /\ decision = [t \in Threads |-> {}]
  /\ severed = [t \in Threads |-> FALSE]
  /\ orphans = <<>>

-----------------------------------------------------------------------------
\* export, and export_batch of several under one lock.
Exported(kept, metric) ==
  [n \in DOMAIN kept \cup {metric.name} |->
     LET old == IF n \in DOMAIN kept THEN kept[n] ELSE <<>>
     IN  IF n = metric.name THEN Append(old, metric) ELSE old]

Room(n) == MapThenSumSet(LAMBDA name : Len(metrics[name]), DOMAIN metrics) + n <= MaxExports

\* record_routing_decision, first export ...
RecordDecision(t) ==
  /\ decision[t] = {} /\ Room(1)
  /\ \E psp \in Routes :
       /\ metrics' = Exported(metrics, Decision(psp))
       /\ decision' = [decision EXCEPT ![t] = {psp}]
  /\ UNCHANGED <<severed, orphans>>

\* ... and second.
RecordLatency(t) ==
  /\ \E psp \in decision[t] :
       /\ metrics' = Exported(metrics, Latency(psp))
       /\ orphans' = IF severed[t] THEN Append(orphans, psp) ELSE orphans
  /\ decision' = [decision EXCEPT ![t] = {}]
  /\ severed' = [severed EXCEPT ![t] = FALSE]

\* record_circuit_breaker_state, record_health_status, ...; an export_batch of two.
RecordGauges ==
  /\ \E g \in Gauges :
       \/ Room(1) /\ metrics' = Exported(metrics, g)
       \/ Room(2) /\ \E h \in Gauges : metrics' = Exported(Exported(metrics, g), h)
  /\ UNCHANGED <<decision, severed, orphans>>

Reset ==
  /\ metrics' = [n \in {} |-> <<>>]
  /\ severed' = [t \in Threads |-> decision[t] # {}]
  /\ orphans' = <<>>
  /\ UNCHANGED decision

Next == Reset \/ RecordGauges \/ \E t \in Threads : RecordDecision(t) \/ RecordLatency(t)

-----------------------------------------------------------------------------
Times(x, seq) == Cardinality({i \in DOMAIN seq : seq[i] = x})

Kept(metric) == IF metric.name \in DOMAIN metrics THEN Times(metric, metrics[metric.name]) ELSE 0

(***************************************************************************)
(* Decisions and latencies of a psp balance: there is a decision too many  *)
(* for each call that is between its two exports, a latency too many for   *)
(* each that had a reset there, and no other (record_routing_decision).    *)
(***************************************************************************)
PairsUnlessReset ==
  \A psp \in Routes :
    Kept(Decision(psp)) + Times(psp, orphans)
      = Kept(Latency(psp)) + Cardinality({t \in Threads : decision[t] = {psp} /\ ~severed[t]})
===============================================================================
