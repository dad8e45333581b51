------------------------------ MODULE Monitoring ------------------------------
(***************************************************************************)
(* What watches the router in one program: the health checker, the metrics *)
(* collector, the latency predictor, the tracer, the audit logger and the  *)
(* metrics exporter.  No two of them share anything, so each step of one   *)
(* commutes with each step of another, and every behaviour of all is found *)
(* by letting any one of them run while the others rest.                   *)
(***************************************************************************)
EXTENDS Naturals

CONSTANTS
  Routes, Threads, Latencies, AlphaNum, AlphaDen,
  Configs,                                                     \* of the checker
  WindowSizes, MaxSamples,                                     \* of the collector
  Windows, Multiplier, RatioNum, RatioDen, MaxUpdates,         \* of the predictor
  MaxSpans,                                                    \* of the tracer
  MaxEntries, MaxStamp,                                        \* of the audit logger
  MaxExports                                                   \* of the exporter

\* HealthCheckConfig::new accepts any unsigned values, zeros included.
ASSUME CheckerAssumption ==
  Configs \subseteq [window_size : Nat, healthy_threshold : Nat, unhealthy_threshold : Nat]

\* MetricsCollector::with_config does too, but a window of zero makes record_success panic.
ASSUME CollectorAssumption ==
  /\ WindowSizes \subseteq Nat \ {0}
  /\ Latencies \subseteq Nat
  /\ AlphaDen \in Nat \ {0} /\ AlphaNum \in 0 .. AlphaDen
  /\ MaxSamples \in Nat

\* Thresholds below one would call a falling latency a degradation.
ASSUME PredictorAssumption ==
  /\ Windows \subseteq Nat
  /\ Multiplier \in Nat /\ MaxUpdates \in Nat
  /\ RatioDen \in Nat \ {0} /\ RatioNum \in Nat /\ RatioNum >= RatioDen

ASSUME LimitAssumption == MaxEntries \subseteq Nat /\ {MaxSpans, MaxStamp, MaxExports} \subseteq Nat

VARIABLES
  busy,                                                        \* which of them runs
  config, routes, pc, probe, interrupted,                      \* the checker
  window_size, data, index, step, handle, sample, samples, cut, seen,  \* the collector
  window, latencies, at, latency, lost,                        \* the predictor
  started, active_spans, spans, active_lock, spans_lock, task, owned, ending, cleared, \* the tracer
  max_entries, mask_sensitive_data, entries, draft, stamp, logged,  \* the audit logger
  metrics, decision, severed, orphans                          \* the exporter

Checker   == INSTANCE HealthChecker
Collector == INSTANCE MetricsCollector
Predictor == INSTANCE LatencyPredictor
Tracing   == INSTANCE Tracer
Audit     == INSTANCE AuditLogger
Exporter  == INSTANCE MetricsExporter

checkerVars   == <<config, routes, pc, probe, interrupted>>
collectorVars == <<window_size, data, index, step, handle, sample, samples, cut, seen>>
predictorVars == <<window, latencies, at, latency, lost>>
tracerVars    == <<started, active_spans, spans, active_lock, spans_lock, task, owned, ending, cleared>>
auditVars     == <<max_entries, mask_sensitive_data, entries, draft, stamp, logged>>
exporterVars  == <<metrics, decision, severed, orphans>>
vars == <<busy, checkerVars, collectorVars, predictorVars, tracerVars, auditVars, exporterVars>>

\* The configuration of those that rest does not matter: any will do.
Init ==
  /\ busy \in {"checker", "collector", "predictor", "tracer", "audit", "exporter"}
  /\ Checker!Init /\ Collector!Init /\ Predictor!Init /\ Tracing!Init /\ Audit!Init /\ Exporter!Init
  /\ busy # "checker" => config = CHOOSE c \in Configs : TRUE
  /\ busy # "collector" => window_size = CHOOSE n \in WindowSizes : TRUE
  /\ busy # "predictor" => window = CHOOSE n \in Windows : TRUE
  /\ busy # "audit" => max_entries = (CHOOSE n \in MaxEntries : TRUE) /\ mask_sensitive_data

\* One of them takes a step; the others do not.
Only(name) ==
  /\ busy = name /\ UNCHANGED busy
  /\ IF name = "checker" THEN TRUE ELSE UNCHANGED checkerVars
  /\ IF name = "collector" THEN TRUE ELSE UNCHANGED collectorVars
  /\ IF name = "predictor" THEN TRUE ELSE UNCHANGED predictorVars
  /\ IF name = "tracer" THEN TRUE ELSE UNCHANGED tracerVars
  /\ IF name = "audit" THEN TRUE ELSE UNCHANGED auditVars
  /\ IF name = "exporter" THEN TRUE ELSE UNCHANGED exporterVars

Next ==
  \/ Only("checker") /\ Checker!Next
  \/ Only("collector") /\ Collector!Next
  \/ Only("predictor") /\ Predictor!Next
  \/ Only("tracer") /\ Tracing!Next
  \/ Only("audit") /\ Audit!Next
  \/ Only("exporter") /\ Exporter!Next

Spec == Init /\ [][Next]_vars

-----------------------------------------------------------------------------
(***************************************************************************)
(* What the checker, the collector, the predictor and the audit log answer *)
(* agrees with the probes, samples and entries they were given: status and *)
(* counters with the last window_size of them, percentiles and averages,   *)
(* verdicts on anomalies and trends, and which entries are kept            *)
(* (update_status, get_stats, is_anomaly, is_degrading, get_entries).      *)
(***************************************************************************)
AnswersFromSamples ==
  /\ Checker!StatusFromWindow
  /\ Collector!StatsFromWindow
  /\ Predictor!PredictionsFromSamples
  /\ Audit!LogIsNewest

(***************************************************************************)
(* In all of them, what is recorded is there afterwards unless a reset of  *)
(* the route, or a clear, fell between the two locks that a recording      *)
(* takes or after them.                                                    *)
(***************************************************************************)
OnlyResetsLose ==
  /\ Checker!OnlyResetsLose
  /\ Collector!OnlyResetsLose
  /\ Predictor!OnlyResetsLose
  /\ [](Tracing!NoSpanLost /\ Exporter!PairsUnlessReset)
===============================================================================
