---------------------------- MODULE HealthEndpoint ----------------------------
(***************************************************************************)
(* HealthEndpoint (deployment/health_endpoint.rs): the health of the       *)
(* components as the parts of the service last set it, and the worst of    *)
(* them as the health of the whole.  Each operation is one critical        *)
(* section; versions, times, messages and JSON are left out.               *)
(***************************************************************************)
EXTENDS Naturals, FiniteSetsExt

CONSTANT Names

VARIABLE components     \* self.components: the status of the names it has

HealthStatus == {"Healthy", "Degraded", "Unhealthy"}

Init == components = [n \in {} |-> "Healthy"]

\* update_component and the set_* that call it.
UpdateComponent(n, status) ==
  components' = [m \in DOMAIN components \cup {n} |-> IF m = n THEN status ELSE components[m]]

\* A component that is registered again is healthy again.
RegisterComponent(n) == UpdateComponent(n, "Healthy")

Next ==
  \E n \in Names : RegisterComponent(n) \/ \E status \in HealthStatus : UpdateComponent(n, status)

Has(status) == \E n \in DOMAIN components : components[n] = status

\* get_health, calculate_overall_status; nothing registered is healthy.
OverallStatus ==
  CASE Has("Unhealthy") -> "Unhealthy"
    [] ~Has("Unhealthy") /\ Has("Degraded") -> "Degraded"
    [] OTHER -> "Healthy"

IsHealthy == OverallStatus \in {"Healthy", "Degraded"}

Rank == [Healthy |-> 0, Degraded |-> 1, Unhealthy |-> 2]

(***************************************************************************)
(* The service is as well as the worst of its components, so it passes for *)
(* healthy exactly as long as none is unhealthy, whatever the others say   *)
(* (get_health, is_healthy).                                               *)
(***************************************************************************)
WorstReported ==
  /\ Rank[OverallStatus] = Max({0} \cup {Rank[components[n]] : n \in DOMAIN components})
  /\ IsHealthy = (Rank[OverallStatus] < 2)
===============================================================================
