------------------------------- MODULE Services -------------------------------
(***************************************************************************)
(* The parts of the program around the router that share nothing with it   *)
(* and nothing with each other: the priority queue (which this module      *)
(* extends), authentication, readiness and health of the service, the      *)
(* tools that inject and verify failures, what several instances of the    *)
(* program share in Redis, and the two ends of a Kafka topic.  Each step   *)
(* of one commutes with each step of another, so every behaviour of all is *)
(* found by letting any one of them run while the others rest.             *)
(***************************************************************************)
EXTENDS PriorityQueue

CONSTANTS
  Threads, Clients, Targets, Names,
  Hashes, Limits, Window,                        \* of authentication
  Thresholds, Timeout, MaxRequests,              \* of the recovery verifier
  FailureTypes, MaxHistory, MaxAsked,            \* of the failure injector
  Conditions, MaxDuration,                       \* of the network simulator, too
  Ttl, Additional,                               \* of the lock
  Ttls, MaxValue,                                \* of the counter
  MaxPublished,                                  \* of the shared breaker state
  Grace, MaxFailures,                            \* of the readiness checker
  BatchSize, MaxEvents, MaxRecords, MaxCount     \* of the Kafka topic

\* A window of less than a tick restarts with every request and limits nothing.
ASSUME AuthAssumption == Window \in Nat \ {0} /\ Limits \subseteq Nat

\* with_threshold clamps; the ttl of a lock below a millisecond is refused by the server.
ASSUME TimeAssumption ==
  /\ Thresholds \subseteq 0 .. 1000
  /\ {Timeout, Grace, MaxDuration} \subseteq Nat
  /\ Ttl \in Nat \ {0} /\ Additional \subseteq Nat
  /\ \A t \in Ttls : t \subseteq Nat /\ \A m, n \in t : m = n

ASSUME BatchAssumption == BatchSize \in Nat \ {0} /\ {MaxEvents, MaxRecords, MaxCount} \subseteq Nat

VARIABLES
  busy,                                                        \* which of them runs
  keys, rate_limits, recent, ceiling,                          \* authentication
  threshold, recovery, verdict,                                \* the verifier
  active_failures, failure_history, told,                      \* the injector
  states, global_condition, states_lock, call, target, said, truth, globals,  \* the simulator
  key, command, lease,                                         \* the lock
  ttl, counter, expiring, excused,                             \* the counter
  published, cb_state, storing, failed, overlapped,            \* the shared breaker state
  age, probes, doing, reply, met,                              \* the readiness checker
  components,                                                  \* the health endpoint
  enable_auto_commit, records, batch, unsent, acked,
  position, committed, events, returned, dropped               \* the topic

Auth      == INSTANCE ApiAuth
Verifier  == INSTANCE RecoveryVerifier
Injector  == INSTANCE FailureInjector
Simulator == INSTANCE NetworkSimulator
Lock      == INSTANCE DistributedLock
Count     == INSTANCE DistributedCounter
Sync      == INSTANCE StateSync
Probing   == INSTANCE Readiness
Endpoint  == INSTANCE HealthEndpoint
Topic     == INSTANCE KafkaLink

queueVars     == <<heap, sequence, arrived, answer>>
authVars      == <<keys, rate_limits, recent, ceiling>>
verifierVars  == <<threshold, recovery, verdict>>
injectorVars  == <<active_failures, failure_history, told>>
simulatorVars == <<states, global_condition, states_lock, call, target, said, truth, globals>>
lockVars      == <<key, command, lease>>
countVars     == <<ttl, counter, expiring, excused>>
syncVars      == <<published, cb_state, storing, failed, overlapped>>
probingVars   == <<age, probes, doing, reply, met>>
topicVars     == <<enable_auto_commit, records, batch, unsent, acked,
                   position, committed, events, returned, dropped>>
servicesVars  == <<busy, queueVars, authVars, verifierVars, injectorVars, simulatorVars, lockVars,
                   countVars, syncVars, probingVars, components, topicVars>>

Parts == {"queue", "auth", "verifier", "injector", "simulator", "lock", "count", "sync",
          "probing", "endpoint", "topic"}

\* The configuration of those that rest does not matter: any will do.
ServicesInit ==
  /\ busy \in Parts
  /\ Init /\ Auth!Init /\ Verifier!Init /\ Injector!Init /\ Simulator!Init /\ Lock!Init
  /\ Count!Init /\ Sync!Init /\ Probing!Init /\ Endpoint!Init /\ Topic!Init
  /\ busy # "verifier" => threshold = CHOOSE n \in Thresholds : TRUE
  /\ busy # "count" => ttl = CHOOSE t \in Ttls : TRUE
  /\ busy # "topic" => enable_auto_commit

\* One of them takes a step; the others do not.
Only(name) ==
  /\ busy = name /\ UNCHANGED busy
  /\ IF name = "queue" THEN TRUE ELSE UNCHANGED queueVars
  /\ IF name = "auth" THEN TRUE ELSE UNCHANGED authVars
  /\ IF name = "verifier" THEN TRUE ELSE UNCHANGED verifierVars
  /\ IF name = "injector" THEN TRUE ELSE UNCHANGED injectorVars
  /\ IF name = "simulator" THEN TRUE ELSE UNCHANGED simulatorVars
  /\ IF name = "lock" THEN TRUE ELSE UNCHANGED lockVars
  /\ IF name = "count" THEN TRUE ELSE UNCHANGED countVars
  /\ IF name = "sync" THEN TRUE ELSE UNCHANGED syncVars
  /\ IF name = "probing" THEN TRUE ELSE UNCHANGED probingVars
  /\ IF name = "endpoint" THEN TRUE ELSE UNCHANGED components
  /\ IF name = "topic" THEN TRUE ELSE UNCHANGED topicVars

ServicesNext ==
  \/ Only("queue") /\ Next
  \/ Only("auth") /\ Auth!Next
  \/ Only("verifier") /\ Verifier!Next
  \/ Only("injector") /\ Injector!Next
  \/ Only("simulator") /\ Simulator!Next
  \/ Only("lock") /\ Lock!Next
  \/ Only("count") /\ Count!Next
  \/ Only("sync") /\ Sync!Next
  \/ Only("probing") /\ Probing!Next
  \/ Only("endpoint") /\ Endpoint!Next
  \/ Only("topic") /\ Topic!Next

ServicesSpec == ServicesInit /\ [][ServicesNext]_servicesVars

-----------------------------------------------------------------------------
(***************************************************************************)
(* A key is admitted at most twice its limit in any interval as long as    *)
(* the rate limit window, also if it is revoked and registered anew        *)
(* (check_rate_limit, register_key).                                       *)
(***************************************************************************)
RateLimitKept == Auth!RateLimitKept

(***************************************************************************)
(* What verify_recovery has said of a recovery stays so until its timeout, *)
(* whatever requests are recorded (record_request, verify_recovery).       *)
(***************************************************************************)
VerdictStable == Verifier!VerdictStable

(***************************************************************************)
(* The chaos tools do what they were last told: the failure in force is    *)
(* the last injected, with a count of its own, and get_condition tells a   *)
(* condition its target had during the call (inject, get_condition).       *)
(***************************************************************************)
FaultsInForce == []Injector!LastInjected /\ Simulator!ConditionCurrent

(***************************************************************************)
(* At most one client works under the distributed lock, whatever replies   *)
(* are lost or late (acquire, extend, release).                            *)
(***************************************************************************)
LeasesDisjoint == Lock!LeasesDisjoint

(***************************************************************************)
(* A counter with a time to live ends, unless the expiry of its last       *)
(* increment failed or a decrement made it (increment_by, decrement_by).   *)
(***************************************************************************)
CountersExpire == Count!CountersExpire

(***************************************************************************)
(* The shared breaker state is the last published, unless that was not     *)
(* stored or overlapped another (publish_circuit_breaker_state).           *)
(***************************************************************************)
StoreFollowsPublish == Sync!StoreFollowsPublish

(***************************************************************************)
(* What an orchestrator hears has a reason: an answer about readiness was  *)
(* right at some moment of the call or the grace period ended in it, and   *)
(* the service is as healthy as its worst component (is_ready, get_health).*)
(***************************************************************************)
ProbesHonest == Probing!AnswersJustified /\ []Endpoint!WorstReported

(***************************************************************************)
(* An event that send_batch accepts is in the topic, and a record that the *)
(* consumer has passed was returned or given up with an error or a stop    *)
(* (send_batch, poll_batch).                                               *)
(***************************************************************************)
NoSilentLoss == Topic!NoSilentLoss
===============================================================================
