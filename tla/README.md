# Formal model of the transaction router

This directory holds TLA+ modules for the payment transaction router in this
repository, TLC configurations that check them on small instances, and proofs
that TLAPS checks for every value of the constants. Paths below are relative to
the crate (`src/` of the repository).

The crate is a library: nothing in it starts a thread. Its objects are shared
between the threads of whoever embeds it, through `Arc<Mutex<_>>` and atomics, so
the questions worth asking are about what happens between two lock acquisitions
or two atomic operations, and about sequences of legal calls nobody wrote a test
for.

## 1. Inventory

| Component | State it keeps | Operations that change it | What is hard |
| --- | --- | --- | --- |
| Circuit breaker (`circuit_breaker/state_machine.rs`) | one mutex: state, time of last change, counters | `state` (it stores Open -> HalfOpen), `is_call_permitted`, `record_success`, `record_failure`, `force_*`, `reset`, `call` | outcomes recorded in another state than the one the call was admitted in; the test-call budget; HalfOpen has no timeout |
| Transaction router (`router/transaction_router.rs`) | routes, breakers per PSP, merchant preferences, audit log, metrics, each under its own lock | `route`, `record_route_*`, `set_merchant_preferences`, `update_routes`, `clear_audit_log`, `get_all_circuit_states` | `route` takes the locks one after the other; reloads while payments are out |
| Route selection (`router/filter.rs`, `scorer.rs`, `selector.rs`) | none | - | ties, a single candidate, scores relative to the dearest candidate |
| Backpressure (`backpressure/monitor.rs`) | five atomics | `try_enqueue`, `enqueue`, `dequeue`, `reset` | check-then-act, wrap below zero, a compare-exchange loop |
| Priority queue (`queue/priority_queue.rs`) | heap, sequence number | `enqueue`, `dequeue`, `clear`, `drain` | FIFO within a priority, sequence reset |
| Graceful shutdown (`deployment/graceful_shutdown.rs`) | flag, in-flight count, start time | `request_shutdown`, `start_request`, `end_request`, `wait_for_drain`, `reset` | a request that starts after the drain has seen zero |
| Readiness, health endpoint (`deployment/`) | probes, component states | `register_probe`, `set_ready`, `set_not_ready`, `clear_probes`; `register_component`, `update_component` | the grace period ends between two readings of the clock |
| Events (`events/`) | buffer, bounded queue; a Kafka topic outside | `publish`, `publish_batch`, `flush`; `send`, `send_batch`, `poll`, `poll_batch` | batches overtaking each other, loss on a failed flush, a batch half sent, offsets committed for events nobody was given |
| Telemetry (`telemetry/`) | active and finished spans; exported metrics | `start_span`, `end_span`, `clear`; `record_*`, `reset` | two locks in two orders; one decision exported as two metrics |
| Health, predictor, metrics (`health/`, `metrics/`) | windows of samples per route | `record_*`, `update`, `reset` | window eviction, counters that must match the window, two locks per recording |
| Config (`config/`) | current config, modification time | `reload`, `try_reload` | file written between two reads, or read while it is written |
| Distributed (`distributed/`) | Redis keys | `acquire`, `extend`, `release`; `increment_by`, `decrement_by`, `set`; `publish_circuit_breaker_state` | keys that expire, replies that are lost, two commands that are not one |
| Chaos (`chaos/`) | failures, network conditions, recoveries per target | `inject`, `should_fail`; `set_condition`, `clear_all`; `record_request`, `verify_recovery` | durations that end, two mutexes per answer, verdicts computed anew |
| Security (`security/`) | keys, rate windows; audit entries | `register_key`, `revoke_key`, `authenticate`; `log`, `clear` | fixed windows, eviction |

How the parts meet:

- `TransactionRouter::route` polls `CircuitBreaker::state` of every candidate and
  calls the pure functions of `filter.rs`, `scorer.rs` and `selector.rs`. The
  embedding program reports back with `record_route_success` and
  `record_route_failure`, which go to the same breakers.
- The other objects (monitors, queue, shutdown, publishers, tracer, chaos tools,
  authenticator, Redis and Kafka clients) are independent: no file of the crate
  calls one from another. Whoever embeds the crate combines them, so each has a
  module of its own that is driven by every sequence of calls its type allows
  (`&self` methods from any thread, `&mut self` methods from one).
- `DistributedLock`, `DistributedCounter` and `StateSync` meet other instances of
  the program in a Redis server, the Kafka classes in a topic. Server and broker
  are modelled by what the commands the code sends do.
- `ConfigWatcher` meets the outside only through the file and the channel on
  which the `notify` thread sends.

## 2. Modules

| Module | Models | State and actions against the code |
| --- | --- | --- |
| `BreakerOps` | `CircuitBreaker`'s methods as functions of the record its mutex protects | one operator per method: `StateQuery` is `state`, `CallPermitted` and `TakePermit` are `is_call_permitted`, `RecordSuccess`, `RecordFailure`, `TransitionTo`, `ResetBreaker` |
| `CircuitBreaker` | one breaker and the threads that use `call` | `Enter` is the locked permit check, `Succeed`/`Fail`/`Panic` the end of the closure, in between the lock is free; `Poll`, `Intervene` and `Tick` are the other users and the clock |
| `BreakerContract` | what a breaker promises, with no counter and no lock | refined by `CircuitBreaker` |
| `RouteSelection` | filter, scores, strategies, preferences | pure operators on sequences of routes; `Pick(seq, at)` is the subsequence at a set of positions, which is what a filter, a retain and a stable partition have in common |
| `TransactionRouter` | `route` and the maps it locks | `Begin`, `Prefer`, `Decide`, `Record`, `Count` are the locked regions of one `route` call in their order, `Report` what the caller says of the payment; `SetPreferences`, `UpdateRoutes`, `PollAll`, `ClearAuditLog` are the other methods |
| `Backpressure` | `BackpressureMonitor` | one action per atomic load, store or read-modify-write; `monitor_pc` is where a thread is between two of them |
| `GracefulShutdown` | the shutdown flag, count and start time | the same, with a clock per `Instant` that is read |
| `ConfigWatcher` | the watcher, the file, its editor and the event channel | `NewLoad`, `NewWatch`, `NewStat` are the three steps of `new`; `Stat` and `Load` the two of `reload`; `Write` is a step of an editor that writes in place, after which the write may be over or not and the contents may load or not, `Restore` an older file moved into place |
| `Surroundings` | `EventPublisher`, `ConfigWatcher` and `Backpressure` side by side, one running while the others rest; it extends the three, whose names are apart for that reason (`Init`, `WatcherInit`, `MonitorInit`, ...) | `SurroundingsNext` is a step of the one that runs |
| `EventPublisher` | `BufferedEventPublisher` around `InMemoryEventPublisher` | `Publish` and `Flush` end where the batch has been drained, `Deliver` is the inner call; `pc = "flush"` means that the buffer's mutex is still held; `Push` is a round of the loop that evicts and pushes, `PushAll` the loop |
| `HealthChecker` | the health checker | `Probe` and `Record` are the two lock acquisitions of `record_probe_*`; `AddRoute` and `Reset` the other methods |
| `LatencyPredictor` | the predictor | `Find` and `Update` are the two lock acquisitions of `update`; `Predict`, `IsAnomaly`, `IsDegrading`, `TrendUp` what it answers. Averages are exact fractions: `unit` is the common denominator of `ema_ms`, its square that of `variance`, and each update multiplies it; `Sums` are the partial sums of the window |
| `Tracer` | the span tables and their two mutexes | `EndSpan` and `Clear` take the first lock, `EndSpanStore` and `ClearActive` the second; active spans are a set, since ids are given in order and `current_span` asks for the last |
| `AuditLogger` | the audit log | `Build` is `AuditEntry::new` with its builders, `Log` and `Clear` the methods; `Query` the readers, as the positions of the newest entries wanted, at most `limit` of them |
| `MetricsExporter` | the exporter and the collector of routing metrics | `RecordDecision` and `RecordLatency` are the two exports of one decision |
| `MetricsCollector` | the metrics collector | `Lookup` gets hold of the route's metrics under the lock of the map, `Record` records under theirs; metrics are objects, since a reset does not take them from a thread that holds them; the EMA is an exact fraction over `unit`, and `Sorted` is the sorted copy of the window, each place given by how many samples are smaller |
| `Monitoring` | the six above (health checker to exporter), one running while the others rest: they share nothing, so their steps commute | `Next` is a step of the one that runs |
| `ApiAuth` | keys and rate limits | `Authenticate` is the whole of `authenticate`, which keeps the keys locked; `Entry` and `Checked` are `check_rate_limit`; the history `recent` counts per age what was admitted since, so that an interval need not begin with a window |
| `RecoveryVerifier`, `FailureInjector` | one critical section per method | an action per method |
| `NetworkSimulator` | the conditions under two mutexes | `Ask` and `AnswerGlobal` are the two halves of `get_condition`, `get_latency` and `should_drop`; `ClearAll` and `ClearAllGlobal` of `clear_all` |
| `DistributedLock` | clients, connections and the key | `Acquire`, `Extend`, `Release` send, `Execute` is the server, `Reply` and `Fail` end the call |
| `DistributedCounter` | counters with a time to live, and the volume of a PSP | `IncrementBy` and `Expire` are the two commands of `increment_by`, `Fail` a connection that breaks between them |
| `StateSync` | the shared breaker state | `Publish` and `Store` are the two commands of `publish_circuit_breaker_state` |
| `Readiness`, `HealthEndpoint` | probes and components | `Ask` is the first reading of the clock, `AnswerStarting` the second, `AnswerProbes` the look at the probes |
| `KafkaLink` | producer, partition, consumer | `SendBatch`, `Deliver`, `Fail` the producer; `Poll`, `PollFails`, `Return` are `poll_batch`; `Commit` and `Restart` the client library |
| `PriorityQueue` | the queue behind its one mutex | one action per method |
| `PriorityContract` | a first-in-first-out lane per priority: the set of items waiting in it, of which the one that arrived first leaves | refined by `PriorityQueue` |
| `Services` | the queue and the ten parts from `ApiAuth` to `KafkaLink`, one running while the others rest | `ServicesNext` is a step of the one that runs |

`TransactionRouter` extends `BreakerOps` and `RouteSelection`; `CircuitBreaker`
extends `BreakerOps`, so a breaker behaves the same alone and under the router.
The `MC*` modules give the constants of their module as sets of model values; the
runs of `ConfigWatcher` and `Surroundings` need none. `MCMonitoring` also has TLC
compare `Sorted` with the library's sort, for all short sequences.
The `*Proofs` modules hold theorems only, with the invariants and lemmas they
need; one proof module goes with `CircuitBreaker`, `TransactionRouter`,
`Backpressure`, `GracefulShutdown`, `ConfigWatcher`, `EventPublisher`, `Services`
and `Monitoring` each, the last two about all parts those compose.

Variables that no code has are of two sorts and are declared apart. *History
variables* (`testCalls`, `refused`, `highest`, `stragglers`, `latest`, ...) record
something about the past for a property and are read by no action. *Bounds*
(`interventions`, `requests`, `ops`, `published`, `arrived`,
`restores`) count operations that could go on for ever and stop them at a
constant. Definitions called `X_Something` next to a definition `X` are the same
step with a plausible slip; no specification uses them. They document which slip
each property notices, and substituting one for `X` must break that property.

## 3. Runs

| Run | Instance | What it shows |
| --- | --- | --- |
| `breaker` | 3 callers, thresholds 2, 2 test calls, timeout 2 ticks, 2 interventions | the breaker implements its contract; a threshold that is reached acts in whatever state the outcome arrives; at most twice `half_open_max_calls` calls reach the service between opening and leaving HalfOpen; an open breaker leaves Open; it closes for good once the service is healthy for good |
| `breaker_call_only` | the same, without `state()` and interventions | **violation**, finding 1 |
| `breaker_test_calls` | the same with polls, without interventions, 1 test call | **violation**, finding 2 |
| `router` | 2 workers, 3 PSPs in 2 route tables, 3 requests, 2 changes of preferences or routes | audit log and metrics agree up to the requests between the two locks; a decision names PSPs that accept the transaction and were usable at some time of the call; a reload neither loses a circuit nor leaves a PSP without one |
| `router_test_requests` | the same with the weighted strategy | **violation**, finding 3 |
| `backpressure_limit` | 2 producers, 1 consumer, limit 1, word of 8 values, 4 operations | **violation**, finding 4 |
| `backpressure_balance` | the same | **violation**, finding 5 |
| `shutdown` | 2 workers, 2 operators, timeouts 1, 1 and 2 ticks | the count is exact, a drain leaves only requests that had passed the flag before it, nothing is cut off before the force timeout, a shutdown terminates |
| `surroundings` | publisher: 3 threads, buffer 2, queue 3, 5 events, 1 refusal; watcher: 3 changes of the first contents, 1 restore; monitor: 2 producers, 1 consumer, 1 resetter, limit 1, word of 8 values, 4 operations | no event is lost or doubled on the way, the buffer never stands full, only `publish` and `publish_batch` reorder, every event leaves the buffer; a file that loads and has a time of its own ends up in use, whatever unfinished contents were read before it; how far the limit is passed, that the depth never wraps with one consumer and is never below the balance of the totals, that the peak is not lost, that each operation ends |
| `watcher_detects` | 1 change | **violation**, finding 6 |
| `monitoring` | 2 threads, 1 route; 8 configurations of the checker; windows of 1 and 2, latencies 0 and 7, EMA weight 1/2 and 4 samples for the collector; windows of 0 and 10 and 11 samples for the predictor; 3 spans; a log of 0 or 2 entries; 6 exports | status, percentiles, averages, verdicts on anomalies and degradation, and the log are those of what was recorded; what is recorded is there afterwards unless a reset falls between |
| `services` | 2 threads, 2 Redis clients, 1 key or target; see below | what each of the eleven parts promises, nine properties in all |

The properties of `services`: the heap implements the lanes through `clear`,
`drain` and the last number before the wrap (`ImplementsContract`); a key is
admitted at most twice its limit in any window's length (`RateLimitKept`);
verdicts on a recovery last (`VerdictStable`); the failure in force is the last
injected and `get_condition` tells a condition the target had (`FaultsInForce`);
no two clients work under the lock (`LeasesDisjoint`); a counter with a time to
live ends unless an excuse is on record (`CountersExpire`); the shared breaker
state is the last announced unless it was not stored or overlapped another
(`StoreFollowsPublish`); an answer about readiness was right at some moment of the
call or the grace period ended in it (`ProbesHonest`); an accepted batch is in the
topic, and a record the consumer has passed was returned or given up with an error
or a stop (`NoSilentLoss`). Where a property has an exception, the exception is
what the code does: the comment at the property in the part's module says so.

Why these bounds are enough. The thresholds of the breaker are 2, the smallest value
that distinguishes "one more" from "reached"; three callers are one more than the
test calls, so that one is refused and one can report late. Two workers of the
router suffice for every race between two `route` calls, and three requests let a
third one meet what the first two have left; the two tables have one PSP in common,
one that is disabled by a reload and one that leaves and comes. With limit 1 and two
producers the check and the addition of `try_enqueue` overlap; four operations are
two enqueues, a dequeue and one more of any kind, and eight values of the machine
word are more than they can fill, so a wrap is seen as a value near the top. Two
shutdown operators make a repeated request, a wait and a reset overlap, and each
timeout is passed within two ticks. Three changes after the first contents are a
write that goes through one unfinished state and one more before it or after it, in
each gap of `new` and of `reload` of the same run; one of them may be a restore. Two
buffered batches and a direct one in flight need three threads and five events, and
a queue of three evicts with them. The windows of `monitoring` hold 0, 1, 2 and 3
samples, and its thresholds are zero, below, at and above the window; probes are
unbounded, and four requests fill the larger collector window twice over; a latency
of zero restarts the EMA. One route is enough because routes meet only in the map,
whose entries are independent. Eleven samples of the predictor pass the ten that
`is_anomaly` and `is_degrading` ask for and evict one. Three spans are a trace of
two and one of its own; a log of zero entries keeps one.

In `services`, five items fill a lane, empty it by each operation and use the last
sequence number. Limits of 1 and 2 with a window of two ticks give a window that
has ended, one that is about to, and one that has begun. Eleven requests pass the
ten after which `verify_recovery` decides, and thresholds of 50 % and 99.9 % give
every verdict. A lock lives two ticks and is extended by none or one more, so that
it can expire under each command of either client. A counter has no, a zero or a
positive time to live. Four announcements are two overlapping pairs. Two events to
a batch and four in all make a batch fail after its first event and be sent again;
with three records, one that cannot be read or belongs to others is in between.

`CHECK_DEADLOCK FALSE` stands in the runs where behaviours end when a bound is used
up, and in `monitoring`, where moreover the tracer can deadlock (section 4). In
`breaker`, `router` and `shutdown` deadlock is checked.

### Fairness

No liveness property rests on more than the following, and safety on none of it.

- `breaker`: the clock ticks, a thread that may call calls, a closure returns or
  panics, and somebody polls `state()`, which `route` does for every candidate.
  `breaker_call_only` is the same without the last.
- `surroundings`, the monitor: a thread in the middle of an operation is scheduled
  again. That a thread begins an operation is not assumed, nor that a
  compare-exchange succeeds.
- `shutdown`: the clock ticks; an operator who has set the flag stores the start
  time, and one who waits looks again. Workers may stop anywhere: a stuck request
  must not hold up the force timeout.
- `surroundings`, the watcher: a change is delivered as an event; the owner calls
  `try_reload` in a loop, as the crate's README shows, and a reload that has begun
  goes on. The editor need not finish anything; `CatchesUp` only speaks of files
  that stay as they are, load, and have a time of their own.
- `surroundings`, the publisher: a drained batch is delivered, and somebody flushes
  again while the buffer is not empty. The crate has no timer that flushes, so this
  is the duty of the embedding program; without it the last events stay in the
  buffer.

## 4. Where code and documentation disagree

1. **`call` alone does not recover** (`breaker_call_only`). `call` and
   `is_call_permitted` let calls through once the timeout has elapsed, but only
   `state()` stores HalfOpen. With `call` as the only client two test calls succeed,
   nothing moves, the test-call budget is used up and the breaker refuses for ever.
   `transaction_router.md:42` promises Open -> HalfOpen after the timeout, the README
   (`:334`) automatic state management by `call`.
2. **Test calls of `call` are counted twice over** (`breaker_test_calls`). Permits
   are counted in `half_open_calls` already while the breaker is Open with its timeout
   elapsed, and the move to HalfOpen in `state()` sets that count to zero. So as many
   test calls again are let in while the first ones still run: two at a time with
   `half_open_max_calls` 1, where `transaction_router.md:51` has "Concurrent test
   requests allowed". `TestCallBudget` is the bound that does hold, for every value of
   the constants: twice `half_open_max_calls` between opening and leaving HalfOpen.
   Nothing bounds the test calls that run at one time over several openings, since
   those of an earlier one may still be under way.
3. **Test requests of the router are not limited** (`router_test_requests`). `route`
   asks only whether `state()` is Open and never takes a permit, so any number of
   payments goes to a PSP under test, contrary to the same line.
4. **The queue limit can be passed** (`backpressure_limit`). `try_enqueue` loads the
   depth and adds to it in two steps. `tests/integration_backpressure.rs:204`
   asserts that 20 concurrent threads end exactly at the limit. The proved bound is
   one less than the number of producers above it.
5. **The depth does not return to zero** (`backpressure_balance`). `decrement_depth`
   counts a dequeue before it looks at the depth, and also if there is nothing to
   take. A dequeue that runs before the enqueue it belongs to therefore leaves a depth
   of one for good, although both totals are one.
   `tests/integration_backpressure.rs:239` and `src/backpressure/monitor.rs:484`
   assert zero after concurrent enqueues and dequeues of equal number; they pass as
   long as the enqueuing threads, started first, stay ahead. What holds is one side of
   the balance, `DepthCoversBacklog`.
6. **A change during `new` is overlooked** (`watcher_detects`). `new` loads the file
   first and reads its modification time last; a write in between is recorded as
   seen. `README.md:20` promises hot reload with change detection.

The following was met as well. No run is about it: nothing in the repository claims
the opposite closely enough to be refuted, or a property would have to repeat the
exception.

- **An unfinished configuration can be put in use.** The loader accepts YAML, and a
  file cut after a complete route parses as a shorter list of routes, which the
  validator accepts. Writers that write in place, `ConfigLoader::save` among them,
  expose such contents; the 100 ms that `reload` sleeps make it unlikely. What
  `transaction_router.md:56` calls "Consistent view during config changes" is kept
  only towards writers that move a finished file into place. If the finished file has
  a later modification time it is read next, as `NothingMissed` says; if it has the
  same one, `reload` skips it and the unfinished configuration stays.
- **An older file is not reloaded.** A restored backup that keeps its modification
  time is skipped by the same comparison.
- **The depth can wrap.** Two consumers that both load a depth of one both subtract,
  and so does one that loads it before a reset. The depth is then near `usize::MAX`
  and `try_enqueue` rejects everything until enqueues or a reset bring it back.
- **The tracer can deadlock.** `end_span` locks `active_spans` and then `spans`,
  `clear` the other way round. Once a thread is between the two locks of each, both
  wait for ever, and every later call with them. `Tracer` has the locks and reaches
  this state.
- **A reset during other calls.** The resets of the backpressure monitor and of the
  graceful shutdown are several stores. In the shutdown, a request served meanwhile
  lets the count wrap, and a shutdown asked for meanwhile never terminates; in the
  monitor, totals and depth no longer fit together.
- **Health of another window.** This was met when the status of the health checker
  was proved to be that of its window. `consecutive_successes` is never trimmed to
  the window. With `unhealthy_threshold` 0 and a `healthy_threshold` above the
  window's size, a route can be Healthy on successes that have left the window.
  `HealthChecker!CounterOutlives` names exactly these configurations; for all others
  the theorem holds, and the configurations of the run `monitoring` include one of
  them.

## 5. Proofs

Each theorem holds for every value of the constants that satisfies the `ASSUME` of
its modules. These say that counts, times and limits are naturals (positive where
the code divides by them or would panic), that thresholds are in order, that sets
of threads are finite and disjoint where the proof counts their members, that route
tables and transactions are ones the code accepts, that fees, priorities and weights
are numbers, of any sign, and that bounds stay below the machine word.

The breaker and the router.

| Theorem | Inductive invariant, and why the property alone is not enough |
| --- | --- |
| `CircuitBreakerProofs!TypeCorrect` | `TypeOK` itself, from one lemma per operator of `BreakerOps` |
| `CircuitBreakerProofs!ThresholdsAct` | `Settled`: every operator that can leave a counter at its threshold also makes the transition |
| `CircuitBreakerProofs!TestCallsBounded` | `BudgetInv`: a poll hands out a fresh budget, so an Open breaker must have granted exactly what its own `half_open_calls` says |
| `CircuitBreakerProofs!BreakerImplementsContract` | `ContractStep`: from `TypeOK`, each action is a step of the contract or a stutter, along the effect lemmas of the operators |
| `TransactionRouterProofs!TypeCorrect` | `Types`: `TypeOK` with the vectors a worker holds and the histories; rests on the lemmas about `Pick` (what a filter keeps, in which order, and that it is injective) |
| `TransactionRouterProofs!RoutesGuarded` | `EveryRouteGuarded` with `Types`: nothing but a reload touches the routes, and nothing at all removes a breaker |
| `TransactionRouterProofs!CircuitsSurviveReloads` | a step lemma from `Types`: a reload adds breakers and keeps the others as they are |
| `TransactionRouterProofs!BooksAgree` | `AuditMatchesMetrics` with `Types`; the proof counts the workers between the two locks, so `Record` adds one and `Count` takes one away whoever else is there |
| `TransactionRouterProofs!SoundDecisions` | `Sound`: the same of the candidates as long as there is no decision, and that candidates and the names of a decision are distinct; the histories of a call only shrink (`HistoryShrinks`), so what others do cannot spoil it |
| `TransactionRouterProofs!RouteAlwaysFound`, `FallbacksNamed` | `Ready`: who is about to prefer or select has a transaction and at least one candidate; then `SelectionMade` applies, and with `Sound` the fallback is another PSP |

Three theorems are about the pure functions of the router, for every sequence of
routes. `PreferencesHonoured`: `apply_merchant_preferences` keeps exactly the
candidates that are not blocked, puts the preferred first and keeps the order within
both groups. `SelectionMade`: with any candidate one is selected (by score the last
of the best), and the fallback is the first of the best others, missing only when
there are none. `ScoresNormalised`: without negative fees, amounts and weights a
score lies between zero and the sum of its weights. The code needs that proviso:
`RouteConfig::validate` checks the percentage but not `fixed_fee`, and weights are
only checked by their sum, so `SelectionMade` is proved without it.

Threads and atomics.

| Theorem | Inductive invariant |
| --- | --- |
| `BackpressureProofs!PeakNeverLost` | `PeakInv`: a thread about to exchange holds more than the peak it has read, and no depth is above the highest one |
| `BackpressureProofs!OvershootNeverExceeded` | `DepthInv`: additions under way count towards the bound, and a consumer about to subtract still finds a positive depth |
| `BackpressureProofs!BacklogCovered` | `OpsInv` and `BalanceInv`: depth and totals differ by what threads still owe and by misses, up to a multiple of the modulus, and the totals are at most the operations, so below it: a wrap can only make the depth larger; a resetter that runs has disturbed it |
| `ConfigWatcherProofs!TypeCorrect` | `TypeOK` itself, which says that times are at most the clock and contents in use at most those written |
| `ConfigWatcherProofs!LaterWritesNoticed` | `StoredInv`: a stored time later than all of `latest` belongs to the very contents that are there and in use; `PendingInv`: as long as such a file is not in use, an event or a look at it is under way |
| `GracefulShutdownProofs!TypeCorrect` | `TypeOK` itself; that a thread is only at steps of its own kind is what the other proofs need of it |
| `GracefulShutdownProofs!CountExact` | `FlightInv`: a reset stores zero, which is right only because resets run alone (`ResetsAlone`); a busy worker below the modulus keeps the addition from wrapping |
| `GracefulShutdownProofs!DrainQuiet` | `QuietInv`: a bound left by a drain stands only while the flag does, and then no worker becomes busy; uses `FlightInv` to turn a count of zero into an empty set |
| `GracefulShutdownProofs!GraceKept` | `ClockInv`: the start time is never older than the request it belongs to, because a reset clears it before anybody else may ask again |
| `EventPublisherProofs!EventsCounted`, `SizesKept`, `OrderKeptByFlush` | `PublisherInv`, the three properties with `Locking` (while a flush holds the buffer it is empty, and there is no other flush) and `Ordering` (a batch let go of is older than all that waits; only events of `publish_batch` can be in the queue before an older one that waits) |
| `EventPublisherProofs!EvictionKeepsNewest` | by induction along the loop: after each event the queue is the end (`EndAt`) of all it was given; needs that the queue was within its size, which `SizesKept` has |

The parts of `Services` and `Monitoring`. A step of the whole is one of a part or
leaves that part alone (`OneStepsAtATime`), so each invariant is about one part only.

| Theorem | Inductive invariant |
| --- | --- |
| `ServicesProofs!TypeCorrect`, `ArrivalOrderKept` | `HeapInv`: the next sequence number is above all in the heap until the last item has arrived |
| `ServicesProofs!QueueImplementsContract` | `HeapInv`, by which the entry that `Ord` puts first is the one that arrived first in the highest lane; each action is then a step of the contract |
| `ServicesProofs!OneLeaseHolder` | `LockInv`: a reply under way promises no more than the key has left, and commands ask for at least what they promise; a lease is then covered by the key, and there is one key |
| `ServicesProofs!SharedStateTrusted` | `SyncInv`: an older state still to be stored means that the last one has overlapped it |
| `ServicesProofs!VerdictsStand` | `VerifierInv`: after a verdict the result is kept, so nothing more is counted, and the verdict computed anew can change only by the age |
| `ServicesProofs!CountersEnd` | `CounterInv`: the property, and that a key has at most one end |
| `ServicesProofs!RateLimited` | `AuthInv`: the count of an open window is of the requests since it began, what came before but not yet a window ago fits in one limit (`OpenWindow`), and nothing is admitted between two windows (`ClosedWindow`) |
| `ServicesProofs!NothingLostSilently` | `TopicInv`: what `send_batch` has still to send is a suffix of the batch and what is before it is in the topic; the consumer's position and the committed offset pass only what it has returned, holds or has given up |
| `ServicesProofs!FaultsAsTold` | `InjectorInv`, `SimulatorInv`: a thread between the two mutexes keeps the first, so nobody gives a condition to the target it found without one |
| `ServicesProofs!ProbesJustified` | `ProbingInv`: what is the case now has been met in every call under way; a call that found the service starting has met that, too. `EndpointInv` is a type |
| `MonitoringProofs!OnlyResetsTake` | `CheckerInv`, `CollectorInv`, `PredictorInv`: the route looked up under the first lock is still there under the second unless a reset fell between; `SpansInv` with `Placed`: every span is in one table or on its way; `ExporterInv`: decisions and latencies differ by the calls between the two exports |
| `MonitoringProofs!StatusOfTheWindow` | `StatusInv`: the counters of a route are those of its window, and a consecutive counter below its threshold is the length of the run at the window's end (`WindowOf`, `Counts`) |
| `MonitoringProofs!LogOfTheNewest` | `AuditInv`: the log is the end of all that was logged (`Whole`), and the entry a thread is about to store is later than those it has stored (`InTime`) |
| `MonitoringProofs!StatsOfTheWindow` | `StatsInv`: the counters are those of the window (`Tallies`), the windows are within their size (`InWindows`), and the EMA lies between the least and the greatest latency so far (`Averages`): an average with a weight between 0 and 1 stays between bounds that can only widen (`AverageStays`). The percentiles are in order because the sorted copy ascends (`SortedAscends`) and interpolation between two places of it rises with the rank (`InterpolationRises`) |
| `MonitoringProofs!PredictionsOfTheSamples` | `PredictInv` with `Judged`: the window has the newest samples (`NewestKept`), and with all samples between `l` and `h` the average `m` stays between them and the variance at most `(h - m)(m - l)` (`Moments`, `VarianceStays`). The bound on the variance alone, `(h - l)^2 / 4`, is not inductive. An upward trend has two samples to show for it because the halves are differences of partial sums (`SumsAdd`): if every later sample were below the threshold, so would be the quotient (`DegradingShows`) |
| `MonitoringProofs!AnswersJustified` | the four together: `StatusInv`, `StatsInv`, `PredictInv`, `AuditInv` |

Every safety invariant and every action property of the passing runs is a theorem. Those
of `surroundings` are proved of the specification of the part they are about, whose
steps are the only ones `SurroundingsNext` has that change it.
Model-checked only are:

- All liveness (`OpenTimesOut`, `Recovery`, `OperationsEnd`, `EventuallyTerminated`,
  `CatchesUp`, `Leaves`), since TLAPS does not reason about fairness and ENABLED here.
- That `Sorted` is what the library's sort gives, an `ASSUME` of `MCMonitoring` that
  TLC evaluates for all sequences up to length 4 over three values. The theorems do
  not use it: they prove of `Sorted` that it ascends and has every sample as often
  as the window has.

Induction over data is done without the library's induction theorems, which take an
operator as a parameter that the provers cannot instantiate. `NatLessThanWellFounded`
and `WFMin` have no such parameter: with them every set of naturals has a least
element (`LeastNatural`), and a set that has 0 and with each number the next has
them all (`InductionTo`). Sets of the indices for which something holds take the
place of the predicate. Where a statement about a sequence only needs to count (how
often a value occurs, which elements a subsequence keeps), the proofs use
`Cardinality` of a set of positions.

## 6. Assumptions and abstractions

- Machine words wrap (`fetch_add`, `fetch_sub` and the release profile's `+ 1` on a
  value just read). The queue's sequence number also wraps in the code; after 2^64
  items without a `clear` the order within a priority would be lost, and
  `PriorityQueue` bounds the items by the modulus for that reason.
- All atomics of the crate are SeqCst, so they are read and written one at a time.
- The collector's window is at least one. A window of zero, which `with_config`
  accepts, makes the first `record_success` panic and poisons the route's mutex.
- The EMA, variance and percentiles of collector and predictor are exact fractions
  where the code has `f64`: the rounding that could put an average a hair outside
  its samples is not modelled. The checker's consecutive counters stop at the
  threshold they are compared with.
- Time is a number of ticks that stops growing where the code no longer
  distinguishes. A timeout of zero is allowed.
- Route tables are those `ConfigValidator` accepts (`ValidConfig`), transactions
  those `TransactionRequest::new` makes (`ValidTransaction`).
  `TransactionRouter::new` itself takes any list; with two routes of one PSP id a
  fallback could be the PSP that was selected.
- The random draw of the weighted strategy is any candidate, including those whose
  probability is tiny. Scores are exact: the rounding of `f64`, which could swap two
  almost equal candidates, is not modelled.
- Breakers handed out by `get_circuit_breaker` are only polled through it; a client
  that forces one from outside is the `Intervene` of `CircuitBreaker`.
- `InFlightExact`, `DrainedStaysQuiet`, `GraceGiven` and `EventuallyTerminated`
  exclude behaviours in which `reset` overlaps other operations. It is a test helper
  made of three stores, and the comments of these properties say what goes wrong
  otherwise.
- The counters that no decision reads (`total_calls`, `state_transitions`, ...),
  latencies, ids, reasons and timestamps are left out.

- The watched file may be written in place by an editor that goes through any number
  of unfinished states within the bound, each of which may load or not and be read at
  any step of the watcher. Consecutive changes may have the same modification time.
  `NothingMissed` and `CatchesUp` are about a file whose time is later than those of
  the earlier contents that loaded and of the file `new` found (`Fresh`): the code
  compares nothing but times. The file exists whenever it is looked at.
- Entries of the audit log are stamped in the order in which they are built and each
  names its thread as actor; the code takes wall-clock milliseconds, which can repeat
  or be set back, and `log_circuit_breaker_change` gives every thread's entries the
  actor `system`. What `LogIsNewest` says of the times and the order of one actor's
  entries does not extend to those.
- All clocks run at one speed, the one of the Redis server included. A command
  that has not reached the server when the connection breaks never does. A client
  trusts its lock from the answer until the time it asked for has passed since it
  sent the command, and never for more after an `extend` that failed.
- A Kafka partition keeps its records in order and loses none; the client library
  commits offsets it has handed out, and only with `enable_auto_commit`.
- Attributes of spans, labels of metrics, baggage, messages of probes and details of
  audit entries are left out, except whether a detail is sensitive.

Not modelled: `security/data_protection.rs` (encryption and masking of strings),
`events/event_types.rs` and the builders of `models/` (data without behaviour),
parsing and serialising (`ConfigLoader`, W3C headers, Prometheus text), the audit
stream of `StateSync` (append and list), `DistributedLock::is_held` and the other
pure getters, `ReadinessChecker::reset_startup` (it needs exclusive access).

## 7. Plan

The order was: breaker (everything else polls or reports to it), router (the
purpose of the crate), backpressure, queue, shutdown, watcher, publisher, the
monitoring objects, then the services around them; then the proofs, invariants
before action properties and refinements. What is left, in order of importance:

1. The audit stream of `StateSync` (append and list), which nothing reads back.
2. The statistics counters of the breaker (`total_calls`, `state_transitions`, ...).
3. `DistributedLock::is_held` and `ReadinessChecker::reset_startup`.
