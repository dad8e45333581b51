----------------------------- MODULE Backpressure -----------------------------
(***************************************************************************)
(* BackpressureMonitor (backpressure/monitor.rs): five SeqCst atomics and  *)
(* no lock.  Every atomic load, store or read-modify-write is one action,  *)
(* so the operations of different threads interleave between any two.      *)
(*                                                                         *)
(* current_depth is an unsigned machine word: adding and subtracting wrap  *)
(* modulo Modulus (2^64).  The totals only grow with the operations, which *)
(* MaxOps bounds below the modulus.  utilization, status, rejection_rate   *)
(* and the other getters compute from single loads and write nothing; they *)
(* are not modelled.                                                       *)
(***************************************************************************)
EXTENDS Integers, FiniteSets

CONSTANTS
  Producers,       \* threads that call try_enqueue and enqueue
  Consumers,       \* threads that call dequeue
  Resetters,       \* threads that call reset
  MaxQueueDepth,   \* config.max_queue_depth
  Modulus,         \* usize::MAX + 1
  MaxOps           \* bound on the number of operations

ASSUME BackpressureAssumption ==
  /\ IsFiniteSet(Producers) /\ Producers # {}
  /\ IsFiniteSet(Consumers)
  /\ Producers \cap Consumers = {}
  /\ (Producers \cup Consumers) \cap Resetters = {}
  /\ MaxQueueDepth \in Nat
  /\ Modulus \in Nat
  /\ MaxOps \in Nat
  /\ MaxOps < Modulus

MonitorThreads == Producers \cup Consumers \cup Resetters

VARIABLES
  current_depth,
  total_enqueued,
  total_dequeued,
  total_rejected,
  peak_depth,
  monitor_pc,  \* per thread: the atomic operation it does next, or "idle"
  new_depth,   \* per thread: local variable of increment_depth
  peak,        \* per thread: local variable of increment_depth
  ops          \* number of operations begun

(***************************************************************************)
(* History variables, not read by any action:                              *)
(*   highest    the largest value an increment has given current_depth     *)
(*   forced     increments made by enqueue(), which has no limit           *)
(*   misses     dequeues that found the depth zero                         *)
(*   disturbed  a reset has begun                                          *)
(***************************************************************************)
VARIABLES highest, forced, misses, disturbed

counters == <<current_depth, total_enqueued, total_dequeued, total_rejected, peak_depth>>
local == <<monitor_pc, new_depth, peak>>
monitorHistory == <<highest, forced, misses, disturbed>>
monitorVars == <<counters, local, ops, monitorHistory>>

MonitorInit ==
  /\ current_depth = 0
  /\ total_enqueued = 0
  /\ total_dequeued = 0
  /\ total_rejected = 0
  /\ peak_depth = 0
  /\ monitor_pc = [t \in MonitorThreads |-> "idle"]
  /\ new_depth = [t \in Producers |-> 0]
  /\ peak = [t \in Producers |-> 0]
  /\ ops = 0
  /\ highest = 0
  /\ forced = 0
  /\ misses = 0
  /\ disturbed = FALSE

-----------------------------------------------------------------------------
Goto(t, step) == monitor_pc' = [monitor_pc EXCEPT ![t] = step]

\* A thread that is idle begins an operation.
Begins(t) ==
  /\ monitor_pc[t] = "idle"
  /\ ops < MaxOps
  /\ ops' = ops + 1

\* try_enqueue: the load of current_depth decides, what follows comes later.
TryEnqueue_Inclusive(t) ==     \* slip: one more is let in when it is full
  /\ Begins(t)
  /\ Goto(t, IF current_depth > MaxQueueDepth THEN "reject" ELSE "add")
  /\ UNCHANGED <<counters, new_depth, peak, monitorHistory>>

TryEnqueue(t) ==
  /\ Begins(t)
  /\ Goto(t, IF current_depth >= MaxQueueDepth THEN "reject" ELSE "add")
  /\ UNCHANGED <<counters, new_depth, peak, monitorHistory>>

Reject_Counted(t) ==           \* slip: every attempt counts as enqueued
  /\ monitor_pc[t] = "reject"
  /\ total_rejected' = total_rejected + 1
  /\ total_enqueued' = total_enqueued + 1
  /\ Goto(t, "idle")
  /\ UNCHANGED <<current_depth, total_dequeued, peak_depth, new_depth, peak,
                 ops, monitorHistory>>

Reject(t) ==
  /\ monitor_pc[t] = "reject"
  /\ total_rejected' = total_rejected + 1
  /\ Goto(t, "idle")
  /\ UNCHANGED <<current_depth, total_enqueued, total_dequeued, peak_depth,
                 new_depth, peak, ops, monitorHistory>>

\* increment_depth: the fetch_add, whose result is the thread's new_depth.
FetchAdd(t) ==
  LET d == (current_depth + 1) % Modulus
  IN  /\ current_depth' = d
      /\ new_depth' = [new_depth EXCEPT ![t] = d]
      /\ highest' = IF d > highest THEN d ELSE highest
      /\ Goto(t, "count")
      /\ UNCHANGED <<total_enqueued, total_dequeued, total_rejected, peak_depth,
                     peak, misses, disturbed>>

\* try_enqueue after a load below the limit.
Admit(t) == monitor_pc[t] = "add" /\ FetchAdd(t) /\ UNCHANGED <<ops, forced>>

\* enqueue(): increment_depth without looking at the depth.
Enqueue(t) == Begins(t) /\ FetchAdd(t) /\ forced' = forced + 1

CountEnqueued(t) ==
  /\ monitor_pc[t] = "count"
  /\ total_enqueued' = total_enqueued + 1
  /\ Goto(t, "load_peak")
  /\ UNCHANGED <<current_depth, total_dequeued, total_rejected, peak_depth,
                 new_depth, peak, ops, monitorHistory>>

\* The value read is compared at once: the loop goes on or increment_depth ends.
Compare(t, read) ==
  /\ peak' = [peak EXCEPT ![t] = read]
  /\ Goto(t, IF new_depth[t] > read THEN "exchange" ELSE "idle")

LoadPeak(t) ==
  /\ monitor_pc[t] = "load_peak"
  /\ Compare(t, peak_depth)
  /\ UNCHANGED <<counters, new_depth, ops, monitorHistory>>

\* compare_exchange: a failure gives the value to go on with.
ExchangePeak_Stale(t) ==       \* slip: a failure keeps the old expectation
  /\ monitor_pc[t] = "exchange"
  /\ IF peak_depth = peak[t]
     THEN peak_depth' = new_depth[t] /\ Goto(t, "idle")
     ELSE UNCHANGED <<peak_depth, monitor_pc>>
  /\ UNCHANGED <<current_depth, total_enqueued, total_dequeued, total_rejected,
                 new_depth, peak, ops, monitorHistory>>

ExchangePeak_Store(t) ==       \* slip: a plain store after the comparison
  /\ monitor_pc[t] = "exchange"
  /\ peak_depth' = new_depth[t]
  /\ Goto(t, "idle")
  /\ UNCHANGED <<current_depth, total_enqueued, total_dequeued, total_rejected,
                 new_depth, peak, ops, monitorHistory>>

ExchangePeak(t) ==
  /\ monitor_pc[t] = "exchange"
  /\ IF peak_depth = peak[t]
     THEN peak_depth' = new_depth[t] /\ Goto(t, "idle") /\ UNCHANGED peak
     ELSE Compare(t, peak_depth) /\ UNCHANGED peak_depth
  /\ UNCHANGED <<current_depth, total_enqueued, total_dequeued, total_rejected,
                 new_depth, ops, monitorHistory>>

\* dequeue, decrement_depth: the total is counted before the depth is looked at.
Dequeue(t) ==
  /\ Begins(t)
  /\ total_dequeued' = total_dequeued + 1
  /\ Goto(t, "load_depth")
  /\ UNCHANGED <<current_depth, total_enqueued, total_rejected, peak_depth,
                 new_depth, peak, monitorHistory>>

LoadDepth(t) ==
  /\ monitor_pc[t] = "load_depth"
  /\ Goto(t, IF current_depth > 0 THEN "subtract" ELSE "idle")
  /\ misses' = IF current_depth > 0 THEN misses ELSE misses + 1
  /\ UNCHANGED <<counters, new_depth, peak, ops, highest, forced, disturbed>>

\* fetch_sub wraps below zero.
Subtract(t) ==
  /\ monitor_pc[t] = "subtract"
  /\ current_depth' = (current_depth + (Modulus - 1)) % Modulus
  /\ Goto(t, "idle")
  /\ UNCHANGED <<total_enqueued, total_dequeued, total_rejected, peak_depth,
                 new_depth, peak, ops, monitorHistory>>

\* reset: five stores, one after the other.
Reset(t) ==
  \/ /\ Begins(t)
     /\ current_depth' = 0
     /\ disturbed' = TRUE
     /\ Goto(t, "reset_enqueued")
     /\ UNCHANGED <<total_enqueued, total_dequeued, total_rejected, peak_depth,
                    new_depth, peak, highest, forced, misses>>
  \/ /\ monitor_pc[t] = "reset_enqueued"
     /\ total_enqueued' = 0
     /\ Goto(t, "reset_dequeued")
     /\ UNCHANGED <<current_depth, total_dequeued, total_rejected, peak_depth,
                    new_depth, peak, ops, monitorHistory>>
  \/ /\ monitor_pc[t] = "reset_dequeued"
     /\ total_dequeued' = 0
     /\ Goto(t, "reset_rejected")
     /\ UNCHANGED <<current_depth, total_enqueued, total_rejected, peak_depth,
                    new_depth, peak, ops, monitorHistory>>
  \/ /\ monitor_pc[t] = "reset_rejected"
     /\ total_rejected' = 0
     /\ Goto(t, "reset_peak")
     /\ UNCHANGED <<current_depth, total_enqueued, total_dequeued, peak_depth,
                    new_depth, peak, ops, monitorHistory>>
  \/ /\ monitor_pc[t] = "reset_peak"
     /\ peak_depth' = 0
     /\ Goto(t, "idle")
     /\ UNCHANGED <<current_depth, total_enqueued, total_dequeued, total_rejected,
                    new_depth, peak, ops, monitorHistory>>

Produce(t) ==
  \/ TryEnqueue(t)
  \/ Reject(t)
  \/ Admit(t)
  \/ Enqueue(t)
  \/ CountEnqueued(t)
  \/ LoadPeak(t)
  \/ ExchangePeak(t)

Consume(t) == Dequeue(t) \/ LoadDepth(t) \/ Subtract(t)

MonitorNext ==
  \/ \E t \in Producers : Produce(t)
  \/ \E t \in Consumers : Consume(t)
  \/ \E t \in Resetters : Reset(t)

\* A thread in the middle of an operation is scheduled again.
MonitorFairness ==
  /\ \A t \in Producers : WF_monitorVars(monitor_pc[t] # "idle" /\ Produce(t))
  /\ \A t \in Consumers : WF_monitorVars(monitor_pc[t] # "idle" /\ Consume(t))
  /\ \A t \in Resetters : WF_monitorVars(monitor_pc[t] # "idle" /\ Reset(t))

MonitorSpec == MonitorInit /\ [][MonitorNext]_monitorVars /\ MonitorFairness

-----------------------------------------------------------------------------
ProducerSteps == {"idle", "reject", "add", "count", "load_peak", "exchange"}
ConsumerSteps == {"idle", "load_depth", "subtract"}
ResetterSteps ==
  {"idle", "reset_enqueued", "reset_dequeued", "reset_rejected", "reset_peak"}

(* Type correctness: in particular the depth stays a machine word and no   *)
(* thread is at a step that its operation does not have.                   *)
MonitorTypeOK ==
  /\ current_depth \in 0 .. Modulus - 1
  /\ total_enqueued \in Nat
  /\ total_dequeued \in Nat
  /\ total_rejected \in Nat
  /\ peak_depth \in 0 .. Modulus - 1
  /\ monitor_pc \in [MonitorThreads -> ProducerSteps \cup ConsumerSteps \cup ResetterSteps]
  /\ \A t \in Producers : monitor_pc[t] \in ProducerSteps
  /\ \A t \in Consumers : monitor_pc[t] \in ConsumerSteps
  /\ \A t \in Resetters : monitor_pc[t] \in ResetterSteps
  /\ new_depth \in [Producers -> 0 .. Modulus - 1]
  /\ peak \in [Producers -> 0 .. Modulus - 1]
  /\ ops \in 0 .. MaxOps
  /\ highest \in 0 .. Modulus - 1
  /\ forced \in Nat
  /\ misses \in Nat
  /\ disturbed \in BOOLEAN

At(steps) == {t \in MonitorThreads : monitor_pc[t] \in steps}

(***************************************************************************)
(* How far the limit can be exceeded: try_enqueue checks and adds in two   *)
(* steps, so with one consumer the depth can pass max_queue_depth, by at   *)
(* most one less than the number of producers (and by what enqueue added). *)
(* In particular it never wraps.  With two consumers it can: both can load *)
(* a depth of one, and both subtract.                                      *)
(***************************************************************************)
OvershootBounded ==
  ~disturbed /\ Cardinality(Consumers) <= 1 =>
    current_depth + Cardinality(At({"add"}))
      < MaxQueueDepth + Cardinality(Producers) + forced

(***************************************************************************)
(* The depth never falls short of the backlog, the enqueues counted less   *)
(* the dequeues counted, between any two atomic operations of any number   *)
(* of threads: an enqueue adds before it counts, a dequeue counts before   *)
(* it subtracts (increment_depth, decrement_depth).  So whoever loads the  *)
(* depth never takes for room what is still queued, not even after a wrap. *)
(* That it is no more than the backlog is not true: see BalancedIsEmpty.   *)
(***************************************************************************)
DepthCoversBacklog ==
  ~disturbed => current_depth >= total_enqueued - total_dequeued

(***************************************************************************)
(* The compare-exchange loop loses no maximum: once no increment is under  *)
(* way peak_depth is the highest depth there has been, and before that a   *)
(* thread still holds it.                                                  *)
(***************************************************************************)
PeakIsHighest ==
  ~disturbed =>
    /\ peak_depth <= highest
    /\ \/ peak_depth = highest
       \/ \E t \in Producers : /\ monitor_pc[t] \in {"count", "load_peak", "exchange"}
                               /\ new_depth[t] = highest

(***************************************************************************)
(* Every operation ends, whatever the other threads do: a failed exchange  *)
(* means that the peak has grown (increment_depth has a loop).             *)
(***************************************************************************)
OperationsEnd == \A t \in MonitorThreads : monitor_pc[t] # "idle" ~> monitor_pc[t] = "idle"

(***************************************************************************)
(* Requests admitted by try_enqueue alone never exceed the configured      *)
(* limit (integration_backpressure.rs, test_concurrent_try_enqueue: after  *)
(* 20 threads the depth is exactly max_queue_depth).                       *)
(***************************************************************************)
DepthWithinLimit == forced = 0 => current_depth <= MaxQueueDepth

(***************************************************************************)
(* As many dequeues as enqueues leave a depth of zero, whatever their      *)
(* order (integration_backpressure.rs, test_mixed_concurrent_operations,   *)
(* asserts it of 10 and 10 threads, and test_concurrent_enqueue_dequeue of *)
(* monitor.rs of 5 and 5).  decrement_depth counts a dequeue also if it    *)
(* finds nothing to take.                                                  *)
(***************************************************************************)
BalancedIsEmpty ==
  /\ ~disturbed
  /\ \A t \in MonitorThreads : monitor_pc[t] = "idle"
  /\ total_enqueued = total_dequeued
  => current_depth = 0
===============================================================================
