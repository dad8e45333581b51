--------------------------- MODULE BackpressureProofs ---------------------------
(***************************************************************************)
(* Theorems about Backpressure for every number of threads, every limit    *)
(* and every word size that holds the number of operations.                *)
(***************************************************************************)
EXTENDS Backpressure, FiniteSetTheorems, TLAPS

-----------------------------------------------------------------------------
(* Arithmetic on machine words stays within the word. *)
LEMMA WordType ==
  ASSUME NEW a \in Int
  PROVE  a % Modulus \in 0 .. Modulus - 1
  BY BackpressureAssumption

(* A sum that fits the word is not changed by it. *)
LEMMA WordFits ==
  ASSUME NEW a \in Nat, a < Modulus
  PROVE  a % Modulus = a
  BY BackpressureAssumption

(* fetch_sub takes one off a word that is not zero. *)
LEMMA WordLess ==
  ASSUME NEW a \in 1 .. Modulus - 1
  PROVE  (a + (Modulus - 1)) % Modulus = a - 1
<1>1. Modulus \in Nat /\ Modulus > 0
  BY BackpressureAssumption
<1>2. a - 1 \in 0 .. Modulus - 1 /\ a + (Modulus - 1) = (a - 1) + Modulus
  BY <1>1
<1>3. ((a - 1) + Modulus) % Modulus = a - 1
  BY <1>1, <1>2
<1> QED
  BY <1>2, <1>3

-----------------------------------------------------------------------------
(***************************************************************************)
(* MonitorSpec => []MonitorTypeOK.                                         *)
(***************************************************************************)
LEMMA TypeInit == MonitorInit => MonitorTypeOK
<1> SUFFICES ASSUME MonitorInit PROVE MonitorTypeOK
  OBVIOUS
<1>1. 0 \in 0 .. Modulus - 1 /\ 0 \in 0 .. MaxOps
  BY BackpressureAssumption
<1>2. /\ monitor_pc \in [MonitorThreads -> ProducerSteps \cup ConsumerSteps \cup ResetterSteps]
      /\ \A t \in Producers : monitor_pc[t] \in ProducerSteps
      /\ \A t \in Consumers : monitor_pc[t] \in ConsumerSteps
      /\ \A t \in Resetters : monitor_pc[t] \in ResetterSteps
  BY DEF MonitorInit, MonitorThreads, ProducerSteps, ConsumerSteps, ResetterSteps
<1>3. /\ new_depth \in [Producers -> 0 .. Modulus - 1]
      /\ peak \in [Producers -> 0 .. Modulus - 1]
  BY <1>1 DEF MonitorInit
<1> QED
  BY <1>1, <1>2, <1>3 DEF MonitorInit, MonitorTypeOK

(* The addition of an increment, whoever makes it. *)
LEMMA FetchAddType ==
  ASSUME MonitorTypeOK, NEW t \in Producers, FetchAdd(t)
  PROVE  /\ current_depth' \in 0 .. Modulus - 1
         /\ new_depth' \in [Producers -> 0 .. Modulus - 1]
         /\ highest' \in 0 .. Modulus - 1
<1>1. (current_depth + 1) % Modulus \in 0 .. Modulus - 1
  BY WordType DEF MonitorTypeOK
<1> QED
  BY <1>1 DEF FetchAdd, MonitorTypeOK

LEMMA TypeStep == MonitorTypeOK /\ [MonitorNext]_monitorVars => MonitorTypeOK'
<1> SUFFICES ASSUME MonitorTypeOK, [MonitorNext]_monitorVars PROVE MonitorTypeOK'
  OBVIOUS
<1> USE BackpressureAssumption
    DEF MonitorTypeOK, Goto, Begins, ProducerSteps, ConsumerSteps, ResetterSteps,
        MonitorThreads, counters, monitorHistory
<1>1. ASSUME NEW t \in Producers, TryEnqueue(t) PROVE MonitorTypeOK'
  BY <1>1 DEF TryEnqueue
<1>2. ASSUME NEW t \in Producers, Reject(t) PROVE MonitorTypeOK'
  BY <1>2 DEF Reject
<1>3. ASSUME NEW t \in Producers, Admit(t) PROVE MonitorTypeOK'
  BY <1>3, FetchAddType DEF Admit, FetchAdd
<1>4. ASSUME NEW t \in Producers, Enqueue(t) PROVE MonitorTypeOK'
  BY <1>4, FetchAddType DEF Enqueue, FetchAdd
<1>5. ASSUME NEW t \in Producers, CountEnqueued(t) PROVE MonitorTypeOK'
  BY <1>5 DEF CountEnqueued
<1>6. ASSUME NEW t \in Producers, LoadPeak(t) PROVE MonitorTypeOK'
  BY <1>6 DEF LoadPeak, Compare
<1>7. ASSUME NEW t \in Producers, ExchangePeak(t) PROVE MonitorTypeOK'
  <2>1. CASE peak_depth = peak[t]
    BY <1>7, <2>1 DEF ExchangePeak
  <2>2. CASE peak_depth # peak[t]
    BY <1>7, <2>2 DEF ExchangePeak, Compare
  <2> QED
    BY <2>1, <2>2
<1>8. ASSUME NEW t \in Consumers, Dequeue(t) PROVE MonitorTypeOK'
  BY <1>8 DEF Dequeue
<1>9. ASSUME NEW t \in Consumers, LoadDepth(t) PROVE MonitorTypeOK'
  BY <1>9 DEF LoadDepth
<1>10. ASSUME NEW t \in Consumers, Subtract(t) PROVE MonitorTypeOK'
  <2>1. (current_depth + (Modulus - 1)) % Modulus \in 0 .. Modulus - 1
    BY WordType
  <2> QED
    BY <1>10, <2>1 DEF Subtract
<1>11. ASSUME NEW t \in Resetters, Reset(t) PROVE MonitorTypeOK'
  <2>1. 0 \in 0 .. Modulus - 1
    OBVIOUS
  <2>2. /\ current_depth' \in {current_depth, 0}
        /\ total_enqueued' \in {total_enqueued, 0}
        /\ total_dequeued' \in {total_dequeued, 0}
        /\ total_rejected' \in {total_rejected, 0}
        /\ peak_depth' \in {peak_depth, 0}
        /\ ops' = ops \/ (ops < MaxOps /\ ops' = ops + 1)
        /\ disturbed' \in {disturbed, TRUE}
        /\ UNCHANGED <<new_depth, peak, highest, forced, misses>>
    BY <1>11 DEF Reset
  <2>3. \E step \in ResetterSteps : monitor_pc' = [monitor_pc EXCEPT ![t] = step]
    BY <1>11 DEF Reset
  <2>4. /\ monitor_pc' \in [MonitorThreads -> ProducerSteps \cup ConsumerSteps \cup ResetterSteps]
        /\ \A u \in Producers : monitor_pc'[u] \in ProducerSteps
        /\ \A u \in Consumers : monitor_pc'[u] \in ConsumerSteps
        /\ \A u \in Resetters : monitor_pc'[u] \in ResetterSteps
    BY <1>11, <2>3
  <2>5. /\ current_depth' \in 0 .. Modulus - 1
        /\ total_enqueued' \in Nat
        /\ total_dequeued' \in Nat
        /\ total_rejected' \in Nat
        /\ peak_depth' \in 0 .. Modulus - 1
    BY <2>1, <2>2
  <2>6. ops' \in 0 .. MaxOps
    BY <2>2
  <2>7. /\ new_depth' \in [Producers -> 0 .. Modulus - 1]
        /\ peak' \in [Producers -> 0 .. Modulus - 1]
        /\ highest' \in 0 .. Modulus - 1
        /\ forced' \in Nat
        /\ misses' \in Nat
    BY <2>2
  <2>8. disturbed' \in BOOLEAN
    BY <2>2, Zenon
  <2> QED
    BY <2>4, <2>5, <2>6, <2>7, <2>8
<1>12. CASE UNCHANGED monitorVars
  BY <1>12 DEF monitorVars, local
<1> QED
  BY <1>1, <1>2, <1>3, <1>4, <1>5, <1>6, <1>7, <1>8, <1>9, <1>10, <1>11, <1>12
     DEF MonitorNext, Produce, Consume

(* The depth stays a machine word and every thread at a step of its own      *)
(* operations, for every number of producers, consumers and resetters.       *)
THEOREM TypeCorrect == MonitorSpec => []MonitorTypeOK
  BY TypeInit, TypeStep, PTL DEF MonitorSpec

-----------------------------------------------------------------------------
(***************************************************************************)
(* MonitorSpec => []PeakIsHighest.  A thread about to exchange holds a     *)
(* depth above the peak it has read, and no depth is above the highest: so *)
(* an exchange that succeeds cannot replace the highest by less.           *)
(***************************************************************************)
Updating == {"count", "load_peak", "exchange"}

PeakInv ==
  /\ \A t \in Producers : new_depth[t] <= highest
  /\ \A t \in Producers : monitor_pc[t] = "exchange" => new_depth[t] > peak[t]
  /\ \A t \in Resetters : monitor_pc[t] # "idle" => disturbed
  /\ PeakIsHighest

(* A fetch_add whose result is a new highest makes its thread hold it. *)
LEMMA FetchAddPeak ==
  ASSUME MonitorTypeOK, PeakInv, NEW t \in Producers, FetchAdd(t), monitor_pc[t] \in {"idle", "add"}
  PROVE  PeakInv'
<1> DEFINE d == (current_depth + 1) % Modulus
<1>1. d \in 0 .. Modulus - 1
  BY WordType DEF MonitorTypeOK
<1>2. /\ new_depth' = [new_depth EXCEPT ![t] = d]
      /\ highest' = IF d > highest THEN d ELSE highest
      /\ monitor_pc' = [monitor_pc EXCEPT ![t] = "count"]
      /\ UNCHANGED <<peak_depth, peak, disturbed>>
  BY DEF FetchAdd, Goto
<1> HIDE DEF d
<1>3. /\ monitor_pc \in [MonitorThreads -> ProducerSteps \cup ConsumerSteps \cup ResetterSteps]
      /\ new_depth \in [Producers -> 0 .. Modulus - 1]
      /\ peak \in [Producers -> 0 .. Modulus - 1]
      /\ highest \in Int /\ peak_depth \in Int
      /\ Producers \subseteq MonitorThreads /\ Resetters \subseteq MonitorThreads
      /\ t \notin Resetters
      /\ Modulus \in Nat
  BY BackpressureAssumption DEF MonitorTypeOK, MonitorThreads
<1>4. \A u \in Producers : new_depth'[u] <= highest'
  BY <1>1, <1>2, <1>3 DEF PeakInv
<1>5. \A u \in Producers : monitor_pc'[u] = "exchange" => new_depth'[u] > peak'[u]
  BY <1>2, <1>3 DEF PeakInv
<1>6. \A u \in Resetters : monitor_pc'[u] # "idle" => disturbed'
  BY <1>2, <1>3 DEF PeakInv
<1>7. ASSUME ~disturbed' PROVE peak_depth' <= highest'
  BY <1>1, <1>2, <1>3, <1>7 DEF PeakInv, PeakIsHighest
<1>8. ASSUME ~disturbed'
      PROVE  \/ peak_depth' = highest'
             \/ \E u \in Producers : monitor_pc'[u] \in Updating /\ new_depth'[u] = highest'
  <2>1. CASE d > highest
    BY <1>2, <1>3, <2>1 DEF Updating
  <2>2. CASE ~(d > highest) /\ peak_depth = highest
    BY <1>2, <2>2
  <2>3. CASE ~(d > highest) /\ peak_depth # highest
    <3>1. PICK u \in Producers : monitor_pc[u] \in Updating /\ new_depth[u] = highest
      BY <1>2, <1>8, <2>3 DEF PeakInv, PeakIsHighest, Updating
    <3>2. u # t
      BY <3>1 DEF Updating
    <3> QED
      BY <1>2, <1>3, <2>3, <3>1, <3>2
  <2> QED
    BY <2>1, <2>2, <2>3
<1> QED
  BY <1>4, <1>5, <1>6, <1>7, <1>8 DEF PeakInv, PeakIsHighest, Updating

(* Whatever value of the peak it is compared with: a thread that gives up    *)
(* leaves a peak that is at least its own depth.                             *)
LEMMA ComparePeak ==
  ASSUME MonitorTypeOK, PeakInv, NEW t \in Producers, Compare(t, peak_depth),
         monitor_pc[t] \in Updating,
         UNCHANGED <<peak_depth, new_depth, highest, disturbed>>
  PROVE  PeakInv'
<1>1. /\ monitor_pc \in [MonitorThreads -> ProducerSteps \cup ConsumerSteps \cup ResetterSteps]
      /\ new_depth \in [Producers -> 0 .. Modulus - 1]
      /\ peak \in [Producers -> 0 .. Modulus - 1]
      /\ highest \in Int /\ peak_depth \in Int
      /\ Producers \subseteq MonitorThreads /\ Resetters \subseteq MonitorThreads
      /\ t \notin Resetters
      /\ Modulus \in Nat
  BY BackpressureAssumption DEF MonitorTypeOK, MonitorThreads
<1>2. /\ peak' = [peak EXCEPT ![t] = peak_depth]
      /\ monitor_pc' = [monitor_pc EXCEPT ![t] = IF new_depth[t] > peak_depth THEN "exchange" ELSE "idle"]
  BY DEF Compare, Goto
<1>3. \A u \in Producers : new_depth'[u] <= highest'
  BY DEF PeakInv
<1>4. \A u \in Producers : monitor_pc'[u] = "exchange" => new_depth'[u] > peak'[u]
  BY <1>1, <1>2 DEF PeakInv
<1>5. \A u \in Resetters : monitor_pc'[u] # "idle" => disturbed'
  BY <1>1, <1>2 DEF PeakInv
<1>6. ASSUME ~disturbed'
      PROVE  /\ peak_depth' <= highest'
             /\ \/ peak_depth' = highest'
                \/ \E u \in Producers : monitor_pc'[u] \in Updating /\ new_depth'[u] = highest'
  <2>1. peak_depth <= highest /\ new_depth[t] <= highest
    BY <1>6 DEF PeakInv, PeakIsHighest
  <2>2. CASE peak_depth = highest
    BY <2>1, <2>2
  <2>3. CASE peak_depth # highest
    <3>1. PICK u \in Producers : monitor_pc[u] \in Updating /\ new_depth[u] = highest
      BY <1>6, <2>3 DEF PeakInv, PeakIsHighest, Updating
    <3>2. new_depth[u] > peak_depth
      BY <1>1, <2>1, <2>3, <3>1
    <3>3. monitor_pc'[u] \in Updating
      BY <1>1, <1>2, <3>1, <3>2 DEF Updating
    <3> QED
      BY <2>1, <3>1, <3>3
  <2> QED
    BY <2>2, <2>3
<1> QED
  BY <1>3, <1>4, <1>5, <1>6 DEF PeakInv, PeakIsHighest, Updating

LEMMA PeakStep == MonitorTypeOK /\ PeakInv /\ [MonitorNext]_monitorVars => PeakInv'
<1> SUFFICES ASSUME MonitorTypeOK, PeakInv, [MonitorNext]_monitorVars PROVE PeakInv'
  OBVIOUS
<1>0. /\ monitor_pc \in [MonitorThreads -> ProducerSteps \cup ConsumerSteps \cup ResetterSteps]
      /\ new_depth \in [Producers -> 0 .. Modulus - 1]
      /\ peak \in [Producers -> 0 .. Modulus - 1]
      /\ highest \in Int /\ peak_depth \in Int
      /\ Producers \subseteq MonitorThreads /\ Consumers \subseteq MonitorThreads
      /\ Resetters \subseteq MonitorThreads
      /\ Producers \cap Resetters = {} /\ Consumers \cap Resetters = {}
      /\ Producers \cap Consumers = {}
      /\ Modulus \in Nat
  BY BackpressureAssumption DEF MonitorTypeOK, MonitorThreads
\* A thread that is not updating the peak moves to a step that is neither.
<1>1. ASSUME NEW t \in MonitorThreads \ Resetters, NEW s,
             monitor_pc[t] \notin Updating, s \notin Updating,
             monitor_pc' = [monitor_pc EXCEPT ![t] = s],
             UNCHANGED <<peak_depth, new_depth, peak, highest, disturbed>>
      PROVE  PeakInv'
  BY <1>0, <1>1 DEF PeakInv, PeakIsHighest, Updating
<1>2. ASSUME NEW t \in Producers, TryEnqueue(t) PROVE PeakInv'
  BY <1>0, <1>1, <1>2 DEF TryEnqueue, Begins, Goto, counters, monitorHistory, Updating
<1>3. ASSUME NEW t \in Producers, Reject(t) PROVE PeakInv'
  BY <1>0, <1>1, <1>3 DEF Reject, Goto, monitorHistory, Updating
<1>4. ASSUME NEW t \in Producers, Admit(t) PROVE PeakInv'
  BY <1>4, FetchAddPeak DEF Admit
<1>5. ASSUME NEW t \in Producers, Enqueue(t) PROVE PeakInv'
  BY <1>5, FetchAddPeak DEF Enqueue, Begins
<1>6. ASSUME NEW t \in Producers, CountEnqueued(t) PROVE PeakInv'
  <2>1. /\ monitor_pc[t] = "count" /\ monitor_pc' = [monitor_pc EXCEPT ![t] = "load_peak"]
        /\ UNCHANGED <<peak_depth, new_depth, peak, highest, disturbed>>
    BY <1>6 DEF CountEnqueued, Goto, monitorHistory
  <2>2. \A u \in Producers : monitor_pc[u] \in Updating => monitor_pc'[u] \in Updating
    BY <1>0, <2>1 DEF Updating
  <2>3. \A u \in Producers : monitor_pc'[u] = "exchange" => monitor_pc[u] = "exchange"
    BY <1>0, <2>1
  <2>4. \A u \in Resetters : monitor_pc'[u] = monitor_pc[u]
    BY <1>0, <2>1
  <2> QED
    BY <2>1, <2>2, <2>3, <2>4 DEF PeakInv, PeakIsHighest, Updating
<1>7. ASSUME NEW t \in Producers, LoadPeak(t) PROVE PeakInv'
  BY <1>7, ComparePeak DEF LoadPeak, counters, monitorHistory, Updating
<1>8. ASSUME NEW t \in Producers, ExchangePeak(t) PROVE PeakInv'
  <2>1. monitor_pc[t] = "exchange" /\ UNCHANGED <<new_depth, highest, disturbed>>
    BY <1>8 DEF ExchangePeak, monitorHistory
  <2>2. CASE peak_depth # peak[t]
    BY <1>8, <2>1, <2>2, ComparePeak DEF ExchangePeak, Updating
  <2>3. CASE peak_depth = peak[t]
    <3>1. /\ peak_depth' = new_depth[t]
          /\ monitor_pc' = [monitor_pc EXCEPT ![t] = "idle"]
          /\ UNCHANGED peak
      BY <1>8, <2>3 DEF ExchangePeak, Goto
    <3>2. new_depth[t] > peak_depth /\ new_depth[t] <= highest
      BY <2>1, <2>3 DEF PeakInv
    <3>3. ASSUME ~disturbed
          PROVE  \/ new_depth[t] = highest
                 \/ \E u \in Producers : monitor_pc'[u] \in Updating /\ new_depth[u] = highest
      <4>1. PICK u \in Producers : monitor_pc[u] \in Updating /\ new_depth[u] = highest
        BY <1>0, <3>2, <3>3 DEF PeakInv, PeakIsHighest, Updating
      <4> QED
        BY <1>0, <3>1, <4>1
    <3>4. \A u \in Producers : monitor_pc'[u] = "exchange" => new_depth'[u] > peak'[u]
      BY <1>0, <2>1, <3>1 DEF PeakInv
    <3>5. \A u \in Resetters : monitor_pc'[u] # "idle" => disturbed'
      BY <1>0, <2>1, <3>1 DEF PeakInv
    <3> QED
      BY <2>1, <3>1, <3>2, <3>3, <3>4, <3>5 DEF PeakInv, PeakIsHighest, Updating
  <2> QED
    BY <2>2, <2>3
<1>9. ASSUME NEW t \in Consumers, Dequeue(t) PROVE PeakInv'
  BY <1>0, <1>1, <1>9 DEF Dequeue, Begins, Goto, monitorHistory, Updating
<1>10. ASSUME NEW t \in Consumers, LoadDepth(t) PROVE PeakInv'
  BY <1>0, <1>1, <1>10 DEF LoadDepth, Goto, counters, Updating
<1>11. ASSUME NEW t \in Consumers, Subtract(t) PROVE PeakInv'
  BY <1>0, <1>1, <1>11 DEF Subtract, Goto, monitorHistory, Updating
<1>12. ASSUME NEW t \in Resetters, Reset(t) PROVE PeakInv'
  <2>1. disturbed' /\ UNCHANGED <<new_depth, peak, highest>>
    BY <1>12 DEF Reset, monitorHistory, PeakInv
  <2>2. \E s : monitor_pc' = [monitor_pc EXCEPT ![t] = s]
    BY <1>12 DEF Reset, Goto
  <2>3. \A u \in Producers : monitor_pc'[u] = monitor_pc[u]
    BY <1>0, <1>12, <2>2
  <2> QED
    BY <2>1, <2>3 DEF PeakInv, PeakIsHighest
<1>13. CASE UNCHANGED monitorVars
  BY <1>13 DEF monitorVars, local, counters, monitorHistory, PeakInv, PeakIsHighest
<1> QED
  BY <1>2, <1>3, <1>4, <1>5, <1>6, <1>7, <1>8, <1>9, <1>10, <1>11, <1>12, <1>13
     DEF MonitorNext, Produce, Consume

(* The compare-exchange loop of increment_depth loses no maximum, however    *)
(* many threads race in it: the highest depth is in peak_depth, or with a    *)
(* thread that has not finished.                                             *)
THEOREM PeakNeverLost == MonitorSpec => []PeakIsHighest
<1>1. MonitorInit => PeakInv
  BY DEF MonitorInit, PeakInv, PeakIsHighest, MonitorThreads
<1>2. PeakInv => PeakIsHighest
  BY DEF PeakInv
<1> QED
  BY <1>1, <1>2, PeakStep, TypeCorrect, PTL DEF MonitorSpec

-----------------------------------------------------------------------------
(***************************************************************************)
(* MonitorSpec => []OvershootBounded.  The bound alone is not inductive: a *)
(* subtraction must not wrap, so with one consumer the depth it has seen   *)
(* above zero must still be above zero; and an addition must not wrap, so  *)
(* depth and additions under way together stay below the operations begun. *)
(***************************************************************************)
DepthInv ==
  ~disturbed /\ Cardinality(Consumers) <= 1 =>
    /\ current_depth + Cardinality(At({"add"}))
         < MaxQueueDepth + Cardinality(Producers) + forced
    /\ current_depth + Cardinality(At({"add"})) <= ops
    /\ \A c \in Consumers : monitor_pc[c] = "subtract" => current_depth > 0

(* Only producers add, so there are at most as many additions under way.     *)
LEMMA Adding ==
  ASSUME MonitorTypeOK
  PROVE  /\ At({"add"}) \subseteq Producers
         /\ IsFiniteSet(At({"add"}))
         /\ Cardinality(At({"add"})) \in Nat
         /\ Cardinality(Producers) \in Nat
         /\ Cardinality(At({"add"})) <= Cardinality(Producers)
<1>1. At({"add"}) \subseteq Producers
  BY DEF MonitorTypeOK, At, MonitorThreads, ConsumerSteps, ResetterSteps
<1>2. IsFiniteSet(Producers)
  BY BackpressureAssumption
<1>3. IsFiniteSet(At({"add"})) /\ Cardinality(At({"add"})) <= Cardinality(Producers)
  BY <1>1, <1>2, FS_Subset
<1> QED
  BY <1>1, <1>2, <1>3, FS_CardinalityType

(* A thread that moves between other steps leaves them alone.                *)
LEMMA AddingSame ==
  ASSUME MonitorTypeOK, NEW t \in MonitorThreads, NEW s, s # "add", monitor_pc[t] # "add",
         monitor_pc' = [monitor_pc EXCEPT ![t] = s]
  PROVE  At({"add"})' = At({"add"})
  BY DEF MonitorTypeOK, At

(* One that has loaded a depth below the limit joins them.                   *)
LEMMA AddingJoins ==
  ASSUME MonitorTypeOK, NEW t \in Producers, monitor_pc[t] # "add",
         monitor_pc' = [monitor_pc EXCEPT ![t] = "add"]
  PROVE  /\ Cardinality(At({"add"})') = Cardinality(At({"add"})) + 1
         /\ Cardinality(At({"add"})') <= Cardinality(Producers)
<1>1. At({"add"})' = At({"add"}) \cup {t} /\ t \notin At({"add"})
  BY DEF MonitorTypeOK, At, MonitorThreads
<1>2. At({"add"})' \subseteq Producers
  BY <1>1, Adding
<1>3. IsFiniteSet(Producers)
  BY BackpressureAssumption
<1> QED
  BY <1>1, <1>2, <1>3, Adding, FS_AddElement, FS_Subset

(* One that adds leaves them.                                                *)
LEMMA AddingLeaves ==
  ASSUME MonitorTypeOK, NEW t \in Producers, monitor_pc[t] = "add",
         monitor_pc' = [monitor_pc EXCEPT ![t] = "count"]
  PROVE  Cardinality(At({"add"})') = Cardinality(At({"add"})) - 1
<1>1. At({"add"})' = At({"add"}) \ {t} /\ t \in At({"add"})
  BY DEF MonitorTypeOK, At, MonitorThreads
<1> QED
  BY <1>1, Adding, FS_RemoveElement

(* With at most one consumer no other one is in the middle of a dequeue.     *)
LEMMA OneConsumer ==
  ASSUME Cardinality(Consumers) <= 1, NEW c \in Consumers, NEW d \in Consumers
  PROVE  c = d
<1>1. IsFiniteSet(Consumers)
  BY BackpressureAssumption
<1>2. Cardinality(Consumers) \in Nat
  BY <1>1, FS_CardinalityType
<1>3. Cardinality(Consumers) # 0
  BY <1>1, FS_EmptySet
<1>4. Cardinality(Consumers) = 1
  BY <1>2, <1>3
<1>5. PICK x : Consumers = {x}
  BY <1>1, <1>4, FS_Singleton
<1> QED
  BY <1>5

LEMMA DepthStep == MonitorTypeOK /\ DepthInv /\ [MonitorNext]_monitorVars => DepthInv'
<1> SUFFICES ASSUME MonitorTypeOK, DepthInv, [MonitorNext]_monitorVars,
                    ~disturbed', Cardinality(Consumers) <= 1
             PROVE  /\ current_depth' + Cardinality(At({"add"})')
                         < MaxQueueDepth + Cardinality(Producers) + forced'
                    /\ current_depth' + Cardinality(At({"add"})') <= ops'
                    /\ \A c \in Consumers : monitor_pc'[c] = "subtract" => current_depth' > 0
  BY DEF DepthInv
<1> DEFINE adding == Cardinality(At({"add"}))
           adding2 == Cardinality(At({"add"})')
           limit == MaxQueueDepth + Cardinality(Producers)
           Goal == /\ current_depth' + adding2 < limit + forced'
                   /\ current_depth' + adding2 <= ops'
                   /\ \A c \in Consumers : monitor_pc'[c] = "subtract" => current_depth' > 0
<1>0. /\ monitor_pc \in [MonitorThreads -> ProducerSteps \cup ConsumerSteps \cup ResetterSteps]
      /\ \A c \in Consumers : monitor_pc[c] \in ConsumerSteps
      /\ \A r \in Resetters : monitor_pc[r] \in ResetterSteps
      /\ Producers \subseteq MonitorThreads /\ Consumers \subseteq MonitorThreads
      /\ Resetters \subseteq MonitorThreads
      /\ Producers \cap Consumers = {} /\ Resetters \cap Consumers = {}
      /\ current_depth \in 0 .. Modulus - 1
      /\ ops \in 0 .. MaxOps /\ forced \in Nat
      /\ MaxOps < Modulus /\ Modulus \in Nat /\ MaxOps \in Nat
      /\ MaxQueueDepth \in Nat
      /\ adding \in Nat /\ limit \in Nat
  BY Adding, BackpressureAssumption DEF MonitorTypeOK, MonitorThreads
<1>1. \/ disturbed = disturbed'
      \/ disturbed' = TRUE
  BY DEF MonitorNext, Produce, Consume, TryEnqueue, Reject, Admit, Enqueue, FetchAdd,
         CountEnqueued, LoadPeak, ExchangePeak, Dequeue, LoadDepth, Subtract,
         Reset, monitorHistory, monitorVars
<1>2. ~disturbed
  BY <1>1
<1>3. /\ current_depth + adding < limit + forced
      /\ current_depth + adding <= ops
      /\ \A c \in Consumers : monitor_pc[c] = "subtract" => current_depth > 0
  BY <1>2 DEF DepthInv
<1>4. current_depth + 1 < Modulus \/ adding = 0
  BY <1>0, <1>3
<1> HIDE DEF limit
\* A step that adds nothing, subtracts nothing and is not about to.
<1>5. ASSUME NEW t \in MonitorThreads, NEW s, s \notin {"add", "subtract"}, monitor_pc[t] # "add",
             monitor_pc' = [monitor_pc EXCEPT ![t] = s],
             UNCHANGED <<current_depth, forced>>,
             ops' \in {ops, ops + 1}
      PROVE  Goal
  <2>1. adding2 = adding
    BY <1>5, AddingSame
  <2>2. \A c \in Consumers : monitor_pc'[c] = "subtract" => monitor_pc[c] = "subtract"
    BY <1>0, <1>5
  <2> QED
    BY <1>0, <1>3, <1>5, <2>1, <2>2
<1>6. ASSUME NEW t \in Producers, TryEnqueue(t) PROVE Goal
  <2>1. CASE current_depth >= MaxQueueDepth
    BY <1>0, <1>5, <1>6, <2>1 DEF TryEnqueue, Begins, Goto, counters, monitorHistory
  <2>2. CASE ~(current_depth >= MaxQueueDepth)
    <3>1. /\ monitor_pc[t] = "idle" /\ monitor_pc' = [monitor_pc EXCEPT ![t] = "add"]
          /\ ops' = ops + 1 /\ UNCHANGED <<current_depth, forced>>
      BY <1>6, <2>2 DEF TryEnqueue, Begins, Goto, counters, monitorHistory
    <3>2. adding2 = adding + 1 /\ adding2 <= Cardinality(Producers)
      BY <3>1, AddingJoins
    <3>3. Cardinality(Producers) \in Nat
      BY Adding
    <3>4. current_depth' + adding2 < limit + forced'
      BY <1>0, <2>2, <3>1, <3>2, <3>3 DEF limit
    <3>5. \A c \in Consumers : monitor_pc'[c] = monitor_pc[c]
      BY <1>0, <3>1
    <3> QED
      BY <1>0, <1>3, <3>1, <3>2, <3>4, <3>5
  <2> QED
    BY <2>1, <2>2
<1>7. ASSUME NEW t \in Producers, Reject(t) PROVE Goal
  BY <1>0, <1>5, <1>7 DEF Reject, Goto, monitorHistory
<1>8. ASSUME NEW t \in Producers, Admit(t) PROVE Goal
  <2>1. /\ monitor_pc[t] = "add" /\ monitor_pc' = [monitor_pc EXCEPT ![t] = "count"]
        /\ current_depth' = (current_depth + 1) % Modulus
        /\ ops' = ops /\ forced' = forced
    BY <1>8 DEF Admit, FetchAdd, Goto
  <2>2. adding2 = adding - 1
    BY <2>1, AddingLeaves
  <2>3. adding > 0
    <3>1. t \in At({"add"})
      BY <1>0, <2>1 DEF At
    <3>2. IsFiniteSet(At({"add"})) /\ At({"add"}) # {}
      BY <3>1, Adding
    <3> QED
      BY <1>0, <3>2, FS_EmptySet
  <2>4. current_depth' = current_depth + 1
    BY <1>0, <1>4, <2>1, <2>3, WordFits
  <2>5. \A c \in Consumers : monitor_pc'[c] = monitor_pc[c]
    BY <1>0, <2>1
  <2> QED
    BY <1>0, <1>3, <2>1, <2>2, <2>4, <2>5
<1>9. ASSUME NEW t \in Producers, Enqueue(t) PROVE Goal
  <2>1. /\ monitor_pc[t] = "idle" /\ monitor_pc' = [monitor_pc EXCEPT ![t] = "count"]
        /\ current_depth' = (current_depth + 1) % Modulus
        /\ ops < MaxOps /\ ops' = ops + 1 /\ forced' = forced + 1
    BY <1>9 DEF Enqueue, Begins, FetchAdd, Goto
  <2>2. adding2 = adding
    BY <1>0, <2>1, AddingSame
  <2>3. current_depth' = current_depth + 1
    BY <1>0, <1>3, <2>1, WordFits
  <2>4. \A c \in Consumers : monitor_pc'[c] = monitor_pc[c]
    BY <1>0, <2>1
  <2> QED
    BY <1>0, <1>3, <2>1, <2>2, <2>3, <2>4
<1>10. ASSUME NEW t \in Producers, CountEnqueued(t) PROVE Goal
  BY <1>0, <1>5, <1>10 DEF CountEnqueued, Goto, monitorHistory
<1>11. ASSUME NEW t \in Producers, LoadPeak(t) PROVE Goal
  BY <1>0, <1>5, <1>11 DEF LoadPeak, Compare, Goto, counters, monitorHistory
<1>12. ASSUME NEW t \in Producers, ExchangePeak(t) PROVE Goal
  BY <1>0, <1>5, <1>12 DEF ExchangePeak, Compare, Goto, monitorHistory
<1>13. ASSUME NEW t \in Consumers, Dequeue(t) PROVE Goal
  BY <1>0, <1>5, <1>13 DEF Dequeue, Begins, Goto, monitorHistory
<1>14. ASSUME NEW t \in Consumers, LoadDepth(t) PROVE Goal
  <2>1. CASE current_depth > 0
    <3>1. /\ monitor_pc[t] = "load_depth" /\ monitor_pc' = [monitor_pc EXCEPT ![t] = "subtract"]
          /\ UNCHANGED <<current_depth, ops, forced>>
      BY <1>14, <2>1 DEF LoadDepth, Goto, counters
    <3>2. adding2 = adding
      BY <1>0, <3>1, AddingSame
    <3> QED
      BY <1>0, <1>3, <2>1, <3>1, <3>2
  <2>2. CASE ~(current_depth > 0)
    BY <1>0, <1>5, <1>14, <2>2 DEF LoadDepth, Goto, counters
  <2> QED
    BY <2>1, <2>2
<1>15. ASSUME NEW t \in Consumers, Subtract(t) PROVE Goal
  <2>1. /\ monitor_pc[t] = "subtract" /\ monitor_pc' = [monitor_pc EXCEPT ![t] = "idle"]
        /\ current_depth' = (current_depth + (Modulus - 1)) % Modulus
        /\ UNCHANGED <<ops, forced>>
    BY <1>15 DEF Subtract, Goto, monitorHistory
  <2>2. current_depth' = current_depth - 1
    BY <1>0, <1>3, <2>1, WordLess
  <2>3. adding2 = adding
    BY <1>0, <2>1, AddingSame
  <2>4. \A c \in Consumers : monitor_pc'[c] # "subtract"
    BY <1>0, <2>1, OneConsumer
  <2> QED
    BY <1>0, <1>3, <2>1, <2>2, <2>3, <2>4
<1>16. ASSUME NEW t \in Resetters, Reset(t) PROVE Goal
  <2>1. /\ monitor_pc[t] # "idle"
        /\ UNCHANGED <<current_depth, forced, ops>>
    BY <1>16 DEF Reset, monitorHistory
  <2>2. \E s : s \notin {"add", "subtract"} /\ monitor_pc' = [monitor_pc EXCEPT ![t] = s]
    BY <1>16 DEF Reset, Goto
  <2>3. monitor_pc[t] # "add"
    BY <1>0 DEF ResetterSteps
  <2> QED
    BY <1>0, <1>5, <2>1, <2>2, <2>3
<1>17. ASSUME UNCHANGED monitorVars PROVE Goal
  <2>1. adding2 = adding
    BY <1>17 DEF monitorVars, local, At
  <2> QED
    BY <1>3, <1>17, <2>1 DEF monitorVars, local, counters, monitorHistory
<1>18. Goal
  BY <1>6, <1>7, <1>8, <1>9, <1>10, <1>11, <1>12, <1>13, <1>14, <1>15, <1>16, <1>17
     DEF MonitorNext, Produce, Consume
<1> QED
  BY <1>18 DEF limit

(* However many producers race through try_enqueue, with one consumer the    *)
(* limit is passed by less than their number, and the depth never wraps.     *)
THEOREM OvershootNeverExceeded == MonitorSpec => []OvershootBounded
<1>1. MonitorInit => DepthInv
  <2> SUFFICES ASSUME MonitorInit PROVE DepthInv
    OBVIOUS
  <2>1. At({"add"}) = {}
    BY DEF MonitorInit, At
  <2>2. Cardinality(At({"add"})) = 0
    BY <2>1, FS_EmptySet
  <2>3. IsFiniteSet(Producers) /\ Producers # {} /\ MaxQueueDepth \in Nat
    BY BackpressureAssumption
  <2>4. Cardinality(Producers) \in Nat /\ Cardinality(Producers) # 0
    BY <2>3, FS_CardinalityType, FS_EmptySet
  <2> QED
    BY <2>2, <2>3, <2>4 DEF MonitorInit, DepthInv, MonitorThreads
<1>2. DepthInv => OvershootBounded
  BY DEF DepthInv, OvershootBounded
<1> QED
  BY <1>1, <1>2, DepthStep, TypeCorrect, PTL DEF MonitorSpec

-----------------------------------------------------------------------------
(***************************************************************************)
(* MonitorSpec => []DepthCoversBacklog.  No addition and no subtraction is *)
(* lost: the depth differs by a multiple of Modulus from the balance of    *)
(* the totals, with those that have counted or added but not both, and the *)
(* dequeues that found nothing.  That balance stays below the modulus, so  *)
(* the depth is the balance itself, or the balance is negative.            *)
(***************************************************************************)
LEMMA WordDecomposes ==
  ASSUME NEW a \in Int
  PROVE  /\ a = Modulus * (a \div Modulus) + (a % Modulus)
         /\ a % Modulus \in 0 .. Modulus - 1
         /\ a \div Modulus \in Int
  BY BackpressureAssumption

(* A word is its number up to a multiple of the modulus.                     *)
LEMMA WordWraps ==
  ASSUME NEW a \in Int
  PROVE  \E k \in Int : a % Modulus = a + Modulus * k
<1> DEFINE q == a \div Modulus
           k == 0 - q
<1>1. a = Modulus * q + (a % Modulus) /\ q \in Int /\ Modulus \in Nat /\ a % Modulus \in Int
  BY WordDecomposes, BackpressureAssumption
<1> HIDE DEF q
<1>2. Modulus * k = 0 - Modulus * q /\ k \in Int /\ Modulus * q \in Int
  BY <1>1
<1>3. a % Modulus = a + Modulus * k
  <2> DEFINE x == Modulus * q
             r == a % Modulus
  <2>1. x \in Int /\ r \in Int /\ a = x + r /\ Modulus * k = 0 - x
    BY <1>1, <1>2
  <2> HIDE DEF x, r, k
  <2>2. r = a + Modulus * k
    BY <2>1
  <2> QED
    BY <2>2 DEF r
<1> QED
  BY <1>2, <1>3

(* How many threads are at some steps, when one of them moves.               *)
LEMMA AtMoves ==
  ASSUME MonitorTypeOK, NEW S, IsFiniteSet(At(S)), NEW t \in MonitorThreads, NEW s,
         monitor_pc' = [monitor_pc EXCEPT ![t] = s]
  PROVE  /\ (s \in S <=> monitor_pc[t] \in S) => Cardinality(At(S)') = Cardinality(At(S))
         /\ s \in S /\ monitor_pc[t] \notin S => Cardinality(At(S)') = Cardinality(At(S)) + 1
         /\ s \notin S /\ monitor_pc[t] \in S => Cardinality(At(S)') = Cardinality(At(S)) - 1
<1>1. monitor_pc'[t] = s /\ \A u \in MonitorThreads \ {t} : monitor_pc'[u] = monitor_pc[u]
  BY DEF MonitorTypeOK
<1>2. ASSUME s \in S <=> monitor_pc[t] \in S PROVE At(S)' = At(S)
  BY <1>1, <1>2 DEF At
<1>3. ASSUME s \in S, monitor_pc[t] \notin S
      PROVE  Cardinality(At(S)') = Cardinality(At(S)) + 1
  <2>1. At(S)' = At(S) \cup {t} /\ t \notin At(S)
    BY <1>1, <1>3 DEF At
  <2> QED
    BY <2>1, FS_AddElement
<1>4. ASSUME s \notin S, monitor_pc[t] \in S
      PROVE  Cardinality(At(S)') = Cardinality(At(S)) - 1
  <2>1. At(S)' = At(S) \ {t} /\ t \in At(S)
    BY <1>1, <1>4 DEF At
  <2> QED
    BY <2>1, FS_RemoveElement
<1> QED
  BY <1>2, <1>3, <1>4

Counting == {"count"}
Dequeuing == {"load_depth", "subtract"}

LEMMA FewAt ==
  ASSUME MonitorTypeOK
  PROVE  /\ IsFiniteSet(At(Counting)) /\ Cardinality(At(Counting)) \in Nat
         /\ IsFiniteSet(At(Dequeuing)) /\ Cardinality(At(Dequeuing)) \in Nat
<1>1. At(Counting) \subseteq Producers
  BY DEF MonitorTypeOK, At, MonitorThreads, ConsumerSteps, ResetterSteps, Counting
<1>2. At(Dequeuing) \subseteq Consumers
  BY DEF MonitorTypeOK, At, MonitorThreads, ProducerSteps, ResetterSteps, Dequeuing
<1> QED
  BY <1>1, <1>2, BackpressureAssumption, FS_Subset, FS_CardinalityType

Held == current_depth + total_dequeued
Owed == total_enqueued + Cardinality(At(Counting)) + Cardinality(At(Dequeuing)) + misses

BalanceInv ==
  /\ \A r \in Resetters : monitor_pc[r] # "idle" => disturbed
  /\ ~disturbed => \E k \in Int : Held = Owed + Modulus * k

(* A thread moves: both sides change by the same, up to a multiple.          *)
LEMMA BothSides ==
  ASSUME MonitorTypeOK, BalanceInv, ~disturbed, NEW d \in Int, NEW m \in Int,
         Held' = Held + d + Modulus * m, Owed' = Owed + d
  PROVE  \E k \in Int : Held' = Owed' + Modulus * k
<1>1. PICK k \in Int : Held = Owed + Modulus * k
  BY DEF BalanceInv
<1>2. Modulus \in Nat
  BY BackpressureAssumption
<1>3. Modulus * (k + m) = Modulus * k + Modulus * m /\ k + m \in Int
  BY <1>2
<1>4. Modulus * k \in Int /\ Modulus * m \in Int
  BY <1>2
<1>5. Owed \in Int
  BY FewAt DEF Owed, MonitorTypeOK
<1>6. Held' = Owed' + Modulus * (k + m)
  <2> DEFINE x == Modulus * k
             y == Modulus * m
             z == Modulus * (k + m)
  <2>1. x \in Int /\ y \in Int /\ z = x + y /\ Held = Owed + x /\ Held' = Held + d + y
    BY <1>1, <1>3, <1>4
  <2> HIDE DEF x, y, z
  <2>2. Held' = Owed' + z
    BY <1>5, <2>1
  <2> QED
    BY <2>2 DEF z
<1> QED
  BY <1>3, <1>6

LEMMA BalanceStep ==
  MonitorTypeOK /\ BalanceInv /\ [MonitorNext]_monitorVars => BalanceInv'
<1> SUFFICES ASSUME MonitorTypeOK, BalanceInv, [MonitorNext]_monitorVars PROVE BalanceInv'
  OBVIOUS
<1> DEFINE counting == Cardinality(At(Counting))
           dequeuing == Cardinality(At(Dequeuing))
           Safe == \A r \in Resetters : monitor_pc'[r] # "idle" => disturbed'
           zero == Modulus * 0
<1>0. /\ monitor_pc \in [MonitorThreads -> ProducerSteps \cup ConsumerSteps \cup ResetterSteps]
      /\ Producers \subseteq MonitorThreads /\ Consumers \subseteq MonitorThreads
      /\ Resetters \subseteq MonitorThreads
      /\ Producers \cap Resetters = {} /\ Consumers \cap Resetters = {}
      /\ current_depth \in Nat /\ total_enqueued \in Nat /\ total_dequeued \in Nat
      /\ misses \in Nat /\ Modulus \in Nat
      /\ counting \in Nat /\ dequeuing \in Nat
  BY FewAt, BackpressureAssumption DEF MonitorTypeOK, MonitorThreads
<1>1. zero = 0
  BY <1>0
\* A thread moves from one step to another.
<1>2. ASSUME NEW t \in MonitorThreads \ Resetters, NEW s, monitor_pc' = [monitor_pc EXCEPT ![t] = s]
      PROVE  /\ (s = "count" <=> monitor_pc[t] = "count") => Cardinality(At(Counting)') = counting
             /\ s = "count" /\ monitor_pc[t] # "count"
                  => Cardinality(At(Counting)') = counting + 1
             /\ s # "count" /\ monitor_pc[t] = "count"
                  => Cardinality(At(Counting)') = counting - 1
             /\ (s \in Dequeuing <=> monitor_pc[t] \in Dequeuing)
                  => Cardinality(At(Dequeuing)') = dequeuing
             /\ s \in Dequeuing /\ monitor_pc[t] \notin Dequeuing
                  => Cardinality(At(Dequeuing)') = dequeuing + 1
             /\ s \notin Dequeuing /\ monitor_pc[t] \in Dequeuing
                  => Cardinality(At(Dequeuing)') = dequeuing - 1
             /\ disturbed' = disturbed => Safe
  <2>1. disturbed' = disturbed => Safe
    BY <1>0, <1>2 DEF BalanceInv
  <2>2. \A x : x \in Counting <=> x = "count"
    BY DEF Counting
  <2>3. IsFiniteSet(At(Counting)) /\ IsFiniteSet(At(Dequeuing))
    BY FewAt
  <2>4. /\ (s = "count" <=> monitor_pc[t] = "count") => Cardinality(At(Counting)') = counting
        /\ s = "count" /\ monitor_pc[t] # "count"
             => Cardinality(At(Counting)') = counting + 1
        /\ s # "count" /\ monitor_pc[t] = "count"
             => Cardinality(At(Counting)') = counting - 1
    BY <1>2, <2>2, <2>3, AtMoves
  <2>5. /\ (s \in Dequeuing <=> monitor_pc[t] \in Dequeuing)
             => Cardinality(At(Dequeuing)') = dequeuing
        /\ s \in Dequeuing /\ monitor_pc[t] \notin Dequeuing
             => Cardinality(At(Dequeuing)') = dequeuing + 1
        /\ s \notin Dequeuing /\ monitor_pc[t] \in Dequeuing
             => Cardinality(At(Dequeuing)') = dequeuing - 1
    BY <1>2, <2>3, AtMoves
  <2> QED
    BY <2>1, <2>4, <2>5
<1>d. /\ "load_depth" \in Dequeuing /\ "subtract" \in Dequeuing
      /\ "idle" \notin Dequeuing /\ "add" \notin Dequeuing
      /\ "count" \notin Dequeuing /\ "load_peak" \notin Dequeuing
  BY DEF Dequeuing
<1>t. Producers \subseteq MonitorThreads \ Resetters /\ Consumers \subseteq MonitorThreads \ Resetters
  BY <1>0
<1>n. counting \in Nat /\ dequeuing \in Nat
  BY <1>0
<1> HIDE DEF zero
\* A step that changes neither side.
<1>3. ASSUME NEW t \in MonitorThreads \ Resetters, NEW s,
             s \notin Counting \cup Dequeuing, monitor_pc[t] \notin Counting \cup Dequeuing,
             monitor_pc' = [monitor_pc EXCEPT ![t] = s], disturbed' = disturbed,
             UNCHANGED <<current_depth, total_enqueued, total_dequeued, misses>>
      PROVE  BalanceInv'
  <2>1. /\ Cardinality(At(Counting)') = counting
        /\ Cardinality(At(Dequeuing)') = dequeuing
        /\ Safe
    BY <1>0, <1>2, <1>3 DEF Counting
  <2>2. Held' = Held /\ Owed' = Owed
    BY <1>3, <2>1 DEF Held, Owed
  <2> QED
    BY <1>3, <2>1, <2>2 DEF BalanceInv
\* One that changes both.
<1>4. ASSUME Safe, disturbed' = disturbed, NEW d \in Int, NEW m \in Int,
             Held' = Held + d + Modulus * m, Owed' = Owed + d
      PROVE  BalanceInv'
  BY <1>4, BothSides DEF BalanceInv
<1>5. ASSUME NEW t \in Producers, FetchAdd(t), monitor_pc[t] \in {"idle", "add"} PROVE BalanceInv'
  <2>1. /\ monitor_pc' = [monitor_pc EXCEPT ![t] = "count"]
        /\ current_depth' = (current_depth + 1) % Modulus
        /\ UNCHANGED <<total_enqueued, total_dequeued, misses, disturbed>>
    BY <1>5 DEF FetchAdd, Goto
  <2>2. /\ Cardinality(At(Counting)') = counting + 1
        /\ Cardinality(At(Dequeuing)') = dequeuing
        /\ Safe
    BY <1>2, <1>5, <1>d, <1>n, <1>t, <2>1
  <2>3. PICK m \in Int : current_depth' = current_depth + 1 + Modulus * m
    <3>1. current_depth + 1 \in Int
      BY <1>0
    <3> QED
      BY <2>1, <3>1, WordWraps
  <2>4. Modulus * m \in Int
    BY <1>0
  <2>5. Owed' = Owed + 1
    BY <1>0, <2>1, <2>2 DEF Owed
  <2>6. Held' = Held + 1 + Modulus * m
    BY <1>0, <2>1, <2>3, <2>4 DEF Held
  <2> QED
    BY <1>4, <2>1, <2>2, <2>5, <2>6
<1>6. ASSUME NEW t \in Producers, CountEnqueued(t) PROVE BalanceInv'
  <2>1. /\ monitor_pc[t] = "count" /\ monitor_pc' = [monitor_pc EXCEPT ![t] = "load_peak"]
        /\ total_enqueued' = total_enqueued + 1
        /\ UNCHANGED <<current_depth, total_dequeued, misses, disturbed>>
    BY <1>6 DEF CountEnqueued, Goto, monitorHistory
  <2>2. /\ Cardinality(At(Counting)') = counting - 1
        /\ Cardinality(At(Dequeuing)') = dequeuing
        /\ Safe
    <3>1. t \in MonitorThreads \ Resetters
      BY <1>t
    <3> HIDE DEF counting, dequeuing, Safe
    <3>2. Safe
      BY <1>2, <2>1, <3>1
    <3>3. Cardinality(At(Dequeuing)') = dequeuing
      BY <1>2, <1>d, <2>1, <3>1
    <3>4. "load_peak" # "count" /\ monitor_pc[t] = "count"
      BY <2>1
    <3>5. Cardinality(At(Counting)') = counting - 1
      BY <1>2, <2>1, <3>1, <3>4
    <3> QED
      BY <3>2, <3>3, <3>5
  <2>3. Owed' = Owed /\ Held' = Held
    BY <1>0, <2>1, <2>2 DEF Owed, Held
  <2> QED
    BY <2>1, <2>2, <2>3 DEF BalanceInv
<1>7. ASSUME NEW t \in Consumers, Dequeue(t) PROVE BalanceInv'
  <2>1. /\ monitor_pc[t] = "idle" /\ monitor_pc' = [monitor_pc EXCEPT ![t] = "load_depth"]
        /\ total_dequeued' = total_dequeued + 1
        /\ UNCHANGED <<current_depth, total_enqueued, misses, disturbed>>
    BY <1>7 DEF Dequeue, Begins, Goto, monitorHistory
  <2>2. /\ Cardinality(At(Counting)') = counting
        /\ Cardinality(At(Dequeuing)') = dequeuing + 1
        /\ Safe
    BY <1>2, <1>d, <1>n, <1>t, <2>1
  <2>3. Owed' = Owed + 1
    BY <1>0, <2>1, <2>2 DEF Owed
  <2>4. Held' = Held + 1 + zero
    BY <1>0, <1>1, <2>1 DEF Held
  <2> QED
    BY <1>4, <2>1, <2>2, <2>3, <2>4 DEF zero
<1>8. ASSUME NEW t \in Consumers, LoadDepth(t) PROVE BalanceInv'
  <2>1. /\ monitor_pc[t] = "load_depth"
        /\ UNCHANGED <<current_depth, total_enqueued, total_dequeued, disturbed>>
    BY <1>8 DEF LoadDepth, counters
  <2>2. CASE current_depth > 0
    <3>1. monitor_pc' = [monitor_pc EXCEPT ![t] = "subtract"] /\ misses' = misses
      BY <1>8, <2>2 DEF LoadDepth, Goto
    <3>2. /\ Cardinality(At(Counting)') = counting
          /\ Cardinality(At(Dequeuing)') = dequeuing
          /\ Safe
      BY <1>2, <1>d, <1>n, <1>t, <2>1, <3>1
    <3>3. Owed' = Owed /\ Held' = Held
      BY <2>1, <3>1, <3>2 DEF Owed, Held
    <3> QED
      BY <2>1, <3>2, <3>3 DEF BalanceInv
  <2>3. CASE ~(current_depth > 0)
    <3>1. monitor_pc' = [monitor_pc EXCEPT ![t] = "idle"] /\ misses' = misses + 1
      BY <1>8, <2>3 DEF LoadDepth, Goto
    <3>2. /\ Cardinality(At(Counting)') = counting
          /\ Cardinality(At(Dequeuing)') = dequeuing - 1
          /\ Safe
      <4>1. t \in MonitorThreads \ Resetters
        BY <1>t
      <4> HIDE DEF counting, dequeuing, Safe
      <4>2. Safe
        BY <1>2, <2>1, <3>1, <4>1
      <4>3. "idle" # "count" /\ monitor_pc[t] # "count"
        BY <2>1
      <4>4. Cardinality(At(Counting)') = counting
        BY <1>2, <2>1, <3>1, <4>1, <4>3
      <4>5. Cardinality(At(Dequeuing)') = dequeuing - 1
        BY <1>2, <1>d, <2>1, <3>1, <4>1
      <4> QED
        BY <4>2, <4>4, <4>5
    <3>3. Owed' = Owed /\ Held' = Held
      BY <1>0, <2>1, <3>1, <3>2 DEF Owed, Held
    <3> QED
      BY <2>1, <3>2, <3>3 DEF BalanceInv
  <2> QED
    BY <2>2, <2>3
<1>9. ASSUME NEW t \in Consumers, Subtract(t) PROVE BalanceInv'
  <2> DEFINE less == current_depth + (Modulus - 1)
  <2>1. /\ monitor_pc[t] = "subtract" /\ monitor_pc' = [monitor_pc EXCEPT ![t] = "idle"]
        /\ current_depth' = less % Modulus
        /\ UNCHANGED <<total_enqueued, total_dequeued, misses, disturbed>>
    BY <1>9 DEF Subtract, Goto, monitorHistory
  <2>2. /\ Cardinality(At(Counting)') = counting
        /\ Cardinality(At(Dequeuing)') = dequeuing - 1
        /\ Safe
    <3>1. t \in MonitorThreads \ Resetters
      BY <1>t
    <3> HIDE DEF counting, dequeuing, Safe
    <3>2. Safe
      BY <1>2, <2>1, <3>1
    <3>3. "idle" # "count" /\ monitor_pc[t] # "count"
      BY <2>1
    <3>4. Cardinality(At(Counting)') = counting
      BY <1>2, <2>1, <3>1, <3>3
    <3>5. Cardinality(At(Dequeuing)') = dequeuing - 1
      BY <1>2, <1>d, <2>1, <3>1
    <3> QED
      BY <3>2, <3>4, <3>5
  <2>3. less \in Int
    BY <1>0
  <2>4. PICK h \in Int : current_depth' = less + Modulus * h
    BY <2>1, <2>3, WordWraps
  <2>5. Modulus * (h + 1) = Modulus * h + Modulus /\ h + 1 \in Int /\ Modulus * h \in Int
    BY <1>0
  <2>6. current_depth' = current_depth - 1 + Modulus * (h + 1)
    BY <1>0, <2>4, <2>5
  <2>7. Modulus * (h + 1) \in Int
    BY <1>0
  <2>8. Owed' = Owed + (-1)
    BY <1>0, <2>1, <2>2 DEF Owed
  <2>9. Held' = Held + (-1) + Modulus * (h + 1)
    BY <1>0, <2>1, <2>6, <2>7 DEF Held
  <2> QED
    BY <1>4, <2>1, <2>2, <2>5, <2>8, <2>9
<1>10. ASSUME NEW t \in Producers,
              TryEnqueue(t) \/ Reject(t) \/ LoadPeak(t) \/ ExchangePeak(t)
       PROVE  BalanceInv'
  <2>1. \E s : s \notin Counting \cup Dequeuing /\ monitor_pc' = [monitor_pc EXCEPT ![t] = s]
    BY <1>10 DEF TryEnqueue, Reject, LoadPeak, ExchangePeak, Compare, Goto, Counting, Dequeuing
  <2>2. monitor_pc[t] \notin Counting \cup Dequeuing
    BY <1>10 DEF TryEnqueue, Begins, Reject, LoadPeak, ExchangePeak, Counting, Dequeuing
  <2>3. /\ disturbed' = disturbed
        /\ UNCHANGED <<current_depth, total_enqueued, total_dequeued, misses>>
    BY <1>10 DEF TryEnqueue, Reject, LoadPeak, ExchangePeak, counters, monitorHistory
  <2> QED
    BY <1>0, <1>3, <2>1, <2>2, <2>3
<1>11. ASSUME NEW t \in Producers, Admit(t) \/ Enqueue(t) PROVE BalanceInv'
  BY <1>5, <1>11 DEF Admit, Enqueue, Begins
<1>12. ASSUME NEW t \in Resetters, Reset(t) PROVE BalanceInv'
  BY <1>12 DEF Reset, monitorHistory, BalanceInv
<1>13. CASE UNCHANGED monitorVars
  BY <1>13 DEF monitorVars, local, counters, monitorHistory, BalanceInv, Held, Owed, At
<1> QED
  BY <1>6, <1>7, <1>8, <1>9, <1>10, <1>11, <1>12, <1>13 DEF MonitorNext, Produce, Consume

Adds == {"add"}

(***************************************************************************)
(* A dequeue in progress, or that missed, has been counted; an enqueue in  *)
(* progress belongs to an operation that has begun.                        *)
(***************************************************************************)
OpsInv ==
  ~disturbed =>
    /\ Cardinality(At(Dequeuing)) + misses <= total_dequeued
    /\ total_enqueued + Cardinality(At(Counting)) + Cardinality(At(Adds)) <= ops

LEMMA OpsStep == MonitorTypeOK /\ BalanceInv /\ OpsInv /\ [MonitorNext]_monitorVars => OpsInv'
<1> SUFFICES ASSUME MonitorTypeOK, BalanceInv, OpsInv, [MonitorNext]_monitorVars, ~disturbed'
             PROVE  /\ Cardinality(At(Dequeuing)') + misses' <= total_dequeued'
                    /\ total_enqueued' + Cardinality(At(Counting)')
                         + Cardinality(At(Adds)') <= ops'
  BY DEF OpsInv
<1> DEFINE adding == Cardinality(At(Adds))
           counting == Cardinality(At(Counting))
           dequeuing == Cardinality(At(Dequeuing))
           adding2 == Cardinality(At(Adds)')
           counting2 == Cardinality(At(Counting)')
           dequeuing2 == Cardinality(At(Dequeuing)')
           Goal == /\ dequeuing2 + misses' <= total_dequeued'
                   /\ total_enqueued' + counting2 + adding2 <= ops'
<1>0. /\ adding \in Nat /\ counting \in Nat /\ dequeuing \in Nat
      /\ total_enqueued \in Nat /\ total_dequeued \in Nat /\ misses \in Nat /\ ops \in Nat
      /\ Producers \subseteq MonitorThreads /\ Consumers \subseteq MonitorThreads /\ Resetters \subseteq MonitorThreads
  BY FewAt, Adding, BackpressureAssumption DEF MonitorTypeOK, Adds, MonitorThreads
<1>1. disturbed = disturbed' \/ disturbed'
  BY DEF MonitorNext, Produce, Consume, TryEnqueue, Reject, Admit, Enqueue, FetchAdd,
         CountEnqueued, LoadPeak, ExchangePeak, Dequeue, LoadDepth, Subtract,
         Reset, monitorHistory, monitorVars
<1>2. dequeuing + misses <= total_dequeued /\ total_enqueued + counting + adding <= ops
  BY <1>1 DEF OpsInv
\* How many threads are where, when one of them moves.
<1>a. ASSUME NEW t \in MonitorThreads, NEW s, monitor_pc' = [monitor_pc EXCEPT ![t] = s]
      PROVE  /\ (s \in Adds <=> monitor_pc[t] \in Adds) => adding2 = adding
             /\ s \in Adds /\ monitor_pc[t] \notin Adds => adding2 = adding + 1
             /\ s \notin Adds /\ monitor_pc[t] \in Adds => adding2 = adding - 1
  BY <1>a, Adding, AtMoves DEF Adds
<1>c. ASSUME NEW t \in MonitorThreads, NEW s, monitor_pc' = [monitor_pc EXCEPT ![t] = s]
      PROVE  /\ (s \in Counting <=> monitor_pc[t] \in Counting) => counting2 = counting
             /\ s \in Counting /\ monitor_pc[t] \notin Counting => counting2 = counting + 1
             /\ s \notin Counting /\ monitor_pc[t] \in Counting => counting2 = counting - 1
  BY <1>c, FewAt, AtMoves
<1>q. ASSUME NEW t \in MonitorThreads, NEW s, monitor_pc' = [monitor_pc EXCEPT ![t] = s]
      PROVE  /\ (s \in Dequeuing <=> monitor_pc[t] \in Dequeuing) => dequeuing2 = dequeuing
             /\ s \in Dequeuing /\ monitor_pc[t] \notin Dequeuing => dequeuing2 = dequeuing + 1
             /\ s \notin Dequeuing /\ monitor_pc[t] \in Dequeuing => dequeuing2 = dequeuing - 1
  BY <1>q, FewAt, AtMoves
<1>d. /\ "add" \in Adds /\ "count" \in Counting
      /\ "load_depth" \in Dequeuing /\ "subtract" \in Dequeuing
      /\ \A s \in {"idle", "reject", "load_peak", "exchange", "add"} :
           s \notin Counting \cup Dequeuing
      /\ \A s \in {"idle", "reject", "load_peak", "exchange", "count"} :
           s \notin Adds \cup Dequeuing
      /\ \A s \in {"load_depth", "subtract"} : s \notin Adds \cup Counting
  BY DEF Adds, Counting, Dequeuing
<1>t. Producers \subseteq MonitorThreads /\ Consumers \subseteq MonitorThreads
  BY <1>0
<1> HIDE DEF adding, counting, dequeuing, adding2, counting2, dequeuing2
\* A move that neither adds, counts nor dequeues, and leaves the totals alone.
<1>4. ASSUME NEW t \in MonitorThreads, NEW s, monitor_pc' = [monitor_pc EXCEPT ![t] = s],
             s \notin {"add", "count", "load_depth", "subtract"},
             monitor_pc[t] \notin {"add", "count", "load_depth", "subtract"},
             UNCHANGED <<total_enqueued, total_dequeued, misses>>,
             ops' \in {ops, ops + 1}
      PROVE  Goal
  <2>1. /\ s \notin Adds \cup Counting \cup Dequeuing
        /\ monitor_pc[t] \notin Adds \cup Counting \cup Dequeuing
    BY <1>4 DEF Adds, Counting, Dequeuing
  <2>2. adding2 = adding /\ counting2 = counting /\ dequeuing2 = dequeuing
    BY <1>a, <1>c, <1>q, <1>4, <2>1
  <2> QED
    BY <1>0, <1>2, <1>4, <2>2
<1>5. ASSUME NEW t \in Producers, TryEnqueue(t) PROVE Goal
  <2>1. /\ monitor_pc[t] = "idle" /\ ops' = ops + 1
        /\ UNCHANGED <<total_enqueued, total_dequeued, misses>>
    BY <1>5 DEF TryEnqueue, Begins, counters, monitorHistory
  <2>2. CASE monitor_pc' = [monitor_pc EXCEPT ![t] = "add"]
    <3>1. adding2 = adding + 1 /\ counting2 = counting /\ dequeuing2 = dequeuing
      <4>1. adding2 = adding + 1
        BY <1>t, <1>a, <1>d, <2>1, <2>2
      <4>2. counting2 = counting
        BY <1>t, <1>c, <1>d, <2>1, <2>2
      <4>3. dequeuing2 = dequeuing
        BY <1>t, <1>q, <1>d, <2>1, <2>2
      <4> QED
        BY <4>1, <4>2, <4>3
    <3> QED
      BY <1>0, <1>2, <2>1, <3>1
  <2>3. CASE monitor_pc' = [monitor_pc EXCEPT ![t] = "reject"]
    BY <1>0, <1>4, <2>1, <2>3
  <2> QED
    BY <1>5, <2>2, <2>3 DEF TryEnqueue, Goto
<1>6. ASSUME NEW t \in Producers, Admit(t) \/ Enqueue(t) PROVE Goal
  <2>1. /\ monitor_pc' = [monitor_pc EXCEPT ![t] = "count"]
        /\ UNCHANGED <<total_enqueued, total_dequeued, misses>>
    BY <1>6 DEF Admit, Enqueue, FetchAdd, Goto
  <2>2. \/ monitor_pc[t] = "add" /\ ops' = ops
        \/ monitor_pc[t] = "idle" /\ ops' = ops + 1
    BY <1>6 DEF Admit, Enqueue, Begins
  <2>3. /\ counting2 = counting + 1 /\ dequeuing2 = dequeuing
        /\ monitor_pc[t] = "add" => adding2 = adding - 1
        /\ monitor_pc[t] = "idle" => adding2 = adding
    <3>1. counting2 = counting + 1
      BY <1>t, <1>c, <1>d, <2>1, <2>2
    <3>2. dequeuing2 = dequeuing
      BY <1>t, <1>q, <1>d, <2>1, <2>2
    <3>3. monitor_pc[t] = "add" => adding2 = adding - 1
      BY <1>t, <1>a, <1>d, <2>1, <2>2
    <3>4. monitor_pc[t] = "idle" => adding2 = adding
      BY <1>t, <1>a, <1>d, <2>1, <2>2
    <3> QED
      BY <3>1, <3>2, <3>3, <3>4
  <2> QED
    BY <1>0, <1>2, <2>1, <2>2, <2>3
<1>7. ASSUME NEW t \in Producers, CountEnqueued(t) PROVE Goal
  <2>1. /\ monitor_pc[t] = "count" /\ monitor_pc' = [monitor_pc EXCEPT ![t] = "load_peak"]
        /\ total_enqueued' = total_enqueued + 1
        /\ UNCHANGED <<total_dequeued, misses, ops>>
    BY <1>7 DEF CountEnqueued, Goto, monitorHistory
  <2>2. adding2 = adding /\ counting2 = counting - 1 /\ dequeuing2 = dequeuing
    <3>1. adding2 = adding
      BY <1>t, <1>a, <1>d, <2>1
    <3>2. counting2 = counting - 1
      BY <1>t, <1>c, <1>d, <2>1
    <3>3. dequeuing2 = dequeuing
      BY <1>t, <1>q, <1>d, <2>1
    <3> QED
      BY <3>1, <3>2, <3>3
  <2> QED
    BY <1>0, <1>2, <2>1, <2>2
<1>8. ASSUME NEW t \in Producers, Reject(t) \/ LoadPeak(t) \/ ExchangePeak(t) PROVE Goal
  <2>1. \E s \in {"idle", "exchange"} : monitor_pc' = [monitor_pc EXCEPT ![t] = s]
    <3>1. monitor_pc = [monitor_pc EXCEPT ![t] = monitor_pc[t]]
      BY DEF MonitorTypeOK
    <3> QED
      BY <1>8, <3>1 DEF Reject, LoadPeak, ExchangePeak, Compare, Goto
  <2>2. /\ monitor_pc[t] \in {"reject", "load_peak", "exchange"}
        /\ UNCHANGED <<total_enqueued, total_dequeued, misses, ops>>
    BY <1>8 DEF Reject, LoadPeak, ExchangePeak, counters, monitorHistory
  <2> QED
    BY <1>0, <1>4, <2>1, <2>2
<1>9. ASSUME NEW t \in Consumers, Dequeue(t) PROVE Goal
  <2>1. /\ monitor_pc[t] = "idle" /\ monitor_pc' = [monitor_pc EXCEPT ![t] = "load_depth"]
        /\ total_dequeued' = total_dequeued + 1 /\ ops' = ops + 1
        /\ UNCHANGED <<total_enqueued, misses>>
    BY <1>9 DEF Dequeue, Begins, Goto, monitorHistory
  <2>2. adding2 = adding /\ counting2 = counting /\ dequeuing2 = dequeuing + 1
    <3>1. adding2 = adding
      BY <1>t, <1>a, <1>d, <2>1
    <3>2. counting2 = counting
      BY <1>t, <1>c, <1>d, <2>1
    <3>3. dequeuing2 = dequeuing + 1
      BY <1>t, <1>q, <1>d, <2>1
    <3> QED
      BY <3>1, <3>2, <3>3
  <2> QED
    BY <1>0, <1>2, <2>1, <2>2
<1>10. ASSUME NEW t \in Consumers, LoadDepth(t) PROVE Goal
  <2>1. /\ monitor_pc[t] = "load_depth"
        /\ UNCHANGED <<total_enqueued, total_dequeued, ops>>
    BY <1>10 DEF LoadDepth, counters
  <2>2. CASE current_depth > 0
    <3>1. monitor_pc' = [monitor_pc EXCEPT ![t] = "subtract"] /\ misses' = misses
      BY <1>10, <2>2 DEF LoadDepth, Goto
    <3>2. adding2 = adding /\ counting2 = counting /\ dequeuing2 = dequeuing
      <4>1. adding2 = adding
        BY <1>t, <1>a, <1>d, <2>1, <3>1
      <4>2. counting2 = counting
        BY <1>t, <1>c, <1>d, <2>1, <3>1
      <4>3. dequeuing2 = dequeuing
        BY <1>t, <1>q, <1>d, <2>1, <3>1
      <4> QED
        BY <4>1, <4>2, <4>3
    <3> QED
      BY <1>0, <1>2, <2>1, <3>1, <3>2
  <2>3. CASE ~(current_depth > 0)
    <3>1. monitor_pc' = [monitor_pc EXCEPT ![t] = "idle"] /\ misses' = misses + 1
      BY <1>10, <2>3 DEF LoadDepth, Goto
    <3>2. adding2 = adding /\ counting2 = counting /\ dequeuing2 = dequeuing - 1
      <4>1. adding2 = adding
        BY <1>t, <1>a, <1>d, <2>1, <3>1
      <4>2. counting2 = counting
        BY <1>t, <1>c, <1>d, <2>1, <3>1
      <4>3. dequeuing2 = dequeuing - 1
        BY <1>t, <1>q, <1>d, <2>1, <3>1
      <4> QED
        BY <4>1, <4>2, <4>3
    <3> QED
      BY <1>0, <1>2, <2>1, <3>1, <3>2
  <2> QED
    BY <2>2, <2>3
<1>11. ASSUME NEW t \in Consumers, Subtract(t) PROVE Goal
  <2>1. /\ monitor_pc[t] = "subtract" /\ monitor_pc' = [monitor_pc EXCEPT ![t] = "idle"]
        /\ UNCHANGED <<total_enqueued, total_dequeued, misses, ops>>
    BY <1>11 DEF Subtract, Goto, monitorHistory
  <2>2. adding2 = adding /\ counting2 = counting /\ dequeuing2 = dequeuing - 1
    <3>1. adding2 = adding
      BY <1>t, <1>a, <1>d, <2>1
    <3>2. counting2 = counting
      BY <1>t, <1>c, <1>d, <2>1
    <3>3. dequeuing2 = dequeuing - 1
      BY <1>t, <1>q, <1>d, <2>1
    <3> QED
      BY <3>1, <3>2, <3>3
  <2> QED
    BY <1>0, <1>2, <2>1, <2>2
<1>12. ASSUME NEW t \in Resetters, Reset(t) PROVE Goal
  BY <1>12 DEF Reset, monitorHistory, BalanceInv
<1>13. ASSUME UNCHANGED monitorVars PROVE Goal
  <2>1. adding2 = adding /\ counting2 = counting /\ dequeuing2 = dequeuing
    BY <1>13 DEF monitorVars, local, At, adding, counting, dequeuing, adding2, counting2, dequeuing2
  <2> QED
    BY <1>2, <1>13, <2>1 DEF monitorVars, counters, monitorHistory
<1> QED
  BY <1>5, <1>6, <1>7, <1>8, <1>9, <1>10, <1>11, <1>12, <1>13
     DEF MonitorNext, Produce, Consume, adding2, counting2, dequeuing2

(* However operations of any number of threads interleave, and even when the *)
(* depth wraps, it is never below the requests enqueued and not dequeued.    *)
THEOREM BacklogCovered == MonitorSpec => []DepthCoversBacklog
<1>1. MonitorInit => BalanceInv /\ OpsInv
  <2> SUFFICES ASSUME MonitorInit PROVE BalanceInv /\ OpsInv
    OBVIOUS
  <2>1. At(Counting) = {} /\ At(Dequeuing) = {} /\ At(Adds) = {}
    BY DEF MonitorInit, At, Counting, Dequeuing, Adds
  <2>2. Held = 0 /\ Owed = 0
    BY <2>1, FS_EmptySet DEF MonitorInit, Held, Owed
  <2>3. Held = Owed + Modulus * 0
    BY <2>2, BackpressureAssumption
  <2>4. OpsInv
    BY <2>1, FS_EmptySet DEF MonitorInit, OpsInv
  <2> QED
    BY <2>3, <2>4 DEF MonitorInit, BalanceInv, MonitorThreads
<1>2. MonitorTypeOK /\ BalanceInv /\ OpsInv => DepthCoversBacklog
  <2> SUFFICES ASSUME MonitorTypeOK, BalanceInv, OpsInv, ~disturbed
               PROVE  current_depth >= total_enqueued - total_dequeued
    BY DEF DepthCoversBacklog
  <2>1. PICK k \in Int : Held = Owed + Modulus * k
    BY DEF BalanceInv
  <2> DEFINE balance == Owed - total_dequeued
             wraps == Modulus * k
  <2>2. /\ Cardinality(At(Counting)) \in Nat /\ Cardinality(At(Dequeuing)) \in Nat
        /\ Cardinality(At(Adds)) \in Nat
        /\ current_depth \in 0 .. Modulus - 1
        /\ total_enqueued \in Nat /\ total_dequeued \in Nat /\ misses \in Nat
        /\ ops \in 0 .. MaxOps /\ MaxOps < Modulus /\ MaxOps \in Nat /\ Modulus \in Nat
        /\ wraps \in Int
    BY FewAt, Adding, BackpressureAssumption DEF MonitorTypeOK, Adds
  <2>3. balance \in Int /\ balance < Modulus /\ balance >= total_enqueued - total_dequeued
    BY <2>2 DEF OpsInv, Owed
  <2>4. current_depth = balance + wraps
    BY <2>1, <2>2, <2>3 DEF Held, Owed
  <2>5. wraps >= 0
    <3>1. CASE k >= 0
      BY <2>2, <3>1
    <3>2. CASE k <= -1
      <4>1. -1 - k \in Nat
        BY <3>2
      <4>2. PICK j \in Nat : k = -1 - j
        <5> WITNESS -1 - k \in Nat
        <5> QED
          OBVIOUS
      <4>3. Modulus * j >= 0 /\ wraps = -Modulus - Modulus * j
        BY <2>2, <4>2
      <4>4. wraps <= -Modulus
        BY <2>2, <4>3
      <4> HIDE DEF balance, wraps
      <4> QED
        BY <2>2, <2>3, <2>4, <4>4
    <3> QED
      BY <3>1, <3>2
  <2> HIDE DEF balance, wraps
  <2> QED
    BY <2>2, <2>3, <2>4, <2>5
<1> QED
  BY <1>1, <1>2, BalanceStep, OpsStep, TypeCorrect, PTL DEF MonitorSpec
===============================================================================
