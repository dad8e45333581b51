---------------------------- MODULE PriorityQueue ----------------------------
(***************************************************************************)
(* PriorityQueue (queue/priority_queue.rs): a binary heap of items ordered *)
(* by priority and, within one, by a sequence number.  Everything happens  *)
(* under one mutex, so each operation is one action; try_dequeue gives up  *)
(* when another thread holds the mutex.                                    *)
(*                                                                         *)
(* The heap is the set of its entries: pop takes a largest one, and which  *)
(* of several equal ones is up to the heap.  An item is the number of its  *)
(* enqueue.  peek, len, is_empty, capacity and count_by_priority write     *)
(* nothing.                                                                *)
(***************************************************************************)
EXTENDS Naturals, SequencesExt

CONSTANTS
  Modulus,     \* u64::MAX + 1
  MaxItems     \* bound on the number of items

ASSUME QueueAssumption == MaxItems \in Nat /\ Modulus \in Nat \ {0} /\ MaxItems <= Modulus

Priorities == 1 .. 4     \* Low, Normal, High, Critical

VARIABLES
  heap,       \* inner.heap: a set of [priority, sequence, item]
  sequence,   \* inner.sequence
  arrived,    \* number of items so far
  answer      \* the items the latest operation has returned; <<0>> for busy

vars == <<heap, sequence, arrived, answer>>

Init ==
  /\ heap = {}
  /\ sequence = 0
  /\ arrived = 0
  /\ answer = <<>>

-----------------------------------------------------------------------------
\* Ord for PriorityItem: a is popped before b.
Before_NewestFirst(a, b) ==    \* slip: the sequence numbers are not reversed
  \/ a.priority > b.priority
  \/ a.priority = b.priority /\ a.sequence > b.sequence

Before(a, b) ==
  \/ a.priority > b.priority
  \/ a.priority = b.priority /\ a.sequence < b.sequence

Tops == {a \in heap : \A b \in heap : ~Before(b, a)}

Enqueue(p) ==
  /\ arrived < MaxItems
  /\ arrived' = arrived + 1
  /\ heap' = heap \cup {[priority |-> p, sequence |-> sequence, item |-> arrived + 1]}
  /\ sequence' = (sequence + 1) % Modulus
  /\ answer' = <<>>

\* dequeue, and try_dequeue when it gets the mutex.
Dequeue ==
  \/ /\ heap = {}
     /\ answer' = <<>>
     /\ UNCHANGED <<heap, sequence, arrived>>
  \/ \E a \in Tops :
       /\ heap' = heap \ {a}
       /\ answer' = <<a.item>>
       /\ UNCHANGED <<sequence, arrived>>

\* try_dequeue while the mutex is taken: None, whatever is in the queue.
TryDequeueBusy ==
  /\ answer' = <<0>>
  /\ UNCHANGED <<heap, sequence, arrived>>

Clear ==
  /\ heap' = {}
  /\ sequence' = 0
  /\ answer' = <<>>
  /\ UNCHANGED arrived

\* drain pops until nothing is left and leaves the sequence number alone.
Drain ==
  /\ \E order \in [1 .. Cardinality(heap) -> heap] :
       /\ ToSet(order) = heap
       /\ \A i, j \in DOMAIN order : i < j => order[i] # order[j] /\ ~Before(order[j], order[i])
       /\ answer' = [i \in DOMAIN order |-> order[i].item]
  /\ heap' = {}
  /\ UNCHANGED <<sequence, arrived>>

Next ==
  \/ \E p \in Priorities : Enqueue(p)
  \/ Dequeue \/ TryDequeueBusy \/ Clear \/ Drain

Spec == Init /\ [][Next]_vars

-----------------------------------------------------------------------------
(* Type correctness. *)
TypeOK ==
  /\ heap \subseteq [priority : Priorities, sequence : 0 .. Modulus - 1, item : 1 .. arrived]
  /\ sequence \in 0 .. Modulus - 1
  /\ arrived \in 0 .. MaxItems

(***************************************************************************)
(* Sequence numbers are in the order of arrival, whatever has been taken   *)
(* out, drained or cleared in between (enqueue, clear, drain).             *)
(***************************************************************************)
ArrivalOrder ==
  \A a, b \in heap : a.item < b.item => a.sequence < b.sequence

(***************************************************************************)
(* The heap implements one first-in-first-out lane per priority:           *)
(* "FIFO Within Priority" and highest priority first (README.md).          *)
(***************************************************************************)
Lane(p) == {a.item : a \in {b \in heap : b.priority = p}}

Contract == INSTANCE PriorityContract WITH lanes <- [p \in Priorities |-> Lane(p)]

ImplementsContract == Contract!Spec
===============================================================================
