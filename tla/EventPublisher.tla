---------------------------- MODULE EventPublisher ----------------------------
(***************************************************************************)
(* BufferedEventPublisher over InMemoryEventPublisher                      *)
(* (events/event_publisher.rs).  The buffer and the inner queue have a     *)
(* mutex each.  publish releases the buffer before it hands a full buffer  *)
(* to the inner publisher, flush keeps it locked: so taking the events out *)
(* of the buffer and delivering them are separate steps.                   *)
(*                                                                         *)
(* Events are numbered in the order in which they reach the publisher.     *)
(* The in-memory queue accepts everything; another inner publisher may     *)
(* refuse a batch, which MaxFailures allows.  pending_count and the        *)
(* getters of the queue write nothing and are not modelled.                *)
(***************************************************************************)
EXTENDS Naturals, SequencesExt

CONSTANTS
  Threads,
  BufferSize,     \* buffer_size
  MaxSize,        \* max_size of the in-memory queue
  MaxEvents,      \* bound on the number of events
  MaxFailures     \* bound on batches the inner publisher refuses

ASSUME PublisherAssumption ==
  /\ BufferSize \in Nat
  /\ MaxSize \in Nat
  /\ MaxEvents \in Nat
  /\ MaxFailures \in Nat

VARIABLES
  buffer,     \* self.buffer
  inner,      \* the queue of the inner publisher
  batch,      \* per thread: the events it has drained
  pc,         \* per thread: "idle", "deliver" (publish) or "flush" (buffer locked)
  published,  \* number of events so far
  failures    \* number of refused batches

(***************************************************************************)
(* History variables, not read by any action:                              *)
(*   evicted   events pushed out of the queue, or cleared                  *)
(*   refused   events of batches that were refused                         *)
(*   loose     events drained by publish, which lets go of the buffer      *)
(*   direct    events of publish_batch, which never were in the buffer     *)
(***************************************************************************)
VARIABLES evicted, refused, loose, direct

history == <<evicted, refused, loose, direct>>
vars == <<buffer, inner, batch, pc, published, failures, history>>

Events == 1 .. MaxEvents

Init ==
  /\ buffer = <<>>
  /\ inner = <<>>
  /\ batch = [t \in Threads |-> <<>>]
  /\ pc = [t \in Threads |-> "idle"]
  /\ published = 0
  /\ failures = 0
  /\ evicted = {}
  /\ refused = {}
  /\ loose = {}
  /\ direct = {}

-----------------------------------------------------------------------------
\* An event that finds the queue at max_size pushes the oldest one out first.
Push(queue, event) ==
  Append(IF Len(queue) >= MaxSize /\ queue # <<>> THEN Tail(queue) ELSE queue, event)

\* PushAll(queue, events)[k]: the queue after the first k events of a batch.
PushAll(queue, events) ==
  LET after[k \in 0 .. Len(events)] ==
        IF k = 0 THEN queue ELSE Push(after[k - 1], events[k])
  IN  after

\* The inner publisher's publish_batch.
Receive(events) ==
  /\ inner' = PushAll(inner, events)[Len(events)]
  /\ evicted' = evicted \cup ((ToSet(inner) \cup ToSet(events)) \ ToSet(inner'))

Refuse(events) ==
  /\ failures < MaxFailures
  /\ failures' = failures + 1
  /\ refused' = refused \cup ToSet(events)

\* The inner publisher answers; the mutex of the queue makes this one step.
Hand(events) ==
  \/ Receive(events) /\ UNCHANGED <<failures, refused>>
  \/ Refuse(events) /\ UNCHANGED <<inner, evicted>>

-----------------------------------------------------------------------------
Unlocked == \A t \in Threads : pc[t] # "flush"

\* The buffer becomes the thread's batch.
Drain_Copy(t, events) ==       \* slip: the events are copied, not drained
  /\ batch' = [batch EXCEPT ![t] = events]
  /\ buffer' = events

Drain(t, events) ==
  /\ batch' = [batch EXCEPT ![t] = events]
  /\ buffer' = <<>>

\* publish, up to the end of the locked region.
Publish_Full(t) ==             \* slip: drains only a buffer that is over-full
  LET events == Append(buffer, published + 1)
  IN  /\ pc[t] = "idle" /\ Unlocked
      /\ published < MaxEvents
      /\ published' = published + 1
      /\ IF Len(events) > BufferSize
         THEN /\ Drain(t, events)
              /\ pc' = [pc EXCEPT ![t] = "deliver"]
              /\ loose' = loose \cup ToSet(events)
         ELSE /\ buffer' = events
              /\ UNCHANGED <<batch, pc, loose>>
      /\ UNCHANGED <<inner, failures, evicted, refused, direct>>

Publish(t) ==
  LET events == Append(buffer, published + 1)
  IN  /\ pc[t] = "idle" /\ Unlocked
      /\ published < MaxEvents
      /\ published' = published + 1
      /\ IF Len(events) >= BufferSize
         THEN /\ Drain(t, events)
              /\ pc' = [pc EXCEPT ![t] = "deliver"]
              /\ loose' = loose \cup ToSet(events)
         ELSE /\ buffer' = events
              /\ UNCHANGED <<batch, pc, loose>>
      /\ UNCHANGED <<inner, failures, evicted, refused, direct>>

\* flush_buffer: the lock is kept until the inner publisher has answered.  With
\* an empty buffer it does nothing.
Flush_Releases(t) ==           \* slip: drops the lock first, as publish does
  /\ pc[t] = "idle" /\ Unlocked
  /\ buffer # <<>>
  /\ Drain(t, buffer)
  /\ pc' = [pc EXCEPT ![t] = "deliver"]
  /\ UNCHANGED <<inner, published, failures, history>>

Flush_FullOnly(t) ==           \* slip: a buffer that is not full is left
  /\ pc[t] = "idle" /\ Unlocked
  /\ Len(buffer) >= BufferSize
  /\ Drain(t, buffer)
  /\ pc' = [pc EXCEPT ![t] = "flush"]
  /\ UNCHANGED <<inner, published, failures, history>>

Flush(t) ==
  /\ pc[t] = "idle" /\ Unlocked
  /\ buffer # <<>>
  /\ Drain(t, buffer)
  /\ pc' = [pc EXCEPT ![t] = "flush"]
  /\ UNCHANGED <<inner, published, failures, history>>

\* Both end when the inner publisher has answered; an error is passed on.
Deliver(t) ==
  /\ pc[t] \in {"deliver", "flush"}
  /\ Hand(batch[t])
  /\ batch' = [batch EXCEPT ![t] = <<>>]
  /\ pc' = [pc EXCEPT ![t] = "idle"]
  /\ UNCHANGED <<buffer, published, loose, direct>>

\* publish_batch goes past the buffer, locked or not.
PublishBatch(t) ==
  /\ pc[t] = "idle"
  /\ \E n \in 1 .. MaxEvents - published :
       LET events == [i \in 1 .. n |-> published + i]
       IN  /\ Hand(events)
           /\ published' = published + n
           /\ direct' = direct \cup ToSet(events)
  /\ UNCHANGED <<buffer, batch, pc, loose>>

\* clear() on a clone of the in-memory queue.
Clear(t) ==
  /\ pc[t] = "idle"
  /\ inner # <<>>
  /\ inner' = <<>>
  /\ evicted' = evicted \cup ToSet(inner)
  /\ UNCHANGED <<buffer, batch, pc, published, failures, refused, loose, direct>>

Next ==
  \E t \in Threads :
    Publish(t) \/ Flush(t) \/ Deliver(t) \/ PublishBatch(t) \/ Clear(t)

\* A thread whose batch is drained goes on; somebody calls flush again.
Fairness ==
  /\ \A t \in Threads : WF_vars(Deliver(t))
  /\ WF_vars(\E t \in Threads : Flush(t))

Spec == Init /\ [][Next]_vars /\ Fairness

-----------------------------------------------------------------------------
(* Type correctness. *)
TypeOK ==
  /\ buffer \in Seq(Events)
  /\ inner \in Seq(Events)
  /\ batch \in [Threads -> Seq(Events)]
  /\ pc \in [Threads -> {"idle", "deliver", "flush"}]
  /\ published \in 0 .. MaxEvents
  /\ failures \in 0 .. MaxFailures

(***************************************************************************)
(* The state is well formed and no event is lost or duplicated: each one   *)
(* published is once in the buffer, in one batch or in the queue, or has   *)
(* been evicted or refused (publish, flush_buffer, publish_batch).         *)
(***************************************************************************)
Drained == UNION {ToSet(batch[t]) : t \in Threads}

Places == <<ToSet(buffer), Drained, ToSet(inner), evicted, refused>>

EachInOnePlace ==
  /\ TypeOK
  /\ UNION {Places[i] : i \in 1 .. 5} = 1 .. published
  /\ \A i, j \in 1 .. 5 : i # j => Places[i] \cap Places[j] = {}
  /\ \A t, u \in Threads : t # u => ToSet(batch[t]) \cap ToSet(batch[u]) = {}
  /\ IsInjective(buffer) /\ IsInjective(inner)
  /\ \A t \in Threads : IsInjective(batch[t])

(***************************************************************************)
(* A buffer of buffer_size events is never left standing, so at most       *)
(* buffer_size - 1 events wait for a flush (publish); and the queue stays  *)
(* within max_size by evicting (but one of size zero holds one event).     *)
(***************************************************************************)
BufferBelowSize ==
  /\ Len(buffer) < (IF BufferSize = 0 THEN 1 ELSE BufferSize)
  /\ Len(inner) <= (IF MaxSize = 0 THEN 1 ELSE MaxSize)

(***************************************************************************)
(* Events arrive out of order only because publish lets go of the buffer   *)
(* before it delivers, or publish_batch goes past it: an event that went   *)
(* through flush is never behind a later one that was buffered.            *)
(***************************************************************************)
FlushKeepsOrder ==
  \A i, j \in DOMAIN inner :
    i < j /\ inner[i] > inner[j] => inner[i] \in direct \/ inner[j] \in loose

(***************************************************************************)
(* With somebody who flushes, no event stays in the buffer or in a batch:  *)
(* a flush under way holds up publish and other flushes, not for ever.     *)
(***************************************************************************)
Leaves ==
  \A e \in Events :
    e \in ToSet(buffer) \cup Drained
      ~> e \in ToSet(inner) \cup evicted \cup refused
===============================================================================
