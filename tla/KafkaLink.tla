-------------------------------- MODULE KafkaLink --------------------------------
(***************************************************************************)
(* KafkaProducer and KafkaConsumer (events/kafka_producer.rs,              *)
(* events/kafka_consumer.rs) at the two ends of one partition.  send_batch *)
(* sends the events of a batch one after the other and stops at the first  *)
(* that fails; an event whose delivery fails may have been stored none the *)
(* less.  poll_batch gathers events until it has enough or its time is     *)
(* over, and gives up what it has gathered on any other error.  The        *)
(* library commits the offset it has reached now and then, if auto commit  *)
(* is enabled, and resumes there when the consumer starts again.           *)
(*                                                                         *)
(* Abstractions.  Events are numbered.  A caller of send_batch that gets an *)
(* error sends the same batch again or goes on to the next.  The timeout   *)
(* of poll_batch may pass at any moment.                                   *)
(***************************************************************************)
EXTENDS Naturals, SequencesExt

CONSTANTS
  BatchSize,       \* events that send_batch gets
  MaxEvents,       \* bound on the events
  MaxRecords,      \* bound on the records
  MaxCount         \* max_count of poll_batch

VARIABLES
  enable_auto_commit,   \* config.enable_auto_commit; it never changes
  records,         \* of the partition: events, and what others have put there
  batch,           \* the events of the current or last send_batch
  unsent,          \* those it is still to send; the first is under way
  acked,           \* history: the events of the batches that send_batch accepted
  position,        \* of the consumer: how many records it has received
  committed,       \* ... and how many are committed
  events,          \* of poll_batch: the offsets it has gathered
  returned,        \* history: the offsets poll_batch has returned
  dropped          \* history: the offsets an error or a stop has made poll_batch give up

vars == <<enable_auto_commit, records, batch, unsent, acked,
          position, committed, events, returned, dropped>>

\* Records that are no events: one that cannot be read and one without a payload.
Unreadable == 0
Empty == MaxEvents + 1

Init ==
  /\ enable_auto_commit \in BOOLEAN
  /\ records = <<>> /\ batch = <<>> /\ unsent = <<>> /\ acked = {}
  /\ position = 0 /\ committed = 0
  /\ events = <<>> /\ returned = {} /\ dropped = {}

-----------------------------------------------------------------------------
\* send_batch of the next events, or, after an error, of the same.
SendBatch ==
  /\ unsent = <<>>
  /\ LET last == IF batch = <<>> THEN 0 ELSE Last(batch)
         next == [i \in 1 .. BatchSize |-> last + i]
     IN  \/ last + BatchSize <= MaxEvents /\ batch' = next
         \/ batch # <<>> /\ ~(ToSet(batch) \subseteq acked) /\ UNCHANGED batch
  /\ unsent' = batch'
  /\ UNCHANGED <<enable_auto_commit, records, acked, position, committed, events, returned, dropped>>

\* send, which delivers the event ...
Deliver ==
  /\ unsent # <<>> /\ Len(records) < MaxRecords
  /\ records' = Append(records, Head(unsent))
  /\ unsent' = Tail(unsent)
  /\ acked' = IF Len(unsent) = 1 THEN acked \cup ToSet(batch) ELSE acked
  /\ UNCHANGED <<enable_auto_commit, batch, position, committed, events, returned, dropped>>

\* ... or reports that it could not, whether or not the broker has it; send_batch stops.
Fail ==
  /\ unsent # <<>>
  /\ \/ UNCHANGED records
     \/ Len(records) < MaxRecords /\ records' = Append(records, Head(unsent))
  /\ unsent' = <<>>
  /\ UNCHANGED <<enable_auto_commit, batch, acked, position, committed, events, returned, dropped>>

\* Another producer.
PutOther ==
  /\ Len(records) < MaxRecords
  /\ \E other \in {Unreadable, Empty} : records' = Append(records, other)
  /\ UNCHANGED <<enable_auto_commit, batch, unsent, acked, position, committed, events, returned, dropped>>

-----------------------------------------------------------------------------
\* poll, in the loop of poll_batch: an event is gathered, an empty record skipped.
Poll ==
  /\ Len(events) < MaxCount /\ position < Len(records)
  /\ records[position + 1] # Unreadable
  /\ position' = position + 1
  /\ events' = IF records[position'] = Empty THEN events ELSE Append(events, position')
  /\ UNCHANGED <<enable_auto_commit, records, batch, unsent, acked, committed, returned, dropped>>

\* DeserializationError or ConsumerError: poll_batch returns the error only.
PollFails ==
  /\ Len(events) < MaxCount
  /\ \/ /\ position < Len(records) /\ records[position + 1] = Unreadable
        /\ position' = position + 1
        /\ dropped' = dropped \cup ToSet(events) \cup {position'}
     \/ UNCHANGED position /\ dropped' = dropped \cup ToSet(events)
  /\ events' = <<>>
  /\ UNCHANGED <<enable_auto_commit, records, batch, unsent, acked, committed, returned>>

\* poll_batch has max_count events, or its time is over, and returns them.
Answered_Full == IF Len(events) = MaxCount THEN ToSet(events) ELSE {}   \* slip: a timeout is an error

Answered == ToSet(events)

Return ==
  /\ events # <<>>
  /\ returned' = returned \cup Answered
  /\ events' = <<>>
  /\ UNCHANGED <<enable_auto_commit, records, batch, unsent, acked, position, committed, dropped>>

\* The library commits by itself; nothing in the code does.
Commit ==
  /\ enable_auto_commit /\ committed # position
  /\ committed' = position
  /\ UNCHANGED <<enable_auto_commit, records, batch, unsent, acked, position, events, returned, dropped>>

\* The consumer stops, perhaps within poll_batch, and another starts (auto_offset_reset "earliest").
Restart ==
  /\ position' = committed
  /\ dropped' = dropped \cup ToSet(events)
  /\ events' = <<>>
  /\ UNCHANGED <<enable_auto_commit, records, batch, unsent, acked, committed, returned>>

Next ==
  \/ SendBatch \/ Deliver \/ Fail \/ PutOther
  \/ Poll \/ PollFails \/ Return \/ Commit \/ Restart

-----------------------------------------------------------------------------
Sent(event) == \E i \in DOMAIN records : records[i] = event

(***************************************************************************)
(* What send_batch accepts is there, though perhaps twice, and of a batch  *)
(* that fails a prefix may be; and a record the consumer has passed was    *)
(* returned, is about to be, carried nothing, or was given up with an      *)
(* error or a stop, of which poll_batch does not tell which events it      *)
(* had: with auto commit those never come again (send_batch, poll_batch).  *)
(***************************************************************************)
NoSilentLoss ==
  /\ \A e \in acked : Sent(e)
  /\ \A i, j \in DOMAIN batch : i < j /\ Sent(batch[j]) => Sent(batch[i])
  /\ committed <= position
  /\ \A i \in 1 .. position :
       i \in returned \cup ToSet(events) \cup dropped \/ records[i] = Empty
===============================================================================
