-------------------------------- MODULE Tracer --------------------------------
(***************************************************************************)
(* Tracer (telemetry/tracer.rs) with the SpanContext values it passes      *)
(* around (telemetry/span_context.rs).  Two mutexes guard the spans that   *)
(* are active and those that have ended; end_span takes the first and then *)
(* the second, clear the second and then the first, and each keeps both    *)
(* until it returns.  Every other operation is one critical section.  The  *)
(* opposite orders are in the model as in the code: once a thread is       *)
(* between the two locks of each, both wait for ever, and so does whoever  *)
(* calls the tracer after them.                                            *)
(*                                                                         *)
(* Abstractions.  Span ids count up (in the code they are random and       *)
(* unique), so the list of active spans, to which each is pushed when it   *)
(* starts, is the set of them: its last one has the largest id.  The id of *)
(* a root span names its trace.  Times, attributes, events, statuses and   *)
(* baggage are left out.                                                   *)
(***************************************************************************)
EXTENDS Naturals, SequencesExt

CONSTANTS
  Threads,
  MaxSpans       \* bound on the spans that are started

VARIABLES
  started,       \* number of spans started so far
  active_spans,  \* self.active_spans; ids are given in order
  spans,         \* self.spans: for each trace id it has, its ended spans
  active_lock,   \* the threads that hold the mutex of active_spans: at most one
  spans_lock,    \* ... and of spans
  task,          \* per thread: "idle", or the call that waits for its second lock
  owned,         \* per thread: the spans it may use or end (clones, once current_span gave them)
  ending,        \* per thread: the spans its end_span is moving: at most one
  cleared        \* history: the ids that a clear has removed

vars == <<started, active_spans, spans, active_lock, spans_lock, task, owned, ending, cleared>>

Init ==
  /\ started = 0
  /\ active_spans = {}
  /\ spans = [i \in {} |-> <<>>]
  /\ active_lock = {} /\ spans_lock = {}
  /\ task = [t \in Threads |-> "idle"]
  /\ owned = [t \in Threads |-> {}]
  /\ ending = [t \in Threads |-> {}]
  /\ cleared = {}

-----------------------------------------------------------------------------
\* SpanContext::new and child: a root starts a trace, a child joins its parent's.
Root(i) == [span_id |-> i, trace_id |-> i, parent_span_id |-> 0, ended |-> FALSE]

Child(parent, i) == [Root(i) EXCEPT !.trace_id = parent.trace_id, !.parent_span_id = parent.span_id]

\* start_span, start_child_span.
StartSpan(t) ==
  /\ task[t] = "idle" /\ active_lock = {} /\ started < MaxSpans
  /\ started' = started + 1
  /\ \E span \in {Root(started')} \cup {Child(p, started') : p \in owned[t]} :
       /\ active_spans' = active_spans \cup {span}
       /\ owned' = [owned EXCEPT ![t] = @ \cup {span}]
  /\ UNCHANGED <<spans, active_lock, spans_lock, task, ending, cleared>>

\* current_span: the last span that anybody started, as a clone.
CurrentSpan(t) ==
  /\ task[t] = "idle" /\ active_lock = {}
  /\ \E last \in active_spans :
       /\ \A s \in active_spans : s.span_id <= last.span_id
       /\ owned' = [owned EXCEPT ![t] = @ \cup {last}]
  /\ UNCHANGED <<started, active_spans, spans, active_lock, spans_lock, task, ending, cleared>>

\* end_span consumes its span, but not the clones of it.
EndSpan(t) ==
  /\ task[t] = "idle" /\ active_lock = {}
  /\ \E span \in owned[t] :
       /\ active_spans' = {s \in active_spans : s.span_id # span.span_id}
       /\ ending' = [ending EXCEPT ![t] = {[span EXCEPT !.ended = TRUE]}]
       /\ owned' = [owned EXCEPT ![t] = @ \ {span}]
  /\ active_lock' = {t}
  /\ task' = [task EXCEPT ![t] = "end_span"]
  /\ UNCHANGED <<started, spans, spans_lock, cleared>>

\* What an operation gives back when it returns.
Release(t) ==
  /\ task' = [task EXCEPT ![t] = "idle"]
  /\ active_lock' = active_lock \ {t}
  /\ spans_lock' = spans_lock \ {t}

EndSpanStore(t) ==
  /\ task[t] = "end_span" /\ spans_lock = {}
  /\ \E span \in ending[t] :
       spans' = [i \in DOMAIN spans \cup {span.trace_id} |->
                   IF i # span.trace_id THEN spans[i]
                   ELSE Append(IF i \in DOMAIN spans THEN spans[i] ELSE <<>>, span)]
  /\ ending' = [ending EXCEPT ![t] = {}]
  /\ Release(t)
  /\ UNCHANGED <<started, active_spans, owned, cleared>>

Clear(t) ==
  /\ task[t] = "idle" /\ spans_lock = {}
  /\ spans' = [i \in {} |-> <<>>]
  /\ cleared' = cleared \cup {s.span_id : s \in UNION {ToSet(spans[i]) : i \in DOMAIN spans}}
  /\ spans_lock' = {t}
  /\ task' = [task EXCEPT ![t] = "clear"]
  /\ UNCHANGED <<started, active_spans, active_lock, owned, ending>>

ClearActive(t) ==
  /\ task[t] = "clear" /\ active_lock = {}
  /\ active_spans' = {}
  /\ cleared' = cleared \cup {s.span_id : s \in active_spans}
  /\ Release(t)
  /\ UNCHANGED <<started, spans, owned, ending>>

Next == \E t \in Threads :
  StartSpan(t) \/ CurrentSpan(t) \/ EndSpan(t) \/ EndSpanStore(t) \/ Clear(t) \/ ClearActive(t)

-----------------------------------------------------------------------------
Ids(S) == {s.span_id : s \in S}
Ended == UNION {ToSet(spans[i]) : i \in DOMAIN spans}
Ending == UNION {ending[t] : t \in Threads}

(***************************************************************************)
(* A span that was started is active, on its way, or ended and in its      *)
(* trace, unless clear removed it; it is not active again once it is on    *)
(* its way, though clones of it may be ended a second time (end_span).     *)
(***************************************************************************)
NoSpanLost ==
  /\ \A i \in 1 .. started : i \in Ids(active_spans) \cup Ids(Ended \cup Ending) \cup cleared
  /\ Ids(active_spans) \cap Ids(Ended \cup Ending) = {}
  /\ \A i \in DOMAIN spans : \A s \in ToSet(spans[i]) : s.trace_id = i /\ s.ended
===============================================================================
