---------------------------- MODULE MonitoringProofs ----------------------------
(***************************************************************************)
(* Theorems about what watches the router, for any routes, threads and     *)
(* configurations.                                                         *)
(***************************************************************************)
EXTENDS Monitoring, FiniteSetTheorems, SequenceTheorems, TLAPS

(* A step of all of them is a step of one or leaves that one alone.          *)
LEMMA OneStepsAtATime ==
  [Next]_vars =>
    /\ [Checker!Next]_checkerVars
    /\ [Collector!Next]_collectorVars
    /\ [Predictor!Next]_predictorVars
    /\ [Tracing!Next]_tracerVars
    /\ [Audit!Next]_auditVars
    /\ [Exporter!Next]_exporterVars
BY DEF Next, Only, vars

(* What a sequence holds, and holds once more is appended to it.             *)
Elements(s) == {s[i] : i \in DOMAIN s}

LEMMA ElementsAfterAppend ==
  ASSUME NEW S, NEW s \in Seq(S), NEW x \in S
  PROVE  /\ Append(s, x) \in Seq(S)
         /\ Elements(Append(s, x)) = Elements(s) \cup {x}
<1>1. Append(s, x) \in Seq(S) /\ Len(Append(s, x)) = Len(s) + 1 /\ Len(s) \in Nat
  OBVIOUS
<1>2. \A i \in 1 .. Len(s) + 1 : Append(s, x)[i] = IF i = Len(s) + 1 THEN x ELSE s[i]
  OBVIOUS
<1>3. /\ \A y : y \in Elements(s) <=> \E i \in 1 .. Len(s) : s[i] = y
      /\ \A y : y \in Elements(Append(s, x)) <=> \E i \in 1 .. Len(s) + 1 : Append(s, x)[i] = y
  BY <1>1 DEF Elements
<1>4. \A y : y \in Elements(Append(s, x)) <=> y \in Elements(s) \/ y = x
  BY <1>1, <1>2, <1>3
<1> QED
  BY <1>1, <1>4

LEMMA TracingElements == \A s : Tracing!ToSet(s) = Elements(s)
BY DEF Tracing!ToSet, Elements

-----------------------------------------------------------------------------
(***************************************************************************)
(* The tracer.  The mutex of the active spans is held just by the thread   *)
(* whose end_span waits for the other one, and that of the ended spans by  *)
(* the thread whose clear does.                                            *)
(***************************************************************************)
LocksInv ==
  /\ task \in [Threads -> {"idle", "end_span", "clear"}]
  /\ active_lock = {t \in Threads : task[t] = "end_span"}
  /\ spans_lock = {t \in Threads : task[t] = "clear"}
  /\ \A t, u \in active_lock : t = u
  /\ \A t, u \in spans_lock : t = u

LEMMA LocksBegin == Init => LocksInv
BY DEF Init, Tracing!Init, LocksInv

LEMMA LocksStep == LocksInv /\ [Next]_vars => LocksInv'
<1> SUFFICES ASSUME LocksInv, [Tracing!Next]_tracerVars PROVE LocksInv'
  BY OneStepsAtATime
<1> USE DEF LocksInv
<1>1. ASSUME NEW t \in Threads, Tracing!StartSpan(t) \/ Tracing!CurrentSpan(t) PROVE LocksInv'
  BY <1>1 DEF Tracing!StartSpan, Tracing!CurrentSpan
<1>2. ASSUME NEW t \in Threads, Tracing!EndSpan(t) PROVE LocksInv'
  BY <1>2 DEF Tracing!EndSpan
<1>3. ASSUME NEW t \in Threads, Tracing!EndSpanStore(t) PROVE LocksInv'
  BY <1>3 DEF Tracing!EndSpanStore, Tracing!Release
<1>4. ASSUME NEW t \in Threads, Tracing!Clear(t) PROVE LocksInv'
  BY <1>4 DEF Tracing!Clear
<1>5. ASSUME NEW t \in Threads, Tracing!ClearActive(t) PROVE LocksInv'
  BY <1>5 DEF Tracing!ClearActive, Tracing!Release
<1>6. CASE UNCHANGED tracerVars
  BY <1>6 DEF tracerVars
<1> QED
  BY <1>1, <1>2, <1>3, <1>4, <1>5, <1>6 DEF Tracing!Next

(***************************************************************************)
(* Where the spans are.  No id is above the number of spans started, a     *)
(* thread that is not in end_span moves none, and the two properties that  *)
(* NoSpanLost needs of the spans on their way are theirs already.          *)
(***************************************************************************)
Span == [span_id : Nat, trace_id : Nat, parent_span_id : Nat, ended : BOOLEAN]

Known == {s \in Span : s.span_id <= started}

SpansInv ==
  /\ started \in Nat
  /\ active_spans \subseteq Known
  /\ owned \in [Threads -> SUBSET Known]
  /\ ending \in [Threads -> SUBSET {s \in Known : s.ended}]
  /\ \A t \in Threads : IF task[t] = "end_span" THEN \E s : ending[t] = {s} ELSE ending[t] = {}
  /\ \A i \in DOMAIN spans :
       spans[i] \in Seq(Span) /\ \A s \in Elements(spans[i]) : s \in Known /\ s.trace_id = i /\ s.ended

Placed ==
  /\ \A i \in 1 .. started :
       \/ i \in cleared
       \/ \E s \in active_spans \cup Tracing!Ended \cup Tracing!Ending : s.span_id = i
  /\ \A s \in active_spans : \A r \in Tracing!Ended \cup Tracing!Ending : s.span_id # r.span_id

LEMMA PlacedNotLost == SpansInv /\ Placed => Tracing!NoSpanLost
<1> SUFFICES ASSUME SpansInv, Placed PROVE Tracing!NoSpanLost
  OBVIOUS
<1>1. \A S : \A i : i \in Tracing!Ids(S) <=> \E s \in S : s.span_id = i
  BY DEF Tracing!Ids
<1>2. \A i \in 1 .. started : i \in Tracing!Ids(active_spans)
                                  \cup Tracing!Ids(Tracing!Ended \cup Tracing!Ending) \cup cleared
  BY <1>1 DEF Placed
<1>3. Tracing!Ids(active_spans) \cap Tracing!Ids(Tracing!Ended \cup Tracing!Ending) = {}
  BY <1>1 DEF Placed
<1>4. \A i \in DOMAIN spans : \A s \in Tracing!ToSet(spans[i]) : s.trace_id = i /\ s.ended
  BY TracingElements DEF SpansInv
<1> QED
  BY <1>2, <1>3, <1>4 DEF Tracing!NoSpanLost

LEMMA SpansBegin == Init => SpansInv /\ Placed
<1> SUFFICES ASSUME Init PROVE SpansInv /\ Placed
  OBVIOUS
<1>1. /\ started = 0 /\ active_spans = {} /\ DOMAIN spans = {}
      /\ owned = [t \in Threads |-> {}] /\ ending = [t \in Threads |-> {}]
      /\ task = [t \in Threads |-> "idle"]
  BY DEF Init, Tracing!Init
<1> QED
  BY <1>1 DEF SpansInv, Placed

(* Another span is known once one more is started. *)
LEMMA MoreKnown ==
  ASSUME SpansInv, started' = started + 1
  PROVE  Known \subseteq Known'
BY DEF SpansInv, Known, Span

LEMMA StartSpanKeeps ==
  ASSUME SpansInv, Placed, NEW t \in Threads, Tracing!StartSpan(t)
  PROVE  SpansInv' /\ Placed'
<1>1. PICK span \in {Tracing!Root(started')} \cup {Tracing!Child(p, started') : p \in owned[t]} :
        /\ active_spans' = active_spans \cup {span}
        /\ owned' = [owned EXCEPT ![t] = @ \cup {span}]
  BY DEF Tracing!StartSpan
<1>2. started' = started + 1 /\ UNCHANGED <<spans, task, ending, cleared>>
  BY DEF Tracing!StartSpan
<1>3. started \in Nat /\ started' \in Nat
  BY <1>2 DEF SpansInv
<1>4. span \in Span /\ span.span_id = started'
  <2>1. CASE span = Tracing!Root(started')
    BY <1>3, <2>1 DEF Tracing!Root, Span
  <2>2. ASSUME NEW p \in owned[t], span = Tracing!Child(p, started')
        PROVE  span \in Span /\ span.span_id = started'
    <3>1. p \in Span
      BY <2>2 DEF SpansInv, Known
    <3>2. span = [span_id |-> started', trace_id |-> p.trace_id, parent_span_id |-> p.span_id, ended |-> FALSE]
      BY <2>2 DEF Tracing!Child, Tracing!Root
    <3> QED
      BY <1>3, <3>1, <3>2 DEF Span
  <2> QED
    BY <1>1, <2>1, <2>2
<1>5. Known \subseteq Known' /\ span \in Known'
  BY <1>2, <1>3, <1>4, MoreKnown DEF Known
<1>6. active_spans' \subseteq Known' /\ owned' \in [Threads -> SUBSET Known']
  BY <1>1, <1>5 DEF SpansInv
<1>7. ending' \in [Threads -> SUBSET {s \in Known' : s.ended}]
  BY <1>2, <1>5 DEF SpansInv
<1>8. SpansInv'
  BY <1>2, <1>3, <1>5, <1>6, <1>7 DEF SpansInv
<1>9. Tracing!Ended' = Tracing!Ended /\ Tracing!Ending' = Tracing!Ending
  BY <1>2 DEF Tracing!Ended, Tracing!Ending
<1>10. \A r \in Tracing!Ended \cup Tracing!Ending : r.span_id \in Nat /\ r.span_id <= started
  BY TracingElements DEF SpansInv, Known, Span, Tracing!Ended, Tracing!Ending
<1>11. \A i \in 1 .. started' : i \in 1 .. started \/ i = started'
  BY <1>2, <1>3
<1>12. \A i \in 1 .. started' :
         \/ i \in cleared'
         \/ \E s \in active_spans' \cup Tracing!Ended' \cup Tracing!Ending' : s.span_id = i
  BY <1>1, <1>2, <1>4, <1>9, <1>11 DEF Placed
<1>13. \A s \in active_spans' : \A r \in Tracing!Ended' \cup Tracing!Ending' : s.span_id # r.span_id
  <2>1. \A r \in Tracing!Ended \cup Tracing!Ending : span.span_id # r.span_id
    BY <1>2, <1>3, <1>4, <1>10
  <2> QED
    BY <1>1, <1>9, <2>1 DEF Placed
<1> QED
  BY <1>8, <1>12, <1>13 DEF Placed

LEMMA CurrentSpanKeeps ==
  ASSUME SpansInv, Placed, NEW t \in Threads, Tracing!CurrentSpan(t)
  PROVE  SpansInv' /\ Placed'
<1>1. PICK last \in active_spans : owned' = [owned EXCEPT ![t] = @ \cup {last}]
  BY DEF Tracing!CurrentSpan
<1>2. UNCHANGED <<started, active_spans, spans, task, ending, cleared>>
  BY DEF Tracing!CurrentSpan
<1>3. Known' = Known
  BY <1>2 DEF Known
<1>4. owned' \in [Threads -> SUBSET Known]
  BY <1>1 DEF SpansInv
<1>5. SpansInv'
  BY <1>2, <1>3, <1>4 DEF SpansInv
<1>6. Tracing!Ended' = Tracing!Ended /\ Tracing!Ending' = Tracing!Ending
  BY <1>2 DEF Tracing!Ended, Tracing!Ending
<1> QED
  BY <1>2, <1>5, <1>6 DEF Placed

(* What is on its way when one thread's spans change. *)
LEMMA OnTheirWay ==
  ASSUME SpansInv, NEW t \in Threads, NEW S, ending' = [ending EXCEPT ![t] = S]
  PROVE  /\ ending'[t] = S /\ \A u \in Threads \ {t} : ending'[u] = ending[u]
         /\ \A x : x \in Tracing!Ending' <=> x \in S \/ \E u \in Threads \ {t} : x \in ending[u]
         /\ \A x : x \in Tracing!Ending <=> x \in ending[t] \/ \E u \in Threads \ {t} : x \in ending[u]
<1>1. ending'[t] = S /\ \A u \in Threads \ {t} : ending'[u] = ending[u]
  BY DEF SpansInv
<1>2. \A x : x \in Tracing!Ending' <=> \E u \in Threads : x \in ending'[u]
  BY DEF Tracing!Ending
<1>3. \A x : x \in Tracing!Ending <=> \E u \in Threads : x \in ending[u]
  BY DEF Tracing!Ending
<1> QED
  BY <1>1, <1>2, <1>3

LEMMA EndSpanKeeps ==
  ASSUME SpansInv, Placed, LocksInv, NEW t \in Threads, Tracing!EndSpan(t)
  PROVE  SpansInv' /\ Placed'
<1>1. PICK span \in owned[t] :
        /\ active_spans' = {s \in active_spans : s.span_id # span.span_id}
        /\ ending' = [ending EXCEPT ![t] = {[span EXCEPT !.ended = TRUE]}]
        /\ owned' = [owned EXCEPT ![t] = @ \ {span}]
  BY DEF Tracing!EndSpan
<1>2. /\ task[t] = "idle" /\ task' = [task EXCEPT ![t] = "end_span"]
      /\ UNCHANGED <<started, spans, cleared>>
  BY DEF Tracing!EndSpan
<1> DEFINE over == [span EXCEPT !.ended = TRUE]
<1>3. over \in Span /\ over.span_id = span.span_id /\ over.ended /\ over \in Known
  <2>1. owned[t] \in SUBSET Known
    BY DEF SpansInv
  <2>2. span \in Span /\ span.span_id <= started
    BY <2>1 DEF Known
  <2>3. over \in Span /\ over.span_id = span.span_id /\ over.ended
    BY <2>2 DEF Span
  <2> QED
    BY <2>2, <2>3 DEF Known
<1>4. Known' = Known
  BY <1>2 DEF Known
<1> HIDE DEF over
<1>5. /\ ending'[t] = {over} /\ \A u \in Threads \ {t} : ending'[u] = ending[u]
      /\ \A x : x \in Tracing!Ending' <=> x \in {over} \/ \E u \in Threads \ {t} : x \in ending[u]
      /\ \A x : x \in Tracing!Ending <=> x \in ending[t] \/ \E u \in Threads \ {t} : x \in ending[u]
  BY <1>1, OnTheirWay DEF over
<1>6. ending[t] = {}
  BY <1>2 DEF SpansInv
<1>7. Tracing!Ending' = Tracing!Ending \cup {over} /\ Tracing!Ended' = Tracing!Ended
  BY <1>2, <1>5, <1>6 DEF Tracing!Ended
<1>8. /\ active_spans' \subseteq Known /\ owned' \in [Threads -> SUBSET Known]
      /\ ending' \in [Threads -> SUBSET {s \in Known : s.ended}]
  BY <1>1, <1>3 DEF SpansInv, over
<1>9. \A u \in Threads : IF task'[u] = "end_span" THEN \E s : ending'[u] = {s} ELSE ending'[u] = {}
  <2>1. task'[t] = "end_span" /\ \A u \in Threads \ {t} : task'[u] = task[u]
    BY <1>2 DEF LocksInv
  <2>2. \A u \in Threads : IF task[u] = "end_span" THEN \E s : ending[u] = {s} ELSE ending[u] = {}
    BY DEF SpansInv
  <2>3. \E s : ending'[t] = {s}
    BY <1>5
  <2> QED
    BY <1>5, <2>1, <2>2, <2>3
<1>10. SpansInv'
  BY <1>2, <1>4, <1>8, <1>9 DEF SpansInv
<1>11. \A i \in 1 .. started' :
         \/ i \in cleared'
         \/ \E s \in active_spans' \cup Tracing!Ended' \cup Tracing!Ending' : s.span_id = i
  <2> SUFFICES ASSUME NEW i \in 1 .. started, i \notin cleared
               PROVE  \E s \in active_spans' \cup Tracing!Ended' \cup Tracing!Ending' : s.span_id = i
    BY <1>2
  <2>1. PICK s \in active_spans \cup Tracing!Ended \cup Tracing!Ending : s.span_id = i
    BY DEF Placed
  <2>2. CASE i = span.span_id
    BY <1>3, <1>7, <2>2
  <2>3. CASE i # span.span_id
    BY <1>1, <1>7, <2>1, <2>3
  <2> QED
    BY <2>2, <2>3
<1>12. \A s \in active_spans' : \A r \in Tracing!Ended' \cup Tracing!Ending' : s.span_id # r.span_id
  BY <1>1, <1>3, <1>7 DEF Placed
<1> QED
  BY <1>10, <1>11, <1>12 DEF Placed

LEMMA EndSpanStoreKeeps ==
  ASSUME SpansInv, Placed, LocksInv, NEW t \in Threads, Tracing!EndSpanStore(t)
  PROVE  SpansInv' /\ Placed'
<1>1. PICK span \in ending[t] :
        spans' = [i \in DOMAIN spans \cup {span.trace_id} |->
                    IF i # span.trace_id THEN spans[i]
                    ELSE Append(IF i \in DOMAIN spans THEN spans[i] ELSE <<>>, span)]
  BY DEF Tracing!EndSpanStore
<1>2. /\ ending' = [ending EXCEPT ![t] = {}] /\ task[t] = "end_span"
      /\ UNCHANGED <<started, active_spans, owned, cleared>> /\ task' = [task EXCEPT ![t] = "idle"]
  BY DEF Tracing!EndSpanStore, Tracing!Release
<1>3. ending[t] = {span}
  <2>1. \E s : ending[t] = {s}
    BY <1>2 DEF SpansInv
  <2> QED
    BY <2>1
<1>4. span \in Known /\ span \in Span /\ span.ended
  BY DEF SpansInv, Known
<1>5. /\ ending'[t] = {} /\ \A u \in Threads \ {t} : ending'[u] = ending[u]
      /\ \A x : x \in Tracing!Ending' <=> x \in {} \/ \E u \in Threads \ {t} : x \in ending[u]
      /\ \A x : x \in Tracing!Ending <=> x \in ending[t] \/ \E u \in Threads \ {t} : x \in ending[u]
  BY <1>2, OnTheirWay
<1>6. Known' = Known
  BY <1>2 DEF Known
<1> DEFINE i == span.trace_id
           old == IF i \in DOMAIN spans THEN spans[i] ELSE <<>>
<1>7. old \in Seq(Span) /\ \A s \in Elements(old) : s \in Known /\ s.trace_id = i /\ s.ended
  BY DEF SpansInv, Elements
<1>8. /\ DOMAIN spans' = DOMAIN spans \cup {i} /\ spans'[i] = Append(old, span)
      /\ \A j \in DOMAIN spans \ {i} : spans'[j] = spans[j]
  BY <1>1
<1>9. i \notin DOMAIN spans => Elements(old) = {}
  BY DEF Elements
<1>10. i \in DOMAIN spans => old = spans[i]
  OBVIOUS
<1>11. span.trace_id = i
  OBVIOUS
<1> HIDE DEF i, old
<1>12. Append(old, span) \in Seq(Span) /\ Elements(Append(old, span)) = Elements(old) \cup {span}
  BY <1>4, <1>7, ElementsAfterAppend
<1>13. \A j \in DOMAIN spans' :
         /\ spans'[j] \in Seq(Span)
         /\ \A s \in Elements(spans'[j]) : s \in Known /\ s.trace_id = j /\ s.ended
  <2>1. ASSUME NEW j \in DOMAIN spans \ {i}
        PROVE  /\ spans'[j] \in Seq(Span)
               /\ \A s \in Elements(spans'[j]) : s \in Known /\ s.trace_id = j /\ s.ended
    BY <1>8, <2>1 DEF SpansInv
  <2>2. /\ spans'[i] \in Seq(Span)
        /\ \A s \in Elements(spans'[i]) : s \in Known /\ s.trace_id = i /\ s.ended
    BY <1>4, <1>7, <1>8, <1>11, <1>12
  <2> QED
    BY <1>8, <2>1, <2>2
<1>14. Tracing!Ended' = Tracing!Ended \cup {span}
  <2>1. \A x : x \in Tracing!Ended <=> \E j \in DOMAIN spans : x \in Elements(spans[j])
    BY TracingElements DEF Tracing!Ended
  <2>2. \A x : x \in Tracing!Ended' <=> \E j \in DOMAIN spans' : x \in Elements(spans'[j])
    BY TracingElements DEF Tracing!Ended
  <2>3. ASSUME NEW x PROVE x \in Tracing!Ended' <=> x \in Tracing!Ended \/ x = span
    <3>1. x \in Elements(spans'[i]) <=> x \in Elements(old) \/ x = span
      BY <1>8, <1>12
    <3>2. x \in Tracing!Ended'
            <=> x \in Elements(spans'[i]) \/ \E j \in DOMAIN spans \ {i} : x \in Elements(spans[j])
      BY <1>8, <2>2
    <3>3. x \in Tracing!Ended
            <=> x \in Elements(old) \/ \E j \in DOMAIN spans \ {i} : x \in Elements(spans[j])
      BY <1>9, <1>10, <2>1
    <3> QED
      BY <3>1, <3>2, <3>3
  <2> QED
    BY <2>3
<1>15. Tracing!Ended' \cup Tracing!Ending' = Tracing!Ended \cup Tracing!Ending
  BY <1>3, <1>5, <1>14
<1>16. ending' \in [Threads -> SUBSET {s \in Known : s.ended}]
  BY <1>2 DEF SpansInv
<1>17. \A u \in Threads : IF task'[u] = "end_span" THEN \E s : ending'[u] = {s} ELSE ending'[u] = {}
  <2>1. task'[t] = "idle" /\ \A u \in Threads \ {t} : task'[u] = task[u]
    BY <1>2 DEF LocksInv
  <2>2. \A u \in Threads : IF task[u] = "end_span" THEN \E s : ending[u] = {s} ELSE ending[u] = {}
    BY DEF SpansInv
  <2> QED
    BY <1>5, <2>1, <2>2
<1>18. SpansInv'
  BY <1>2, <1>6, <1>13, <1>16, <1>17 DEF SpansInv
<1>19. Placed'
  BY <1>2, <1>15 DEF Placed
<1> QED
  BY <1>18, <1>19

LEMMA ClearKeeps ==
  ASSUME SpansInv, Placed, LocksInv, NEW t \in Threads, Tracing!Clear(t)
  PROVE  SpansInv' /\ Placed'
<1>1. /\ DOMAIN spans' = {} /\ task[t] = "idle" /\ task' = [task EXCEPT ![t] = "clear"]
      /\ UNCHANGED <<started, active_spans, owned, ending>>
      /\ cleared' = cleared \cup {s.span_id : s \in Tracing!Ended}
  BY DEF Tracing!Clear, Tracing!Ended
<1>2. Known' = Known
  BY <1>1 DEF Known
<1>3. Tracing!Ended' = {} /\ Tracing!Ending' = Tracing!Ending
  BY <1>1 DEF Tracing!Ended, Tracing!Ending
<1>4. \A u \in Threads : task'[u] = "end_span" <=> task[u] = "end_span"
  BY <1>1 DEF LocksInv
<1>5. SpansInv'
  BY <1>1, <1>2, <1>4 DEF SpansInv
<1>6. Placed'
  BY <1>1, <1>3 DEF Placed
<1> QED
  BY <1>5, <1>6

LEMMA ClearActiveKeeps ==
  ASSUME SpansInv, Placed, LocksInv, NEW t \in Threads, Tracing!ClearActive(t)
  PROVE  SpansInv' /\ Placed'
<1>1. /\ active_spans' = {} /\ task[t] = "clear" /\ task' = [task EXCEPT ![t] = "idle"]
      /\ UNCHANGED <<started, spans, owned, ending>>
      /\ cleared' = cleared \cup {s.span_id : s \in active_spans}
  BY DEF Tracing!ClearActive, Tracing!Release
<1>2. Known' = Known
  BY <1>1 DEF Known
<1>3. Tracing!Ended' = Tracing!Ended /\ Tracing!Ending' = Tracing!Ending
  BY <1>1 DEF Tracing!Ended, Tracing!Ending
<1>4. \A u \in Threads : task'[u] = "end_span" <=> task[u] = "end_span"
  BY <1>1 DEF LocksInv
<1>5. SpansInv'
  BY <1>1, <1>2, <1>4 DEF SpansInv
<1>6. Placed'
  BY <1>1, <1>3 DEF Placed
<1> QED
  BY <1>5, <1>6

LEMMA SpansStep == LocksInv /\ SpansInv /\ Placed /\ [Next]_vars => SpansInv' /\ Placed'
<1> SUFFICES ASSUME LocksInv, SpansInv, Placed, [Tracing!Next]_tracerVars PROVE SpansInv' /\ Placed'
  BY OneStepsAtATime
<1>1. CASE UNCHANGED tracerVars
  <2>1. UNCHANGED <<started, active_spans, spans, task, owned, ending, cleared>>
    BY <1>1 DEF tracerVars
  <2>2. Known' = Known /\ Tracing!Ended' = Tracing!Ended /\ Tracing!Ending' = Tracing!Ending
    BY <2>1 DEF Known, Tracing!Ended, Tracing!Ending
  <2> QED
    BY <2>1, <2>2 DEF SpansInv, Placed
<1> QED
  BY <1>1, StartSpanKeeps, CurrentSpanKeeps, EndSpanKeeps, EndSpanStoreKeeps, ClearKeeps, ClearActiveKeeps
  DEF Tracing!Next

-----------------------------------------------------------------------------
(***************************************************************************)
(* The exporter.  How often something is in a sequence, and a metric in    *)
(* what is kept.                                                           *)
(***************************************************************************)
Occurs(x, s) == Cardinality({i \in DOMAIN s : s[i] = x})

LEMMA TimesOccurs == \A x, s : Exporter!Times(x, s) = Occurs(x, s)
<1>1. \A S : Exporter!Cardinality(S) = Cardinality(S)
  BY DEF Exporter!Cardinality, Cardinality
<1> QED
  BY <1>1 DEF Exporter!Times, Occurs

LEMMA OccursNowhere == \A x : Occurs(x, <<>>) = 0
<1>1. \A x : {i \in DOMAIN <<>> : <<>>[i] = x} = {}
  OBVIOUS
<1> QED
  BY <1>1, FS_EmptySet DEF Occurs

LEMMA OccursOnceMore ==
  ASSUME NEW S, NEW s \in Seq(S), NEW y \in S, NEW x
  PROVE  /\ Occurs(x, s) \in Nat
         /\ Occurs(x, Append(s, y)) = Occurs(x, s) + (IF x = y THEN 1 ELSE 0)
<1> DEFINE places == {i \in 1 .. Len(s) : s[i] = x}
           r == Append(s, y)
<1>1. /\ Len(s) \in Nat /\ DOMAIN s = 1 .. Len(s) /\ DOMAIN r = 1 .. Len(s) + 1
      /\ \A i \in 1 .. Len(s) + 1 : r[i] = IF i = Len(s) + 1 THEN y ELSE s[i]
  OBVIOUS
<1>2. IsFiniteSet(places) /\ Cardinality(places) \in Nat
  <2>1. IsFiniteSet(1 .. Len(s))
    BY <1>1, FS_Interval
  <2>2. places \in SUBSET (1 .. Len(s))
    OBVIOUS
  <2>3. IsFiniteSet(places)
    BY <2>1, <2>2, FS_Subset
  <2> QED
    BY <2>3, FS_CardinalityType
<1>3. Len(s) + 1 \notin places
  BY <1>1
<1>4. {i \in DOMAIN r : r[i] = x} = IF x = y THEN places \cup {Len(s) + 1} ELSE places
  <2>1. \A i \in 1 .. Len(s) : i \in 1 .. Len(s) + 1 /\ i # Len(s) + 1
    BY <1>1
  <2>2. \A i \in 1 .. Len(s) + 1 : i \in 1 .. Len(s) \/ i = Len(s) + 1
    BY <1>1
  <2> QED
    BY <1>1, <2>1, <2>2
<1>5. Cardinality(places \cup {Len(s) + 1}) = Cardinality(places) + 1
  BY <1>2, <1>3, FS_AddElement
<1>6. Occurs(x, s) = Cardinality(places)
  BY <1>1 DEF Occurs
<1>7. Occurs(x, r) = Cardinality({i \in DOMAIN r : r[i] = x})
  BY DEF Occurs
<1>8. Occurs(x, r) = Occurs(x, s) + (IF x = y THEN 1 ELSE 0)
  <2> HIDE DEF places, r
  <2>1. CASE x = y
    BY <1>2, <1>4, <1>5, <1>6, <1>7, <2>1
  <2>2. CASE x # y
    <3>1. Cardinality({i \in DOMAIN r : r[i] = x}) = Cardinality(places)
      BY <1>4, <2>2
    <3>2. Occurs(x, r) = Occurs(x, s) /\ Occurs(x, s) \in Nat
      BY <1>2, <1>6, <1>7, <3>1
    <3> QED
      BY <2>2, <3>2
  <2> QED
    BY <2>1, <2>2
<1> QED
  BY <1>2, <1>6, <1>8

Names == {"routing_decisions_total", "routing_decision_latency_ms",
          "circuit_breaker_state", "psp_health_status"}

Metric == [name : Names, psp_id : Routes]

Filed(kept) == \A n \in DOMAIN kept : kept[n] \in Seq(Metric)

InAll(x, kept) == IF x.name \in DOMAIN kept THEN Occurs(x, kept[x.name]) ELSE 0

LEMMA ExportedOnceMore ==
  ASSUME NEW kept, Filed(kept), NEW m \in Metric, NEW x \in Metric
  PROVE  /\ Filed(Exporter!Exported(kept, m))
         /\ InAll(x, kept) \in Nat
         /\ InAll(x, Exporter!Exported(kept, m)) = InAll(x, kept) + (IF x = m THEN 1 ELSE 0)
<1> DEFINE after == Exporter!Exported(kept, m)
           Old(n) == IF n \in DOMAIN kept THEN kept[n] ELSE <<>>
<1>1. /\ DOMAIN after = DOMAIN kept \cup {m.name}
      /\ \A n \in DOMAIN after : after[n] = IF n = m.name THEN Append(Old(n), m) ELSE Old(n)
  BY DEF Exporter!Exported
<1>2. \A n : Old(n) \in Seq(Metric)
  BY DEF Filed
<1> HIDE DEF after
<1>3. Append(Old(m.name), m) \in Seq(Metric)
  BY <1>2, ElementsAfterAppend
<1>4. Filed(after)
  BY <1>1, <1>2, <1>3 DEF Filed
<1>5. InAll(x, kept) = Occurs(x, Old(x.name))
  BY OccursNowhere DEF InAll
<1>6. Occurs(x, Old(x.name)) \in Nat
  BY <1>2, OccursOnceMore
<1>7. Occurs(x, Append(Old(m.name), m)) = Occurs(x, Old(m.name)) + (IF x = m THEN 1 ELSE 0)
  BY <1>2, OccursOnceMore
<1>8. CASE x.name = m.name
  <2>1. InAll(x, after) = Occurs(x, Append(Old(m.name), m))
    BY <1>1, <1>8 DEF InAll
  <2> QED
    BY <1>4, <1>5, <1>6, <1>7, <1>8, <2>1 DEF after
<1>9. CASE x.name # m.name
  <2>1. x # m
    BY <1>9
  <2>2. InAll(x, after) = Occurs(x, Old(x.name))
    BY <1>1, <1>5, <1>9 DEF InAll
  <2> QED
    BY <1>4, <1>5, <1>6, <2>1, <2>2 DEF after
<1> QED
  BY <1>8, <1>9

(***************************************************************************)
(* The invariant: decisions and latencies balance.  A call that is between *)
(* its two exports has one psp, and a reset hit it only if it is.          *)
(***************************************************************************)
Between(psp) == {t \in Threads : decision[t] = {psp} /\ ~severed[t]}

ExporterInv ==
  /\ Filed(metrics)
  /\ decision \in [Threads -> SUBSET Routes]
  /\ \A t \in Threads : decision[t] = {} \/ \E psp \in Routes : decision[t] = {psp}
  /\ severed \in [Threads -> BOOLEAN]
  /\ \A t \in Threads : severed[t] => decision[t] # {}
  /\ orphans \in Seq(Routes)
  /\ \A psp \in Routes :
       /\ IsFiniteSet(Between(psp))
       /\ InAll(Exporter!Decision(psp), metrics) + Occurs(psp, orphans)
            = InAll(Exporter!Latency(psp), metrics) + Cardinality(Between(psp))

LEMMA PairsBalanced == ExporterInv => Exporter!PairsUnlessReset
<1> SUFFICES ASSUME ExporterInv PROVE Exporter!PairsUnlessReset
  OBVIOUS
<1>1. \A m : Exporter!Kept(m) = InAll(m, metrics)
  BY TimesOccurs DEF Exporter!Kept, InAll
<1>2. \A S : Exporter!Cardinality(S) = Cardinality(S)
  BY DEF Exporter!Cardinality, Cardinality
<1>3. \A psp : Exporter!Cardinality({t \in Threads : decision[t] = {psp} /\ ~severed[t]})
                = Cardinality(Between(psp))
  BY <1>2 DEF Between
<1> QED
  BY <1>1, <1>3, TimesOccurs DEF ExporterInv, Exporter!PairsUnlessReset

LEMMA ExporterBegins == Init => ExporterInv
<1> SUFFICES ASSUME Init PROVE ExporterInv
  OBVIOUS
<1>1. /\ DOMAIN metrics = {} /\ decision = [t \in Threads |-> {}]
      /\ severed = [t \in Threads |-> FALSE] /\ orphans = <<>>
  BY DEF Init, Exporter!Init
<1>2. \A psp : Between(psp) = {}
  BY <1>1 DEF Between
<1>3. \A m : InAll(m, metrics) = 0
  BY <1>1 DEF InAll
<1>4. IsFiniteSet({}) /\ Cardinality({}) = 0
  BY FS_EmptySet
<1>5. \A psp : Occurs(psp, orphans) = 0
  BY <1>1, OccursNowhere
<1>6. \A psp \in Routes :
        /\ IsFiniteSet(Between(psp))
        /\ InAll(Exporter!Decision(psp), metrics) + Occurs(psp, orphans)
             = InAll(Exporter!Latency(psp), metrics) + Cardinality(Between(psp))
  BY <1>2, <1>3, <1>4, <1>5
<1>7. Filed(metrics) /\ orphans \in Seq(Routes)
  BY <1>1 DEF Filed
<1> QED
  BY <1>1, <1>6, <1>7 DEF ExporterInv

(* Decisions and latencies are different metrics, and neither is a gauge.    *)
LEMMA KindsOfMetrics ==
  /\ \A psp \in Routes : Exporter!Decision(psp) \in Metric /\ Exporter!Latency(psp) \in Metric
  /\ \A psp, q \in Routes : /\ Exporter!Decision(psp) # Exporter!Latency(q)
                            /\ Exporter!Decision(psp) = Exporter!Decision(q) <=> psp = q
                            /\ Exporter!Latency(psp) = Exporter!Latency(q) <=> psp = q
  /\ \A g \in Exporter!Gauges :
       /\ g \in Metric
       /\ \A psp \in Routes : g # Exporter!Decision(psp) /\ g # Exporter!Latency(psp)
BY DEF Exporter!Decision, Exporter!Latency, Exporter!Gauges, Metric, Names

LEMMA DecisionKeeps ==
  ASSUME ExporterInv, NEW t \in Threads, Exporter!RecordDecision(t)
  PROVE  ExporterInv'
<1>1. PICK p \in Routes : /\ metrics' = Exporter!Exported(metrics, Exporter!Decision(p))
                         /\ decision' = [decision EXCEPT ![t] = {p}]
  BY DEF Exporter!RecordDecision
<1>2. decision[t] = {} /\ UNCHANGED <<severed, orphans>>
  BY DEF Exporter!RecordDecision
<1>3. ~severed[t]
  BY <1>2 DEF ExporterInv
<1>4. \A q \in Routes : Between(q)' = IF q = p THEN Between(q) \cup {t} ELSE Between(q)
  BY <1>1, <1>2, <1>3 DEF Between, ExporterInv
<1>5. \A q \in Routes : t \notin Between(q)
  BY <1>2 DEF Between
<1>6. Filed(metrics) /\ Exporter!Decision(p) \in Metric
  BY KindsOfMetrics DEF ExporterInv
<1>7. /\ Filed(metrics')
      /\ \A x \in Metric : /\ InAll(x, metrics) \in Nat
                          /\ InAll(x, metrics')
                               = InAll(x, metrics) + (IF x = Exporter!Decision(p) THEN 1 ELSE 0)
  BY <1>1, <1>6, ExportedOnceMore
<1>8. ASSUME NEW q \in Routes
      PROVE  /\ IsFiniteSet(Between(q))'
             /\ (InAll(Exporter!Decision(q), metrics) + Occurs(q, orphans)
                   = InAll(Exporter!Latency(q), metrics) + Cardinality(Between(q)))'
  <2>1. /\ InAll(Exporter!Decision(q), metrics')
             = InAll(Exporter!Decision(q), metrics) + (IF q = p THEN 1 ELSE 0)
        /\ InAll(Exporter!Latency(q), metrics') = InAll(Exporter!Latency(q), metrics)
        /\ InAll(Exporter!Decision(q), metrics) \in Nat
        /\ InAll(Exporter!Latency(q), metrics) \in Nat
    BY <1>7, KindsOfMetrics
  <2>2. /\ IsFiniteSet(Between(q))
        /\ InAll(Exporter!Decision(q), metrics) + Occurs(q, orphans)
             = InAll(Exporter!Latency(q), metrics) + Cardinality(Between(q))
    BY DEF ExporterInv
  <2>3. /\ IsFiniteSet(Between(q)')
        /\ Cardinality(Between(q)') = Cardinality(Between(q)) + (IF q = p THEN 1 ELSE 0)
        /\ Cardinality(Between(q)) \in Nat
    BY <1>4, <1>5, <2>2, FS_AddElement, FS_CardinalityType
  <2>4. orphans \in Seq(Routes) /\ Occurs(q, orphans') = Occurs(q, orphans) /\ Occurs(q, orphans) \in Nat
    BY <1>2, OccursOnceMore DEF ExporterInv
  <2> QED
    BY <2>1, <2>2, <2>3, <2>4
<1>9. /\ decision' \in [Threads -> SUBSET Routes]
      /\ \A u \in Threads : decision'[u] = {} \/ \E psp \in Routes : decision'[u] = {psp}
      /\ \A u \in Threads : severed'[u] => decision'[u] # {}
  BY <1>1, <1>2 DEF ExporterInv
<1> QED
  BY <1>2, <1>7, <1>8, <1>9 DEF ExporterInv

LEMMA LatencyKeeps ==
  ASSUME ExporterInv, NEW t \in Threads, Exporter!RecordLatency(t)
  PROVE  ExporterInv'
<1>1. PICK p \in decision[t] :
        /\ metrics' = Exporter!Exported(metrics, Exporter!Latency(p))
        /\ orphans' = IF severed[t] THEN Append(orphans, p) ELSE orphans
  BY DEF Exporter!RecordLatency
<1>2. decision' = [decision EXCEPT ![t] = {}] /\ severed' = [severed EXCEPT ![t] = FALSE]
  BY DEF Exporter!RecordLatency
<1>3. decision[t] = {p} /\ p \in Routes
  BY <1>1 DEF ExporterInv
<1>4. \A q \in Routes : Between(q)' = Between(q) \ {t}
  BY <1>2 DEF Between, ExporterInv
<1>5. \A q \in Routes : t \in Between(q) <=> q = p /\ ~severed[t]
  BY <1>3 DEF Between
<1>6. Filed(metrics) /\ Exporter!Latency(p) \in Metric /\ orphans \in Seq(Routes)
  BY <1>3, KindsOfMetrics DEF ExporterInv
<1>7. /\ Filed(metrics')
      /\ \A x \in Metric : /\ InAll(x, metrics) \in Nat
                          /\ InAll(x, metrics')
                               = InAll(x, metrics) + (IF x = Exporter!Latency(p) THEN 1 ELSE 0)
  BY <1>1, <1>6, ExportedOnceMore
<1>8. ASSUME NEW q \in Routes
      PROVE  /\ IsFiniteSet(Between(q))'
             /\ (InAll(Exporter!Decision(q), metrics) + Occurs(q, orphans)
                   = InAll(Exporter!Latency(q), metrics) + Cardinality(Between(q)))'
  <2>1. /\ InAll(Exporter!Latency(q), metrics')
             = InAll(Exporter!Latency(q), metrics) + (IF q = p THEN 1 ELSE 0)
        /\ InAll(Exporter!Decision(q), metrics') = InAll(Exporter!Decision(q), metrics)
        /\ InAll(Exporter!Decision(q), metrics) \in Nat
        /\ InAll(Exporter!Latency(q), metrics) \in Nat
    BY <1>3, <1>7, KindsOfMetrics
  <2>2. /\ IsFiniteSet(Between(q))
        /\ InAll(Exporter!Decision(q), metrics) + Occurs(q, orphans)
             = InAll(Exporter!Latency(q), metrics) + Cardinality(Between(q))
    BY DEF ExporterInv
  <2>3. /\ IsFiniteSet(Between(q)')
        /\ Cardinality(Between(q)') = Cardinality(Between(q)) - (IF q = p /\ ~severed[t] THEN 1 ELSE 0)
        /\ Cardinality(Between(q)) \in Nat
    BY <1>4, <1>5, <2>2, FS_RemoveElement, FS_CardinalityType
  <2>4. /\ Occurs(q, orphans) \in Nat
        /\ Occurs(q, Append(orphans, p)) = Occurs(q, orphans) + (IF q = p THEN 1 ELSE 0)
    BY <1>3, <1>6, OccursOnceMore
  <2>5. Occurs(q, orphans') = Occurs(q, orphans) + (IF q = p /\ severed[t] THEN 1 ELSE 0)
    BY <1>1, <2>4
  <2>6. severed[t] \in BOOLEAN
    BY DEF ExporterInv
  <2> QED
    BY <2>1, <2>2, <2>3, <2>4, <2>5, <2>6
<1>9. /\ decision' \in [Threads -> SUBSET Routes]
      /\ \A u \in Threads : decision'[u] = {} \/ \E psp \in Routes : decision'[u] = {psp}
      /\ severed' \in [Threads -> BOOLEAN]
      /\ \A u \in Threads : severed'[u] => decision'[u] # {}
  BY <1>2 DEF ExporterInv
<1>10. orphans' \in Seq(Routes)
  BY <1>1, <1>3, <1>6
<1> QED
  BY <1>7, <1>8, <1>9, <1>10 DEF ExporterInv

LEMMA GaugesKeep ==
  ASSUME ExporterInv, Exporter!RecordGauges
  PROVE  ExporterInv'
<1>1. PICK g \in Exporter!Gauges :
        \/ metrics' = Exporter!Exported(metrics, g)
        \/ \E h \in Exporter!Gauges :
             metrics' = Exporter!Exported(Exporter!Exported(metrics, g), h)
  BY DEF Exporter!RecordGauges
<1>2. UNCHANGED <<decision, severed, orphans>>
  BY DEF Exporter!RecordGauges
<1> DEFINE Same(kept) ==
      /\ Filed(kept)
      /\ \A psp \in Routes : /\ InAll(Exporter!Decision(psp), kept) = InAll(Exporter!Decision(psp), metrics)
                            /\ InAll(Exporter!Latency(psp), kept) = InAll(Exporter!Latency(psp), metrics)
<1>3. ASSUME NEW kept, Same(kept), NEW h \in Exporter!Gauges PROVE Same(Exporter!Exported(kept, h))
  <2>1. h \in Metric /\ Filed(kept)
    BY <1>3, KindsOfMetrics
  <2>2. /\ Filed(Exporter!Exported(kept, h))
        /\ \A x \in Metric : /\ InAll(x, kept) \in Nat
                            /\ InAll(x, Exporter!Exported(kept, h))
                                 = InAll(x, kept) + (IF x = h THEN 1 ELSE 0)
    BY <2>1, ExportedOnceMore
  <2>3. \A x \in Metric : x # h => InAll(x, Exporter!Exported(kept, h)) = InAll(x, kept)
    BY <2>2
  <2> QED
    BY <1>3, <2>2, <2>3, KindsOfMetrics
<1>4. Same(metrics)
  BY DEF ExporterInv
<1> HIDE DEF Same
<1>5. Same(metrics')
  <2>1. Same(Exporter!Exported(metrics, g))
    BY <1>3, <1>4
  <2>2. \A h \in Exporter!Gauges : Same(Exporter!Exported(Exporter!Exported(metrics, g), h))
    BY <1>3, <2>1
  <2> QED
    BY <1>1, <2>1, <2>2
<1>6. \A psp : Between(psp)' = Between(psp)
  BY <1>2 DEF Between
<1> QED
  BY <1>2, <1>5, <1>6 DEF ExporterInv, Same

LEMMA ResetBalances ==
  ASSUME ExporterInv, Exporter!Reset
  PROVE  ExporterInv'
<1>1. /\ DOMAIN metrics' = {} /\ severed' = [t \in Threads |-> decision[t] # {}] /\ orphans' = <<>>
      /\ UNCHANGED decision
  BY DEF Exporter!Reset
<1>2. \A psp : Between(psp)' = {}
  BY <1>1 DEF Between
<1>3. \A m : InAll(m, metrics') = 0
  BY <1>1 DEF InAll
<1>4. IsFiniteSet({}) /\ Cardinality({}) = 0
  BY FS_EmptySet
<1>5. \A psp : Occurs(psp, orphans') = 0
  BY <1>1, OccursNowhere
<1>6. \A psp \in Routes :
        /\ IsFiniteSet(Between(psp))'
        /\ (InAll(Exporter!Decision(psp), metrics) + Occurs(psp, orphans)
              = InAll(Exporter!Latency(psp), metrics) + Cardinality(Between(psp)))'
  BY <1>2, <1>3, <1>4, <1>5
<1>7. Filed(metrics') /\ orphans' \in Seq(Routes)
  BY <1>1 DEF Filed
<1> QED
  BY <1>1, <1>6, <1>7 DEF ExporterInv

LEMMA ExporterStep == ExporterInv /\ [Next]_vars => ExporterInv'
<1> SUFFICES ASSUME ExporterInv, [Exporter!Next]_exporterVars PROVE ExporterInv'
  BY OneStepsAtATime
<1>1. CASE UNCHANGED exporterVars
  <2>1. UNCHANGED <<metrics, decision, severed, orphans>>
    BY <1>1 DEF exporterVars
  <2>2. \A psp : Between(psp)' = Between(psp)
    BY <2>1 DEF Between
  <2> QED
    BY <2>1, <2>2 DEF ExporterInv
<1> QED
  BY <1>1, DecisionKeeps, LatencyKeeps, GaugesKeep, ResetBalances DEF Exporter!Next

-----------------------------------------------------------------------------
(***************************************************************************)
(* The health checker.  What leaves a window at its head is no longer      *)
(* counted in it.                                                          *)
(***************************************************************************)
LEMMA OccursOnceLess ==
  ASSUME NEW S, NEW s \in Seq(S), s # <<>>, NEW x
  PROVE  /\ Tail(s) \in Seq(S) /\ Len(Tail(s)) = Len(s) - 1 /\ Head(s) = s[1] /\ Head(s) \in S
         /\ \A i \in 1 .. Len(s) - 1 : Tail(s)[i] = s[i + 1]
         /\ Occurs(x, s) = Occurs(x, Tail(s)) + (IF Head(s) = x THEN 1 ELSE 0)
<1> DEFINE r == Tail(s)
           n == Len(s)
           before == {i \in 1 .. n : s[i] = x}
           after == {i \in 1 .. n - 1 : r[i] = x}
           shift == [i \in after |-> i + 1]
<1>1. /\ n \in Nat /\ n >= 1 /\ DOMAIN s = 1 .. n
      /\ r \in Seq(S) /\ Len(r) = n - 1 /\ DOMAIN r = 1 .. n - 1
      /\ Head(s) = s[1] /\ Head(s) \in S
      /\ \A i \in 1 .. n - 1 : r[i] = s[i + 1]
  OBVIOUS
<1>2. Occurs(x, s) = Cardinality(before)
  BY <1>1 DEF Occurs
<1>3. Occurs(x, r) = Cardinality(after)
  BY <1>1 DEF Occurs
<1> HIDE DEF r, n
<1>4. IsFiniteSet(after) /\ Cardinality(after) \in Nat
  <2>1. IsFiniteSet(1 .. n - 1)
    BY <1>1, FS_Interval
  <2>2. after \in SUBSET (1 .. n - 1)
    OBVIOUS
  <2>3. IsFiniteSet(after)
    BY <2>1, <2>2, FS_Subset
  <2> QED
    BY <2>3, FS_CardinalityType
<1>5. ExistsBijection(after, before \ {1})
  <2>1. \A i \in after : i + 1 \in before \ {1}
    BY <1>1
  <2>2. \A i, j \in after : shift[i] = shift[j] => i = j
    BY <1>1
  <2>3. \A j \in before \ {1} : j - 1 \in after /\ shift[j - 1] = j
    BY <1>1
  <2>4. shift \in [after -> before \ {1}]
    BY <2>1
  <2>5. shift \in Bijection(after, before \ {1})
    BY <2>2, <2>3, <2>4 DEF Bijection, Injection, Surjection, IsInjective
  <2> QED
    BY <2>5 DEF ExistsBijection
<1>6. IsFiniteSet(before \ {1}) /\ Cardinality(before \ {1}) = Cardinality(after)
  BY <1>4, <1>5, FS_Bijection
<1>7. CASE s[1] = x
  <2>1. before = (before \ {1}) \cup {1} /\ 1 \notin before \ {1}
    BY <1>1, <1>7
  <2>2. Cardinality((before \ {1}) \cup {1}) = Cardinality(before \ {1}) + 1
    BY <1>6, <2>1, FS_AddElement
  <2> HIDE DEF before, after
  <2> QED
    BY <1>1, <1>2, <1>3, <1>6, <1>7, <2>1, <2>2 DEF r, n
<1>8. CASE s[1] # x
  <2>1. before \ {1} = before
    BY <1>8
  <2>2. Cardinality(before) = Cardinality(after)
    BY <1>6, <2>1
  <2>3. Occurs(x, s) = Occurs(x, r) /\ Occurs(x, r) \in Nat
    BY <1>2, <1>3, <1>4, <2>2
  <2>4. (IF Head(s) = x THEN 1 ELSE 0) = 0
    BY <1>1, <1>8
  <2>5. Occurs(x, s) = Occurs(x, r) + (IF Head(s) = x THEN 1 ELSE 0)
    BY <2>3, <2>4
  <2> QED
    BY <1>1, <2>5 DEF r, n
<1> QED
  BY <1>7, <1>8

LEMMA HealthyOccurs == \A s : Checker!Cardinality(Checker!Healthy(s)) = Occurs("Healthy", s)
<1>1. \A S : Checker!Cardinality(S) = Cardinality(S)
  BY DEF Checker!Cardinality, Cardinality
<1> QED
  BY <1>1 DEF Checker!Healthy, Occurs

(***************************************************************************)
(* A counter that has stopped at its threshold stays a number.             *)
(***************************************************************************)
Settings == [window_size : Nat, healthy_threshold : Nat, unhealthy_threshold : Nat]

ResultWindows == Seq(Checker!Results)

Statuses == Checker!Results \cup {"Unknown"}

RouteHealthData ==
  [ results : ResultWindows, total_probes : Nat,
    successful_probes : Nat, failed_probes : Nat,
    consecutive_successes : Nat, consecutive_failures : Nat,
    current_status : Statuses ]

LEMMA EvictKeeps ==
  ASSUME NEW d \in RouteHealthData
  PROVE  Checker!Evict(d) \in RouteHealthData
<1>1. \A n \in Nat : Checker!SaturatingLess(n) \in Nat
  BY DEF Checker!SaturatingLess
<1>2. d.results # <<>> => Tail(d.results) \in ResultWindows
  BY OccursOnceLess DEF RouteHealthData, ResultWindows
<1> QED
  BY <1>1, <1>2 DEF Checker!Evict, RouteHealthData

LEMMA AddKeeps ==
  ASSUME config \in Settings, NEW d \in RouteHealthData, NEW status \in Checker!Results
  PROVE  /\ Checker!Add(d, status) \in RouteHealthData
         /\ Checker!Add(d, status).results = Append(d.results, status)
<1> DEFINE new == [d EXCEPT !.results = Append(d.results, status), !.total_probes = @ + 1]
           passed == [new EXCEPT !.successful_probes = @ + 1,
                                 !.consecutive_successes = Checker!Bump(@, config.healthy_threshold),
                                 !.consecutive_failures = 0]
           failed == [new EXCEPT !.failed_probes = @ + 1,
                                 !.consecutive_failures = Checker!Bump(@, config.unhealthy_threshold),
                                 !.consecutive_successes = 0]
<1>1. new \in RouteHealthData /\ new.results = Append(d.results, status)
  <2>1. PICK total \in Nat : total = d.total_probes + 1
    BY DEF RouteHealthData
  <2> DEFINE appended == Append(d.results, status)
  <2>2. appended \in ResultWindows
    BY DEF RouteHealthData, ResultWindows
  <2> HIDE DEF appended
  <2>3. PICK results \in ResultWindows : results = appended
    BY <2>2
  <2>4. new = [d EXCEPT !.results = results, !.total_probes = total]
    BY <2>1, <2>3 DEF appended
  <2> HIDE DEF new
  <2>5. new \in RouteHealthData /\ new.results = results
    BY <2>4 DEF RouteHealthData
  <2> QED
    BY <2>3, <2>5 DEF appended
<1>2. Checker!Add(d, status) = IF status = "Healthy" THEN passed ELSE failed
  BY DEF Checker!Add
<1> HIDE DEF new
<1>3. \A n, top \in Nat : Checker!Bump(n, top) \in Nat
  BY DEF Checker!Bump
<1>4. config.healthy_threshold \in Nat /\ config.unhealthy_threshold \in Nat
  BY DEF Settings
<1>5. passed \in RouteHealthData /\ passed.results = new.results
  <2>1. PICK n \in Nat : n = new.successful_probes + 1
    BY <1>1 DEF RouteHealthData
  <2>2. PICK c \in Nat : c = Checker!Bump(new.consecutive_successes, config.healthy_threshold)
    BY <1>1, <1>3, <1>4 DEF RouteHealthData
  <2>3. passed = [new EXCEPT !.successful_probes = n, !.consecutive_successes = c,
                             !.consecutive_failures = 0]
    BY <2>1, <2>2
  <2> HIDE DEF passed
  <2> QED
    BY <1>1, <2>3 DEF RouteHealthData
<1>6. failed \in RouteHealthData /\ failed.results = new.results
  <2>1. PICK n \in Nat : n = new.failed_probes + 1
    BY <1>1 DEF RouteHealthData
  <2>2. PICK c \in Nat : c = Checker!Bump(new.consecutive_failures, config.unhealthy_threshold)
    BY <1>1, <1>3, <1>4 DEF RouteHealthData
  <2>3. failed = [new EXCEPT !.failed_probes = n, !.consecutive_failures = c,
                             !.consecutive_successes = 0]
    BY <2>1, <2>2
  <2> HIDE DEF failed
  <2> QED
    BY <1>1, <2>3 DEF RouteHealthData
<1> HIDE DEF passed, failed
<1> QED
  BY <1>1, <1>2, <1>5, <1>6

LEMMA UpdateStatusKeeps ==
  ASSUME NEW d \in RouteHealthData
  PROVE  LET e == Checker!UpdateStatus(d)
         IN  /\ e \in RouteHealthData /\ e.results = d.results
             /\ e.total_probes = d.total_probes
             /\ e.successful_probes = d.successful_probes /\ e.failed_probes = d.failed_probes
             /\ e.consecutive_successes = d.consecutive_successes
             /\ e.consecutive_failures = d.consecutive_failures
BY DEF Checker!UpdateStatus, Checker!ByRate, Checker!Results, Statuses, RouteHealthData

(***************************************************************************)
(* The invariant of a probe on its way: it has a route, which the checker  *)
(* knows unless a reset has hit it since the first lock.                   *)
(***************************************************************************)
CheckerInv ==
  /\ config \in Settings
  /\ \A r \in DOMAIN routes : routes[r] \in RouteHealthData
  /\ DOMAIN pc = Threads /\ DOMAIN probe = Threads /\ DOMAIN interrupted = Threads
  /\ \A t \in Threads : pc[t] = "record" =>
       /\ probe[t] \in [route : Routes, status : Checker!Results]
       /\ ~interrupted[t] => probe[t].route \in DOMAIN routes

LEMMA CheckerBegins == Init => CheckerInv
BY CheckerAssumption DEF Init, Checker!Init, Checker!NoRoutes, CheckerInv, Settings

LEMMA CheckerStep == CheckerInv /\ [Next]_vars => CheckerInv'
<1> SUFFICES ASSUME CheckerInv, [Checker!Next]_checkerVars PROVE CheckerInv'
  BY OneStepsAtATime
<1> USE DEF CheckerInv
<1>1. Checker!NewRouteHealthData \in RouteHealthData
  BY DEF Checker!NewRouteHealthData, RouteHealthData, ResultWindows, Statuses
<1>2. ASSUME NEW r \in Routes, routes' = Checker!Created(r)
      PROVE  /\ DOMAIN routes' = DOMAIN routes \cup {r}
             /\ \A q \in DOMAIN routes' : routes'[q] \in RouteHealthData
  BY <1>1, <1>2 DEF Checker!Created
<1>3. ASSUME NEW r \in Routes, Checker!AddRoute(r) PROVE CheckerInv'
  BY <1>2, <1>3 DEF Checker!AddRoute
<1>4. ASSUME NEW t \in Threads, Checker!Probe(t) PROVE CheckerInv'
  <2>1. PICK r \in Routes, status \in Checker!Results :
          /\ routes' = Checker!Created(r)
          /\ probe' = [probe EXCEPT ![t] = [route |-> r, status |-> status]]
    BY <1>4 DEF Checker!Probe
  <2> QED
    BY <1>2, <1>4, <2>1 DEF Checker!Probe
<1>5. ASSUME NEW t \in Threads, Checker!Record(t) PROVE CheckerInv'
  <2>1. probe[t] \in [route : Routes, status : Checker!Results]
    BY <1>5 DEF Checker!Record
  <2>2. \A d \in RouteHealthData :
          Checker!UpdateStatus(Checker!Add(Checker!Evict(d), probe[t].status)) \in RouteHealthData
    BY <2>1, EvictKeeps, AddKeeps, UpdateStatusKeeps
  <2>3. /\ DOMAIN routes' = DOMAIN routes
        /\ \A q \in DOMAIN routes' : routes'[q] \in RouteHealthData
    BY <1>5, <2>2 DEF Checker!Record
  <2> QED
    BY <1>5, <2>3 DEF Checker!Record
<1>6. ASSUME NEW gone, Checker!Reset(gone) PROVE CheckerInv'
  BY <1>6 DEF Checker!Reset
<1>7. CASE UNCHANGED checkerVars
  BY <1>7 DEF checkerVars
<1> QED
  BY <1>3, <1>4, <1>5, <1>6, <1>7 DEF Checker!Next

CheckerKeeps ==
  \A t \in Threads :
    pc[t] = "record" /\ pc'[t] = "idle" /\ ~interrupted[t] =>
      LET p == probe[t]
      IN  /\ p.route \in DOMAIN routes'
          /\ Checker!Last(routes'[p.route].results) = p.status

LEMMA ProbesKept == CheckerInv /\ [Next]_vars => [CheckerKeeps]_checkerVars
<1> SUFFICES ASSUME CheckerInv, Checker!Next, NEW t \in Threads,
                    pc[t] = "record", pc'[t] = "idle", ~interrupted[t]
             PROVE  /\ probe[t].route \in DOMAIN routes'
                    /\ Checker!Last(routes'[probe[t].route].results) = probe[t].status
  BY OneStepsAtATime DEF CheckerKeeps
<1>1. Checker!Record(t)
  BY DEF Checker!Next, Checker!AddRoute, Checker!Probe, Checker!Record, Checker!Reset, CheckerInv
<1> DEFINE r == probe[t].route
           status == probe[t].status
           old == Checker!Evict(routes[r])
<1>2. r \in DOMAIN routes /\ status \in Checker!Results /\ routes[r] \in RouteHealthData
  BY DEF CheckerInv
<1>3. /\ r \in DOMAIN routes'
      /\ routes'[r] = Checker!UpdateStatus(Checker!Add(old, status))
  BY <1>1, <1>2 DEF Checker!Record
<1>4. old \in RouteHealthData
  BY <1>2, EvictKeeps
<1> HIDE DEF old, r, status
<1>5. routes'[r].results = Append(old.results, status)
  BY <1>2, <1>3, <1>4, AddKeeps, UpdateStatusKeeps DEF CheckerInv
<1>6. Checker!Last(Append(old.results, status)) = status
  BY <1>2, <1>4 DEF Checker!Last, RouteHealthData, ResultWindows
<1> QED
  BY <1>3, <1>5, <1>6 DEF r, status

-----------------------------------------------------------------------------
(***************************************************************************)
(* The collector and the predictor take two locks likewise.  Unless a      *)
(* reset fell between them, the metrics a thread holds on to are those of  *)
(* its route, and the route whose latency it reports is known.             *)
(***************************************************************************)
CollectorInv ==
  /\ DOMAIN step = Threads /\ DOMAIN handle = Threads
  /\ DOMAIN sample = Threads /\ DOMAIN cut = Threads
  /\ \A t \in Threads : step[t] = "record" /\ ~cut[t] =>
       /\ sample[t].route \in DOMAIN index
       /\ index[sample[t].route] = handle[t]

LEMMA CollectorBegins == Init => CollectorInv
BY DEF Init, Collector!Init, CollectorInv

LEMMA CollectorStep == CollectorInv /\ [Next]_vars => CollectorInv'
<1> SUFFICES ASSUME CollectorInv, [Collector!Next]_collectorVars PROVE CollectorInv'
  BY OneStepsAtATime
<1> USE DEF CollectorInv
<1>1. ASSUME NEW t \in Threads, Collector!Lookup(t) PROVE CollectorInv'
  <2> DEFINE new == Len(data) + 1
  <2>1. PICK s \in Collector!Samples :
          /\ sample' = [sample EXCEPT ![t] = s]
          /\ IF s.route \in DOMAIN index
             THEN handle' = [handle EXCEPT ![t] = index[s.route]] /\ UNCHANGED index
             ELSE /\ handle' = [handle EXCEPT ![t] = new]
                  /\ index' = [r \in DOMAIN index \cup {s.route} |->
                                  IF r = s.route THEN new ELSE index[r]]
    BY <1>1 DEF Collector!Lookup
  <2>2. step' = [step EXCEPT ![t] = "record"] /\ UNCHANGED cut
    BY <1>1 DEF Collector!Lookup
  <2>3. /\ s.route \in DOMAIN index' /\ index'[s.route] = handle'[t]
        /\ DOMAIN handle' = Threads /\ \A u \in Threads \ {t} : handle'[u] = handle[u]
        /\ \A r \in DOMAIN index : r \in DOMAIN index' /\ index'[r] = index[r]
    BY <2>1
  <2> HIDE DEF new
  <2> QED
    BY <2>1, <2>2, <2>3
<1>2. ASSUME NEW t \in Threads, Collector!Record(t) PROVE CollectorInv'
  BY <1>2 DEF Collector!Record
<1>3. ASSUME NEW gone, Collector!Reset(gone) PROVE CollectorInv'
  BY <1>3 DEF Collector!Reset
<1>4. CASE UNCHANGED collectorVars
  BY <1>4 DEF collectorVars
<1> QED
  BY <1>1, <1>2, <1>3, <1>4 DEF Collector!Next

CollectorKeeps ==
  \A t \in Threads :
    step[t] = "record" /\ step'[t] = "idle" /\ ~cut[t] =>
      /\ sample[t].route \in DOMAIN index'
      /\ index'[sample[t].route] = handle[t]

LEMMA SamplesKept == CollectorInv /\ [Next]_vars => [CollectorKeeps]_collectorVars
<1> SUFFICES ASSUME CollectorInv, Collector!Next, NEW t \in Threads,
                    step[t] = "record", step'[t] = "idle", ~cut[t]
             PROVE  sample[t].route \in DOMAIN index' /\ index'[sample[t].route] = handle[t]
  BY OneStepsAtATime DEF CollectorKeeps
<1>1. Collector!Record(t)
  BY DEF Collector!Next, Collector!Lookup, Collector!Record, Collector!Reset, CollectorInv
<1> QED
  BY <1>1 DEF Collector!Record, CollectorInv

PredictorInv ==
  /\ DOMAIN at = Threads /\ DOMAIN latency = Threads /\ DOMAIN lost = Threads
  /\ \A t \in Threads : at[t] = "update" /\ ~lost[t] => latency[t].route \in DOMAIN latencies

LEMMA PredictorBegins == Init => PredictorInv
BY DEF Init, Predictor!Init, PredictorInv

LEMMA PredictorStep == PredictorInv /\ [Next]_vars => PredictorInv'
<1> SUFFICES ASSUME PredictorInv, [Predictor!Next]_predictorVars PROVE PredictorInv'
  BY OneStepsAtATime
<1> USE DEF PredictorInv
<1>1. ASSUME NEW t \in Threads, Predictor!Find(t) PROVE PredictorInv'
  BY <1>1 DEF Predictor!Find
<1>2. ASSUME NEW t \in Threads, Predictor!Update(t) PROVE PredictorInv'
  BY <1>2 DEF Predictor!Update
<1>3. ASSUME NEW gone, Predictor!Reset(gone) PROVE PredictorInv'
  BY <1>3 DEF Predictor!Reset
<1>4. CASE UNCHANGED predictorVars
  BY <1>4 DEF predictorVars
<1> QED
  BY <1>1, <1>2, <1>3, <1>4 DEF Predictor!Next

PredictorKeeps ==
  \A t \in Threads :
    at[t] = "update" /\ at'[t] = "idle" /\ ~lost[t] =>
      /\ latency[t].route \in DOMAIN latencies'
      /\ latencies'[latency[t].route].last_latency_ms = latency[t].ms

LEMMA LatenciesKept == PredictorInv /\ [Next]_vars => [PredictorKeeps]_predictorVars
<1> SUFFICES ASSUME PredictorInv, Predictor!Next, NEW t \in Threads,
                    at[t] = "update", at'[t] = "idle", ~lost[t]
             PROVE  /\ latency[t].route \in DOMAIN latencies'
                    /\ latencies'[latency[t].route].last_latency_ms = latency[t].ms
  BY OneStepsAtATime DEF PredictorKeeps
<1>1. Predictor!Update(t)
  BY DEF Predictor!Next, Predictor!Find, Predictor!Update, Predictor!Reset, PredictorInv
<1>2. latency[t].route \in DOMAIN latencies
  BY DEF PredictorInv
<1>3. latencies' = [latencies EXCEPT
                      ![latency[t].route] = Predictor!Updated(@, latency[t].ms)]
  BY <1>1, <1>2 DEF Predictor!Update
<1>4. \A d, ms : Predictor!Updated(d, ms).last_latency_ms = ms
  BY DEF Predictor!Updated
<1> QED
  BY <1>2, <1>3, <1>4

-----------------------------------------------------------------------------
(***************************************************************************)
(* What is recorded with the checker, the collector or the predictor is    *)
(* there when the call returns unless a reset hit its route; no span of    *)
(* the tracer is lost but to a clear, and decisions and latencies in the   *)
(* exporter pair up but for a reset (record_probe_*, record_*, update,     *)
(* end_span, record_decision).                                             *)
(***************************************************************************)
THEOREM OnlyResetsTake == Spec => OnlyResetsLose
<1>1. Spec => [][CheckerKeeps]_(Checker!vars)
  <2>1. CheckerInv /\ [Next]_vars => [CheckerKeeps]_(Checker!vars)
    BY ProbesKept DEF checkerVars, Checker!vars
  <2> QED
    BY <2>1, CheckerBegins, CheckerStep, PTL DEF Spec
<1>2. Spec => [][CollectorKeeps]_(Collector!vars)
  <2>1. CollectorInv /\ [Next]_vars => [CollectorKeeps]_(Collector!vars)
    BY SamplesKept DEF collectorVars, Collector!vars
  <2> QED
    BY <2>1, CollectorBegins, CollectorStep, PTL DEF Spec
<1>3. Spec => [][PredictorKeeps]_(Predictor!vars)
  <2>1. PredictorInv /\ [Next]_vars => [PredictorKeeps]_(Predictor!vars)
    BY LatenciesKept DEF predictorVars, Predictor!vars
  <2> QED
    BY <2>1, PredictorBegins, PredictorStep, PTL DEF Spec
<1>4. Spec => []Tracing!NoSpanLost
  BY LocksBegin, LocksStep, SpansBegin, SpansStep, PlacedNotLost, PTL DEF Spec
<1>5. Spec => []Exporter!PairsUnlessReset
  BY ExporterBegins, ExporterStep, PairsBalanced, PTL DEF Spec
<1> QED
  BY <1>1, <1>2, <1>3, <1>4, <1>5, PTL
     DEF OnlyResetsLose, Checker!OnlyResetsLose, Collector!OnlyResetsLose,
         Predictor!OnlyResetsLose, CheckerKeeps, CollectorKeeps, PredictorKeeps

-----------------------------------------------------------------------------
(***************************************************************************)
(* The windows of the health checker.  A window has no more places than    *)
(* results, and a counter of consecutive results is about the newest of    *)
(* them: all it counts are of its kind, and the one before them is not,    *)
(* unless the counter has stopped at its threshold.  Only in a full window *)
(* of k can it have counted more than are left.                            *)
(***************************************************************************)
LEMMA OccursAtMost ==
  ASSUME NEW S, NEW s \in Seq(S), NEW x
  PROVE  /\ Occurs(x, s) \in Nat /\ Occurs(x, s) <= Len(s)
         /\ (\A i \in 1 .. Len(s) : s[i] = x) => Occurs(x, s) = Len(s)
         /\ (\A i \in 1 .. Len(s) : s[i] # x) => Occurs(x, s) = 0
<1> DEFINE n == Len(s)
           places == {i \in 1 .. n : s[i] = x}
<1>1. n \in Nat /\ DOMAIN s = 1 .. n
  OBVIOUS
<1>2. Occurs(x, s) = Cardinality(places)
  BY <1>1 DEF Occurs
<1>3. IsFiniteSet(1 .. n) /\ Cardinality(1 .. n) = n
  <2> HIDE DEF n
  <2>1. /\ IsFiniteSet(1 .. n)
        /\ Cardinality(1 .. n) = IF 1 > n THEN 0 ELSE n - 1 + 1
    BY <1>1, FS_Interval
  <2>2. n = IF 1 > n THEN 0 ELSE n - 1 + 1
    BY <1>1
  <2> QED
    BY <2>1, <2>2
<1>4. places \in SUBSET (1 .. n)
  OBVIOUS
<1>5. IsFiniteSet(places) /\ Cardinality(places) <= Cardinality(1 .. n)
  BY <1>3, <1>4, FS_Subset
<1>6. Cardinality(places) \in Nat
  BY <1>5, FS_CardinalityType
<1>7. ASSUME \A i \in 1 .. n : s[i] = x PROVE places = 1 .. n
  BY <1>7
<1>8. ASSUME \A i \in 1 .. n : s[i] # x PROVE Cardinality(places) = 0
  BY <1>8, FS_EmptySet
<1> HIDE DEF n, places
<1> QED
  BY <1>2, <1>3, <1>5, <1>6, <1>7, <1>8 DEF n

Counts(s, c, top, success, k) ==
  /\ c \in Nat /\ c <= top
  /\ \A i \in 1 .. Len(s) : i > Len(s) - c => (s[i] = "Healthy") = success
  /\ c < top /\ c < Len(s) => (s[Len(s) - c] = "Healthy") # success
  /\ c > Len(s) => Len(s) = k

LEMMA CountsWithRoom ==
  ASSUME NEW s \in ResultWindows, NEW c, NEW top \in Nat, NEW success \in BOOLEAN, NEW k \in Nat,
         Counts(s, c, top, success, k), Len(s) < k
  PROVE  Counts(s, c, top, success, k - 1)
BY DEF Counts, ResultWindows

LEMMA CountsEvicted ==
  ASSUME NEW s \in ResultWindows, s # <<>>, NEW c, NEW top \in Nat, NEW success \in BOOLEAN,
         Counts(s, c, top, success, Len(s))
  PROVE  Counts(Tail(s), c, top, success, Len(s) - 1)
<1> DEFINE r == Tail(s)
           n == Len(s)
<1>1. /\ n \in Nat /\ Len(r) = n - 1 /\ n >= 1
      /\ \A i \in 1 .. n - 1 : r[i] = s[i + 1]
  BY OccursOnceLess DEF ResultWindows
<1>2. /\ c \in Nat /\ c <= top
      /\ \A i \in 1 .. n : i > n - c => (s[i] = "Healthy") = success
      /\ c < top /\ c < n => (s[n - c] = "Healthy") # success
  BY DEF Counts
<1> HIDE DEF r, n
<1>3. \A i \in 1 .. n - 1 : i > n - 1 - c => (r[i] = "Healthy") = success
  <2> SUFFICES ASSUME NEW i \in 1 .. n - 1, i > n - 1 - c PROVE (r[i] = "Healthy") = success
    OBVIOUS
  <2>1. i + 1 \in 1 .. n /\ i + 1 > n - c
    BY <1>1, <1>2
  <2> QED
    BY <1>1, <1>2, <2>1
<1>4. c < top /\ c < n - 1 => (r[n - 1 - c] = "Healthy") # success
  <2> SUFFICES ASSUME c < top, c < n - 1 PROVE (r[n - 1 - c] = "Healthy") # success
    OBVIOUS
  <2>1. n - 1 - c \in 1 .. n - 1 /\ n - 1 - c + 1 = n - c /\ c < n
    BY <1>1, <1>2
  <2>2. r[n - 1 - c] = s[n - c]
    BY <1>1, <2>1
  <2> QED
    BY <1>2, <2>1, <2>2
<1>5. Counts(r, c, top, success, n - 1)
  BY <1>1, <1>2, <1>3, <1>4 DEF Counts
<1> QED
  BY <1>5 DEF r, n

LEMMA CountsOneMore ==
  ASSUME NEW s \in ResultWindows, NEW c, NEW top \in Nat, NEW success \in BOOLEAN, NEW k \in Nat,
         NEW x \in Checker!Results, (x = "Healthy") = success, Counts(s, c, top, success, k)
  PROVE  Counts(Append(s, x), Checker!Bump(c, top), top, success, k + 1)
<1> DEFINE r == Append(s, x)
           n == Len(s)
           d == Checker!Bump(c, top)
<1>1. /\ n \in Nat /\ Len(r) = n + 1
      /\ \A i \in 1 .. n + 1 : r[i] = IF i = n + 1 THEN x ELSE s[i]
  BY DEF ResultWindows
<1>2. /\ c \in Nat /\ c <= top
      /\ \A i \in 1 .. n : i > n - c => (s[i] = "Healthy") = success
      /\ c < top /\ c < n => (s[n - c] = "Healthy") # success
      /\ c > n => n = k
  BY DEF Counts
<1>3. d \in Nat /\ d <= top /\ d <= c + 1 /\ (d < top => c < top /\ d = c + 1)
  BY <1>2 DEF Checker!Bump
<1> HIDE DEF r, n, d
<1>4. \A i \in 1 .. n + 1 : i > n + 1 - d => (r[i] = "Healthy") = success
  <2> SUFFICES ASSUME NEW i \in 1 .. n + 1, i > n + 1 - d PROVE (r[i] = "Healthy") = success
    OBVIOUS
  <2>1. CASE i = n + 1
    BY <1>1, <2>1
  <2>2. CASE i # n + 1
    <3>1. i \in 1 .. n /\ i > n - c
      BY <1>1, <1>2, <1>3, <2>2
    <3> QED
      BY <1>1, <1>2, <2>2, <3>1
  <2> QED
    BY <2>1, <2>2
<1>5. d < top /\ d < n + 1 => (r[n + 1 - d] = "Healthy") # success
  <2> SUFFICES ASSUME d < top, d < n + 1 PROVE (r[n + 1 - d] = "Healthy") # success
    OBVIOUS
  <2>1. c < top /\ c < n /\ n + 1 - d = n - c /\ n - c \in 1 .. n + 1 /\ n - c # n + 1
    BY <1>1, <1>2, <1>3
  <2> QED
    BY <1>1, <1>2, <2>1
<1>6. d > n + 1 => n + 1 = k + 1
  BY <1>1, <1>2, <1>3
<1>7. Counts(r, d, top, success, k + 1)
  BY <1>1, <1>3, <1>4, <1>5, <1>6 DEF Counts
<1> QED
  BY <1>7 DEF r, d

LEMMA CountsNone ==
  ASSUME NEW s \in ResultWindows, NEW top \in Nat, NEW success \in BOOLEAN, NEW k \in Nat,
         NEW x \in Checker!Results, (x = "Healthy") # success
  PROVE  Counts(Append(s, x), 0, top, success, k)
<1>1. /\ Len(s) \in Nat /\ Len(Append(s, x)) = Len(s) + 1
      /\ Append(s, x)[Len(s) + 1] = x
  BY DEF ResultWindows
<1>2. Len(s) + 1 - 0 = Len(s) + 1
  BY <1>1
<1> QED
  BY <1>1, <1>2 DEF Counts

LEMMA CountsStreak ==
  ASSUME NEW s \in ResultWindows, NEW c, NEW top \in Nat, NEW success \in BOOLEAN, NEW k \in Nat,
         Counts(s, c, top, success, k)
  PROVE  /\ Checker!Streak(s, top, success) => c >= top
         /\ c >= top => \/ Checker!Streak(s, top, success)
                       \/ /\ top > Len(s) /\ Len(s) = k
                          /\ \A i \in 1 .. Len(s) : (s[i] = "Healthy") = success
<1> DEFINE n == Len(s)
<1>1. n \in Nat
  BY DEF ResultWindows
<1>2. /\ c \in Nat /\ c <= top
      /\ \A i \in 1 .. n : i > n - c => (s[i] = "Healthy") = success
      /\ c < top /\ c < n => (s[n - c] = "Healthy") # success
      /\ c > n => n = k
  BY DEF Counts
<1>3. Checker!Streak(s, top, success) <=>
        top <= n /\ \A i \in n - top + 1 .. n : (s[i] = "Healthy") = success
  BY DEF Checker!Streak
<1> HIDE DEF n
<1>4. ASSUME Checker!Streak(s, top, success), c < top PROVE FALSE
  <2>1. n - c \in n - top + 1 .. n /\ c < n
    BY <1>1, <1>2, <1>3, <1>4
  <2> QED
    BY <1>2, <1>3, <1>4, <2>1
<1>5. CASE c >= top /\ top <= n
  <2>1. \A i \in n - top + 1 .. n : i \in 1 .. n /\ i > n - c
    BY <1>1, <1>2, <1>5
  <2> QED
    BY <1>2, <1>3, <1>5, <2>1
<1>6. CASE c >= top /\ top > n
  <2>1. \A i \in 1 .. n : i > n - c
    BY <1>1, <1>2, <1>6
  <2> QED
    BY <1>1, <1>2, <1>6, <2>1 DEF n
<1> QED
  BY <1>1, <1>2, <1>4, <1>5, <1>6

WindowOf(d, k) ==
  /\ d \in RouteHealthData
  /\ Len(d.results) <= k
  /\ d.total_probes = Len(d.results)
  /\ d.successful_probes = Occurs("Healthy", d.results)
  /\ d.failed_probes = Len(d.results) - Occurs("Healthy", d.results)
  /\ Counts(d.results, d.consecutive_successes, config.healthy_threshold, TRUE, k)
  /\ Counts(d.results, d.consecutive_failures, config.unhealthy_threshold, FALSE, k)

LEMMA EvictMakesRoom ==
  ASSUME config \in Settings, NEW d, WindowOf(d, Checker!Capacity)
  PROVE  WindowOf(Checker!Evict(d), Checker!Capacity - 1)
<1> DEFINE s == d.results
           n == Len(s)
           k == Checker!Capacity
<1>1. k \in Nat /\ k >= 1 /\ config.window_size \in Nat /\ (config.window_size >= 1 => k = config.window_size)
      /\ (config.window_size = 0 => k = 1)
  BY DEF Checker!Capacity, Settings
<1>2. config.healthy_threshold \in Nat /\ config.unhealthy_threshold \in Nat
  BY DEF Settings
<1>3. d \in RouteHealthData /\ s \in ResultWindows /\ n \in Nat /\ n <= k
  BY DEF WindowOf, RouteHealthData, ResultWindows
<1>4. s = <<>> <=> n = 0
  BY <1>3 DEF ResultWindows
<1>5. /\ Counts(s, d.consecutive_successes, config.healthy_threshold, TRUE, k)
      /\ Counts(s, d.consecutive_failures, config.unhealthy_threshold, FALSE, k)
  BY DEF WindowOf
<1> HIDE DEF k
<1>6. CASE n < config.window_size \/ s = <<>>
  <2>1. Checker!Evict(d) = d
    BY <1>6 DEF Checker!Evict
  <2>2. n < k /\ n <= k - 1
    BY <1>1, <1>3, <1>4, <1>6
  <2>3. /\ Counts(s, d.consecutive_successes, config.healthy_threshold, TRUE, k - 1)
        /\ Counts(s, d.consecutive_failures, config.unhealthy_threshold, FALSE, k - 1)
    BY <1>1, <1>2, <1>3, <1>5, <2>2, CountsWithRoom
  <2> QED
    BY <1>1, <2>1, <2>2, <2>3 DEF WindowOf, k
<1>7. CASE n >= config.window_size /\ s # <<>>
  <2> DEFINE old == Checker!Evict(d)
             r == Tail(s)
             success == Head(s) = "Healthy"
  <2>1. n = k
    BY <1>1, <1>3, <1>4, <1>7
  <2>2. /\ r \in ResultWindows /\ Len(r) = n - 1
        /\ Occurs("Healthy", s) = Occurs("Healthy", r) + (IF success THEN 1 ELSE 0)
    BY <1>3, <1>7, OccursOnceLess DEF ResultWindows
  <2>3. /\ Occurs("Healthy", r) \in Nat /\ Occurs("Healthy", r) <= Len(r)
    BY <2>2, OccursAtMost DEF ResultWindows
  <2>4. /\ Counts(r, d.consecutive_successes, config.healthy_threshold, TRUE, k - 1)
        /\ Counts(r, d.consecutive_failures, config.unhealthy_threshold, FALSE, k - 1)
    BY <1>2, <1>3, <1>5, <1>7, <2>1, CountsEvicted
  <2>5. /\ old.results = r
        /\ old.total_probes = Checker!SaturatingLess(d.total_probes)
        /\ old.successful_probes = IF success THEN Checker!SaturatingLess(d.successful_probes)
                                   ELSE d.successful_probes
        /\ old.failed_probes = IF success THEN d.failed_probes
                               ELSE Checker!SaturatingLess(d.failed_probes)
        /\ old.consecutive_successes = d.consecutive_successes
        /\ old.consecutive_failures = d.consecutive_failures
    BY <1>1, <1>3, <1>7 DEF Checker!Evict, RouteHealthData
  <2>6. old \in RouteHealthData
    BY <1>3, EvictKeeps
  <2>7. /\ d.total_probes = n
        /\ d.successful_probes = Occurs("Healthy", s)
        /\ d.failed_probes = n - Occurs("Healthy", s)
    BY DEF WindowOf
  <2> HIDE DEF s, n, r, old, success
  <2>8. success \in BOOLEAN
    BY DEF success
  <2>9. /\ old.total_probes = Len(r)
        /\ old.successful_probes = Occurs("Healthy", r)
        /\ old.failed_probes = Len(r) - Occurs("Healthy", r)
    BY <1>1, <1>3, <2>1, <2>2, <2>3, <2>5, <2>7, <2>8 DEF Checker!SaturatingLess
  <2>10. Len(r) <= k - 1
    BY <2>1, <2>2, <1>1
  <2> QED
    BY <2>4, <2>5, <2>6, <2>9, <2>10 DEF WindowOf, old, k
<1> QED
  BY <1>1, <1>3, <1>6, <1>7

LEMMA AddFillsRoom ==
  ASSUME config \in Settings, NEW d, NEW k \in Nat, WindowOf(d, k), NEW status \in Checker!Results
  PROVE  WindowOf(Checker!Add(d, status), k + 1)
<1> DEFINE s == d.results
           r == Append(s, status)
           new == Checker!Add(d, status)
<1>1. config.healthy_threshold \in Nat /\ config.unhealthy_threshold \in Nat
  BY DEF Settings
<1>2. d \in RouteHealthData /\ s \in ResultWindows /\ Len(s) \in Nat /\ Len(s) <= k
  BY DEF WindowOf, RouteHealthData, ResultWindows
<1>3. new \in RouteHealthData /\ new.results = r
  BY <1>2, AddKeeps
<1>4. /\ r \in ResultWindows /\ Len(r) = Len(s) + 1
      /\ Occurs("Healthy", s) \in Nat
      /\ Occurs("Healthy", r) = Occurs("Healthy", s) + (IF status = "Healthy" THEN 1 ELSE 0)
  <2>1. s \in Seq(Checker!Results) /\ r \in ResultWindows /\ Len(r) = Len(s) + 1
    BY <1>2 DEF ResultWindows
  <2>2. /\ Occurs("Healthy", s) \in Nat
        /\ Occurs("Healthy", r) = Occurs("Healthy", s) + (IF "Healthy" = status THEN 1 ELSE 0)
    BY <2>1, OccursOnceMore
  <2> QED
    BY <2>1, <2>2
<1>5. /\ d.total_probes = Len(s)
      /\ d.successful_probes = Occurs("Healthy", s)
      /\ d.failed_probes = Len(s) - Occurs("Healthy", s)
      /\ Counts(s, d.consecutive_successes, config.healthy_threshold, TRUE, k)
      /\ Counts(s, d.consecutive_failures, config.unhealthy_threshold, FALSE, k)
  BY DEF WindowOf
<1>6. CASE status = "Healthy"
  <2>1. /\ new.total_probes = d.total_probes + 1
        /\ new.successful_probes = d.successful_probes + 1
        /\ new.failed_probes = d.failed_probes
        /\ new.consecutive_successes
             = Checker!Bump(d.consecutive_successes, config.healthy_threshold)
        /\ new.consecutive_failures = 0
    BY <1>2, <1>6 DEF Checker!Add, RouteHealthData
  <2> HIDE DEF s, new
  <2>2. Counts(r, new.consecutive_successes, config.healthy_threshold, TRUE, k + 1)
    <3>1. (status = "Healthy") = TRUE
      BY <1>6
    <3>2. Counts(r, Checker!Bump(d.consecutive_successes, config.healthy_threshold),
                 config.healthy_threshold, TRUE, k + 1)
      BY <1>1, <1>2, <1>5, <3>1, CountsOneMore
    <3> QED
      BY <2>1, <3>2
  <2>3. Counts(r, new.consecutive_failures, config.unhealthy_threshold, FALSE, k + 1)
    <3>1. (status = "Healthy") # FALSE
      BY <1>6
    <3>2. k + 1 \in Nat
      OBVIOUS
    <3>3. Counts(r, 0, config.unhealthy_threshold, FALSE, k + 1)
      BY <1>1, <1>2, <3>1, <3>2, CountsNone
    <3> QED
      BY <2>1, <3>3
  <2> HIDE DEF r
  <2>4. /\ Len(r) <= k + 1 /\ new.total_probes = Len(r)
        /\ new.successful_probes = Occurs("Healthy", r)
        /\ new.failed_probes = Len(r) - Occurs("Healthy", r)
    BY <1>2, <1>4, <1>5, <1>6, <2>1
  <2> QED
    BY <1>3, <2>2, <2>3, <2>4 DEF WindowOf, new
<1>7. CASE status # "Healthy"
  <2>1. /\ new.total_probes = d.total_probes + 1
        /\ new.successful_probes = d.successful_probes
        /\ new.failed_probes = d.failed_probes + 1
        /\ new.consecutive_failures
             = Checker!Bump(d.consecutive_failures, config.unhealthy_threshold)
        /\ new.consecutive_successes = 0
    BY <1>2, <1>7 DEF Checker!Add, RouteHealthData
  <2> HIDE DEF s, new
  <2>2. Counts(r, new.consecutive_successes, config.healthy_threshold, TRUE, k + 1)
    <3>1. (status = "Healthy") # TRUE
      BY <1>7
    <3>2. k + 1 \in Nat
      OBVIOUS
    <3>3. Counts(r, 0, config.healthy_threshold, TRUE, k + 1)
      BY <1>1, <1>2, <3>1, <3>2, CountsNone
    <3> QED
      BY <2>1, <3>3
  <2>3. Counts(r, new.consecutive_failures, config.unhealthy_threshold, FALSE, k + 1)
    <3>1. (status = "Healthy") = FALSE
      BY <1>7
    <3>2. Counts(r, Checker!Bump(d.consecutive_failures, config.unhealthy_threshold),
                 config.unhealthy_threshold, FALSE, k + 1)
      BY <1>1, <1>2, <1>5, <3>1, CountsOneMore
    <3> QED
      BY <2>1, <3>2
  <2> HIDE DEF r
  <2>4. /\ Len(r) <= k + 1 /\ new.total_probes = Len(r)
        /\ new.successful_probes = Occurs("Healthy", r)
        /\ new.failed_probes = Len(r) - Occurs("Healthy", r)
    BY <1>2, <1>4, <1>5, <1>7, <2>1
  <2> QED
    BY <1>3, <2>2, <2>3, <2>4 DEF WindowOf, new
<1> QED
  BY <1>6, <1>7

LEMMA StatusDeserved ==
  ASSUME config \in Settings, NEW d, WindowOf(d, Checker!Capacity), d.results # <<>>,
         ~Checker!CounterOutlives
  PROVE  Checker!UpdateStatus(d).current_status = Checker!Deserved(d.results)
<1> DEFINE s == d.results
           n == Len(s)
           healthy == config.healthy_threshold
           unhealthy == config.unhealthy_threshold
           c == d.consecutive_successes
           f == d.consecutive_failures
           rate == Checker!ByRate(Occurs("Healthy", s), n)
<1>1. healthy \in Nat /\ unhealthy \in Nat /\ Checker!Capacity \in Nat
  BY DEF Settings, Checker!Capacity
<1>2. d \in RouteHealthData /\ s \in ResultWindows /\ n \in Nat /\ n >= 1 /\ c \in Nat /\ f \in Nat
  BY DEF WindowOf, RouteHealthData, ResultWindows
<1>3. /\ Counts(s, c, healthy, TRUE, Checker!Capacity)
      /\ Counts(s, f, unhealthy, FALSE, Checker!Capacity)
  BY DEF WindowOf
<1>4. Checker!UpdateStatus(d).current_status =
        IF c >= healthy THEN "Healthy" ELSE IF f >= unhealthy THEN "Unhealthy" ELSE rate
  <2>1. d.successful_probes = Occurs("Healthy", s) /\ d.total_probes = n
    BY DEF WindowOf
  <2> QED
    BY <1>2, <2>1 DEF Checker!UpdateStatus, RouteHealthData
<1>5. Checker!Deserved(s) =
        IF Checker!Streak(s, healthy, TRUE) THEN "Healthy"
        ELSE IF Checker!Streak(s, unhealthy, FALSE) THEN "Unhealthy" ELSE rate
  BY HealthyOccurs DEF Checker!Deserved
<1>6. /\ healthy > n => ~Checker!Streak(s, healthy, TRUE)
      /\ unhealthy > n => ~Checker!Streak(s, unhealthy, FALSE)
  BY <1>1, <1>2 DEF Checker!Streak
<1>7. ~Checker!CounterOutlives => unhealthy # 0 \/ healthy <= Checker!Capacity
  BY <1>1 DEF Checker!CounterOutlives
<1> HIDE DEF n, c, f, healthy, unhealthy, rate
<1>8. /\ Checker!Streak(s, healthy, TRUE) => c >= healthy
      /\ c >= healthy => \/ Checker!Streak(s, healthy, TRUE)
                        \/ /\ healthy > n /\ n = Checker!Capacity
                           /\ \A i \in 1 .. n : (s[i] = "Healthy") = TRUE
  <2>1. TRUE \in BOOLEAN
    OBVIOUS
  <2> HIDE DEF s
  <2> QED
    BY <1>1, <1>2, <1>3, <2>1, CountsStreak DEF n
<1>9. /\ Checker!Streak(s, unhealthy, FALSE) => f >= unhealthy
      /\ f >= unhealthy => \/ Checker!Streak(s, unhealthy, FALSE)
                          \/ /\ unhealthy > n /\ n = Checker!Capacity
                             /\ \A i \in 1 .. n : (s[i] = "Healthy") = FALSE
  <2>1. FALSE \in BOOLEAN
    OBVIOUS
  <2> HIDE DEF s
  <2> QED
    BY <1>1, <1>2, <1>3, <2>1, CountsStreak DEF n
<1>10. CASE c >= healthy /\ ~Checker!Streak(s, healthy, TRUE)
  <2>1. healthy > n /\ n = Checker!Capacity /\ \A i \in 1 .. n : s[i] = "Healthy"
    BY <1>8, <1>10
  <2>2. unhealthy # 0
    BY <1>1, <1>2, <1>7, <2>1
  <2>3. ASSUME Checker!Streak(s, unhealthy, FALSE) PROVE FALSE
    <3>1. /\ unhealthy <= n
          /\ \A i \in n - unhealthy + 1 .. n : (s[i] = "Healthy") = FALSE
      BY <2>3 DEF Checker!Streak, n
    <3>2. n \in n - unhealthy + 1 .. n /\ n \in 1 .. n
      BY <1>1, <1>2, <2>2, <3>1
    <3> QED
      BY <2>1, <3>1, <3>2
  <2>4. Occurs("Healthy", s) = n
    BY <1>2, <2>1, OccursAtMost DEF n, ResultWindows
  <2>5. rate = "Healthy"
    BY <1>2, <2>4 DEF rate, Checker!ByRate
  <2> QED
    BY <1>4, <1>5, <1>10, <2>3, <2>5
<1>11. CASE c < healthy /\ f >= unhealthy /\ ~Checker!Streak(s, unhealthy, FALSE)
  <2>1. \A i \in 1 .. n : s[i] # "Healthy"
    BY <1>9, <1>11
  <2>2. Occurs("Healthy", s) = 0
    BY <1>2, <2>1, OccursAtMost DEF n, ResultWindows
  <2>3. rate = "Unhealthy"
    BY <1>2, <2>2 DEF rate, Checker!ByRate
  <2>4. ~(c >= healthy)
    BY <1>1, <1>2, <1>11
  <2>5. ~Checker!Streak(s, healthy, TRUE)
    BY <1>8, <2>4
  <2> QED
    BY <1>4, <1>5, <1>11, <2>3, <2>4, <2>5
<1>12. CASE Checker!Streak(s, healthy, TRUE)
  BY <1>4, <1>5, <1>8, <1>12
<1>13. CASE c < healthy /\ (f >= unhealthy <=> Checker!Streak(s, unhealthy, FALSE))
  <2>1. ~(c >= healthy)
    BY <1>1, <1>2, <1>13
  <2>2. ~Checker!Streak(s, healthy, TRUE)
    BY <1>8, <2>1
  <2> QED
    BY <1>4, <1>5, <1>13, <2>1, <2>2
<1>14. c >= healthy \/ c < healthy
  BY <1>1, <1>2
<1> QED
  BY <1>8, <1>9, <1>10, <1>11, <1>12, <1>13, <1>14

(***************************************************************************)
(* The inductive invariant of the status: every window is sound, and the   *)
(* status was computed from it.                                            *)
(***************************************************************************)
StatusInv ==
  \A r \in DOMAIN routes :
    /\ WindowOf(routes[r], Checker!Capacity)
    /\ ~Checker!CounterOutlives =>
         routes[r].current_status =
           IF routes[r].results = <<>> THEN "Unknown" ELSE Checker!Deserved(routes[r].results)

LEMMA NewIsSound ==
  ASSUME config \in Settings
  PROVE  /\ WindowOf(Checker!NewRouteHealthData, Checker!Capacity)
         /\ Checker!NewRouteHealthData.results = <<>>
         /\ Checker!NewRouteHealthData.current_status = "Unknown"
<1> DEFINE new == Checker!NewRouteHealthData
<1>1. /\ new \in RouteHealthData /\ new.results = <<>> /\ new.current_status = "Unknown"
      /\ new.total_probes = 0 /\ new.successful_probes = 0 /\ new.failed_probes = 0
      /\ new.consecutive_successes = 0 /\ new.consecutive_failures = 0
  BY DEF Checker!NewRouteHealthData, RouteHealthData, ResultWindows, Statuses
<1>2. config.healthy_threshold \in Nat /\ config.unhealthy_threshold \in Nat /\ Checker!Capacity \in Nat
  BY DEF Settings, Checker!Capacity
<1>3. Len(<<>>) = 0 /\ Occurs("Healthy", <<>>) = 0
  BY OccursNowhere
<1>4. \A top \in Nat, k \in Nat : Counts(<<>>, 0, top, TRUE, k) /\ Counts(<<>>, 0, top, FALSE, k)
  BY <1>3 DEF Counts
<1>5. /\ Counts(<<>>, 0, config.healthy_threshold, TRUE, Checker!Capacity)
      /\ Counts(<<>>, 0, config.unhealthy_threshold, FALSE, Checker!Capacity)
  BY <1>2, <1>4
<1>6. 0 <= Checker!Capacity /\ 0 - 0 = 0
  BY <1>2
<1> HIDE DEF new
<1>7. WindowOf(new, Checker!Capacity)
  BY <1>1, <1>3, <1>5, <1>6 DEF WindowOf
<1> QED
  BY <1>1, <1>7 DEF new

LEMMA StatusStep == CheckerInv /\ StatusInv /\ [Next]_vars => StatusInv'
<1> SUFFICES ASSUME CheckerInv, StatusInv, [Checker!Next]_checkerVars PROVE StatusInv'
  BY OneStepsAtATime
<1>1. config \in Settings /\ config' = config
  BY DEF CheckerInv, checkerVars, Checker!Next, Checker!AddRoute, Checker!Probe, Checker!Record,
         Checker!Reset
<1> DEFINE Sound(d) ==
      /\ WindowOf(d, Checker!Capacity)
      /\ ~Checker!CounterOutlives =>
           d.current_status = IF d.results = <<>> THEN "Unknown" ELSE Checker!Deserved(d.results)
<1>2. (\A r \in DOMAIN routes' : Sound(routes'[r])) => StatusInv'
  BY <1>1 DEF StatusInv, WindowOf, Checker!Capacity, Checker!CounterOutlives, Checker!Deserved
<1>3. \A r \in DOMAIN routes : Sound(routes[r])
  BY DEF StatusInv
<1>4. Sound(Checker!NewRouteHealthData)
  BY <1>1, NewIsSound
<1> HIDE DEF Sound
<1>5. ASSUME NEW r \in Routes, routes' = Checker!Created(r) PROVE StatusInv'
  BY <1>2, <1>3, <1>4, <1>5 DEF Checker!Created
<1>6. ASSUME NEW t \in Threads, Checker!Record(t) PROVE StatusInv'
  <2> DEFINE r == probe[t].route
             status == probe[t].status
             old == Checker!Evict(routes[r])
             new == Checker!Add(old, status)
  <2>1. status \in Checker!Results
    BY <1>6 DEF Checker!Record, CheckerInv
  <2>2. ASSUME r \in DOMAIN routes PROVE Sound(Checker!UpdateStatus(new))
    <3>1. Checker!Capacity - 1 \in Nat /\ Checker!Capacity - 1 + 1 = Checker!Capacity
      BY <1>1 DEF Settings, Checker!Capacity
    <3>2. WindowOf(old, Checker!Capacity - 1)
      BY <1>1, <1>3, <2>2, EvictMakesRoom DEF Sound
    <3>3. WindowOf(new, Checker!Capacity)
      BY <1>1, <2>1, <3>1, <3>2, AddFillsRoom
    <3>4. new \in RouteHealthData /\ new.results # <<>>
      <4>1. old \in RouteHealthData
        BY <3>2 DEF WindowOf
      <4>2. new \in RouteHealthData /\ new.results = Append(old.results, status)
        BY <1>1, <2>1, <4>1, AddKeeps
      <4>3. old.results \in Seq(Checker!Results)
        BY <4>1 DEF RouteHealthData, ResultWindows
      <4>4. Append(old.results, status) # <<>>
        BY <2>1, <4>3
      <4> QED
        BY <4>2, <4>4
    <3>5. WindowOf(Checker!UpdateStatus(new), Checker!Capacity)
      <4> DEFINE d == Checker!UpdateStatus(new)
      <4> HIDE DEF new
      <4>1. /\ d \in RouteHealthData /\ d.results = new.results
            /\ d.total_probes = new.total_probes
            /\ d.successful_probes = new.successful_probes /\ d.failed_probes = new.failed_probes
            /\ d.consecutive_successes = new.consecutive_successes
            /\ d.consecutive_failures = new.consecutive_failures
        BY <3>4, UpdateStatusKeeps
      <4> HIDE DEF d
      <4>2. WindowOf(d, Checker!Capacity)
        BY <3>3, <4>1 DEF WindowOf
      <4> QED
        BY <4>2 DEF d
    <3>6. ~Checker!CounterOutlives =>
            Checker!UpdateStatus(new).current_status = Checker!Deserved(new.results)
      BY <1>1, <3>3, <3>4, StatusDeserved
    <3> QED
      BY <3>4, <3>5, <3>6, UpdateStatusKeeps DEF Sound
  <2>3. routes' = IF r \in DOMAIN routes
                  THEN [routes EXCEPT ![r] = Checker!UpdateStatus(new)] ELSE routes
    BY <1>6 DEF Checker!Record
  <2> HIDE DEF r, new
  <2> QED
    BY <1>2, <1>3, <2>2, <2>3
<1>7. ASSUME NEW gone, Checker!Reset(gone) PROVE StatusInv'
  BY <1>2, <1>3, <1>7 DEF Checker!Reset
<1>8. CASE UNCHANGED checkerVars
  BY <1>2, <1>3, <1>8 DEF checkerVars
<1> QED
  BY <1>5, <1>6, <1>7, <1>8 DEF Checker!Next, Checker!AddRoute, Checker!Probe

(***************************************************************************)
(* The health checker's part of AnswersFromSamples: the counters of a      *)
(* route are those of its window, and its status is the one its window     *)
(* deserves, although the consecutive counters are never trimmed to it     *)
(* (record_result, update_status).                                         *)
(***************************************************************************)
THEOREM StatusOfTheWindow == Spec => []Checker!StatusFromWindow
<1>1. Init => StatusInv
  BY DEF Init, Checker!Init, Checker!NoRoutes, StatusInv
<1>2. CheckerInv /\ StatusInv => Checker!StatusFromWindow
  <2>1. \A s : Checker!Cardinality(Checker!Healthy(s)) = Occurs("Healthy", s)
    BY HealthyOccurs
  <2> QED
    BY <2>1 DEF StatusInv, WindowOf, Checker!StatusFromWindow
<1> QED
  BY <1>1, <1>2, CheckerBegins, CheckerStep, StatusStep, PTL DEF Spec

-----------------------------------------------------------------------------
(***************************************************************************)
(* The audit log.  Whole is the log's content as the end of all that was   *)
(* logged; InTime says that a thread's entries are in the order of their   *)
(* timestamps and that the one it is about to store is the latest of them, *)
(* which holds of one thread since it builds no entry before it has stored *)
(* the last.                                                               *)
(***************************************************************************)
Entry == [timestamp : Nat, actor : Threads, detail : Audit!Details \cup {"redacted"}]

Places == IF max_entries = 0 THEN 1 ELSE max_entries

Whole ==
  /\ entries \in Seq(Entry) /\ logged \in Seq(Entry)
  /\ Len(entries) = IF Len(logged) < Places THEN Len(logged) ELSE Places
  /\ \A i \in 1 .. Len(entries) : entries[i] = logged[Len(logged) - Len(entries) + i]
  /\ mask_sensitive_data => \A i \in 1 .. Len(entries) : entries[i].detail # "secret"

InTime ==
  /\ stamp \in Nat /\ DOMAIN draft = Threads
  /\ \A i \in 1 .. Len(entries) : entries[i].timestamp <= stamp
  /\ \A i, j \in 1 .. Len(entries) :
       i < j /\ entries[i].actor = entries[j].actor => entries[i].timestamp < entries[j].timestamp
  /\ \A t \in Threads : \A e \in draft[t] :
       /\ e \in Entry /\ e.actor = t /\ e.timestamp <= stamp
       /\ \A i \in 1 .. Len(entries) : entries[i].actor = t => entries[i].timestamp < e.timestamp

AuditInv == max_entries \in Nat /\ Whole /\ InTime

LEMMA AuditBegins == Init => AuditInv
BY LimitAssumption DEF Init, Audit!Init, AuditInv, Whole, InTime, Places

LEMMA MaskedEntry ==
  ASSUME NEW e \in Entry
  PROVE  LET m == Audit!Masked(e)
         IN  /\ m \in Entry /\ m.actor = e.actor /\ m.timestamp = e.timestamp
             /\ mask_sensitive_data => m.detail # "secret"
BY DEF Audit!Masked, Entry

LEMMA RoomLeft ==
  ASSUME AuditInv
  PROVE  LET n == Len(entries)
             gone == IF n >= max_entries /\ entries # <<>> THEN 1 ELSE 0
             r == Audit!Room
         IN  /\ n \in Nat /\ gone \in {0, 1} /\ gone <= n
             /\ r \in Seq(Entry) /\ Len(r) = n - gone
             /\ \A i \in 1 .. n - gone : r[i] = entries[i + gone] /\ i + gone \in 1 .. n
<1>1. entries \in Seq(Entry) /\ Len(entries) \in Nat
  BY DEF AuditInv, Whole
<1>2. CASE Len(entries) >= max_entries /\ entries # <<>>
  <2>1. /\ Tail(entries) \in Seq(Entry) /\ Len(Tail(entries)) = Len(entries) - 1
        /\ \A i \in 1 .. Len(entries) - 1 : Tail(entries)[i] = entries[i + 1]
        /\ Len(entries) >= 1
    BY <1>1, <1>2
  <2>2. Audit!Room = Tail(entries)
    BY <1>2 DEF Audit!Room
  <2> QED
    BY <1>1, <1>2, <2>1, <2>2
<1>3. CASE ~(Len(entries) >= max_entries /\ entries # <<>>)
  <2>1. Audit!Room = entries
    BY <1>3 DEF Audit!Room
  <2> QED
    BY <1>1, <1>3, <2>1
<1> QED
  BY <1>2, <1>3

LEMMA LogKeeps ==
  ASSUME AuditInv, NEW t \in Threads, Audit!Log(t)
  PROVE  AuditInv'
<1>1. PICK e \in draft[t] : /\ entries' = Append(Audit!Room, Audit!Masked(e))
                           /\ logged' = Append(logged, Audit!Masked(e))
  BY DEF Audit!Log
<1>2. draft' = [draft EXCEPT ![t] = {}] /\ UNCHANGED <<max_entries, mask_sensitive_data, stamp>>
  BY DEF Audit!Log
<1> DEFINE n == Len(entries)
           gone == IF n >= max_entries /\ entries # <<>> THEN 1 ELSE 0
           r == Audit!Room
           m == Audit!Masked(e)
           all == Len(logged)
<1>3. /\ e \in Entry /\ e.actor = t /\ e.timestamp <= stamp
      /\ \A i \in 1 .. n : entries[i].actor = t => entries[i].timestamp < e.timestamp
  BY DEF AuditInv, InTime
<1>4. /\ m \in Entry /\ m.actor = t /\ m.timestamp = e.timestamp
      /\ mask_sensitive_data => m.detail # "secret"
  BY <1>3, MaskedEntry
<1>5. /\ n \in Nat /\ gone \in {0, 1} /\ gone <= n
      /\ r \in Seq(Entry) /\ Len(r) = n - gone
      /\ \A i \in 1 .. n - gone : r[i] = entries[i + gone] /\ i + gone \in 1 .. n
  BY RoomLeft
<1>6. /\ entries \in Seq(Entry) /\ logged \in Seq(Entry) /\ all \in Nat
      /\ max_entries \in Nat /\ Places \in Nat /\ Places >= 1
      /\ n = IF all < Places THEN all ELSE Places
      /\ \A i \in 1 .. n : entries[i] = logged[all - n + i]
      /\ mask_sensitive_data => \A i \in 1 .. n : entries[i].detail # "secret"
  BY DEF AuditInv, Whole, Places
<1>7. gone = IF all < Places THEN 0 ELSE 1
  <2>1. entries = <<>> <=> n = 0
    BY <1>6
  <2> QED
    BY <1>6, <2>1 DEF Places
<1> HIDE DEF n, gone, r, m, all
<1>8. /\ entries' \in Seq(Entry) /\ Len(entries') = n - gone + 1
      /\ \A i \in 1 .. n - gone + 1 :
           entries'[i] = IF i = n - gone + 1 THEN m ELSE entries[i + gone]
  <2>1. /\ Append(r, m) \in Seq(Entry) /\ Len(Append(r, m)) = n - gone + 1
        /\ \A i \in 1 .. n - gone + 1 : Append(r, m)[i] = IF i = n - gone + 1 THEN m ELSE r[i]
    BY <1>4, <1>5
  <2>2. \A i \in 1 .. n - gone + 1 : i # n - gone + 1 => i \in 1 .. n - gone
    BY <1>5
  <2> QED
    BY <1>1, <1>5, <2>1, <2>2 DEF r, m
<1>9. /\ logged' \in Seq(Entry) /\ Len(logged') = all + 1
      /\ \A i \in 1 .. all + 1 : logged'[i] = IF i = all + 1 THEN m ELSE logged[i]
  <2>1. /\ Append(logged, m) \in Seq(Entry) /\ Len(Append(logged, m)) = all + 1
        /\ \A i \in 1 .. all + 1 : Append(logged, m)[i] = IF i = all + 1 THEN m ELSE logged[i]
    BY <1>4, <1>6 DEF all
  <2> QED
    BY <1>1, <2>1 DEF m
<1>10. \A i \in 1 .. n - gone + 1 : i = n - gone + 1 \/ (i # n - gone + 1 /\ i + gone \in 1 .. n)
  BY <1>5
<1>11. Whole'
  <2>1. Places' = Places
    BY <1>2 DEF Places
  <2>2. n - gone + 1 = IF all + 1 < Places THEN all + 1 ELSE Places
    BY <1>5, <1>6, <1>7
  <2>3. ASSUME NEW i \in 1 .. n - gone + 1
        PROVE  entries'[i] = logged'[all + 1 - (n - gone + 1) + i]
    <3>1. CASE i = n - gone + 1
      <4>1. all + 1 - (n - gone + 1) + i = all + 1 /\ all + 1 \in 1 .. all + 1
        BY <1>5, <1>6, <3>1
      <4> QED
        BY <1>8, <1>9, <3>1, <4>1
    <3>2. CASE i # n - gone + 1
      <4>0. n <= all /\ n \in Nat /\ all \in Nat /\ gone \in Nat /\ gone <= n
        BY <1>5, <1>6
      <4>1. /\ all + 1 - (n - gone + 1) + i = all - n + (i + gone)
            /\ all - n + (i + gone) \in 1 .. all + 1 /\ all - n + (i + gone) # all + 1
            /\ i + gone \in 1 .. n
        BY <3>2, <4>0
      <4>2. logged'[all - n + (i + gone)] = logged[all - n + (i + gone)]
        BY <1>9, <4>1
      <4> QED
        BY <1>6, <1>8, <3>2, <4>1, <4>2
    <3> QED
      BY <3>1, <3>2
  <2>4. mask_sensitive_data => \A i \in 1 .. n - gone + 1 : entries'[i].detail # "secret"
    BY <1>4, <1>6, <1>8, <1>10
  <2>5. Len(entries') = IF Len(logged') < Places' THEN Len(logged') ELSE Places'
    <3>1. Len(entries') = n - gone + 1 /\ Len(logged') = all + 1
      BY <1>8, <1>9
    <3> QED
      BY <2>1, <2>2, <3>1
  <2>6. \A i \in 1 .. Len(entries') : entries'[i] = logged'[Len(logged') - Len(entries') + i]
    <3>1. Len(entries') = n - gone + 1 /\ Len(logged') = all + 1
      BY <1>8, <1>9
    <3> SUFFICES ASSUME NEW i \in 1 .. Len(entries')
                 PROVE  entries'[i] = logged'[Len(logged') - Len(entries') + i]
      OBVIOUS
    <3>2. i \in 1 .. n - gone + 1
      BY <3>1
    <3>3. entries'[i] = logged'[all + 1 - (n - gone + 1) + i]
      BY <2>3, <3>2
    <3>4. Len(logged') - Len(entries') + i = all + 1 - (n - gone + 1) + i
      <4>1. n \in Nat /\ gone \in Nat /\ all \in Nat /\ i \in Int
        BY <1>5, <1>6, <3>2
      <4> QED
        BY <3>1, <4>1
    <3> QED
      BY <3>3, <3>4
  <2>7. mask_sensitive_data' => \A i \in 1 .. Len(entries') : entries'[i].detail # "secret"
    BY <1>2, <1>8, <2>4
  <2> QED
    BY <1>8, <1>9, <2>5, <2>6, <2>7 DEF Whole
<1>12. InTime'
  <2>1. /\ stamp \in Nat /\ DOMAIN draft = Threads
        /\ \A i \in 1 .. n : entries[i].timestamp <= stamp
        /\ \A i, j \in 1 .. n : i < j /\ entries[i].actor = entries[j].actor
                                => entries[i].timestamp < entries[j].timestamp
        /\ \A u \in Threads : \A d \in draft[u] :
             /\ d \in Entry /\ d.actor = u /\ d.timestamp <= stamp
             /\ \A i \in 1 .. n : entries[i].actor = u => entries[i].timestamp < d.timestamp
    BY DEF AuditInv, InTime, n
  <2>2. \A i \in 1 .. n - gone + 1 : entries'[i].timestamp <= stamp
    BY <1>3, <1>4, <1>8, <1>10, <2>1
  <2>3. ASSUME NEW i \in 1 .. n - gone + 1, NEW j \in 1 .. n - gone + 1,
               i < j, entries'[i].actor = entries'[j].actor
        PROVE  entries'[i].timestamp < entries'[j].timestamp
    <3>1. i # n - gone + 1 /\ i + gone \in 1 .. n /\ i + gone < j + gone
      BY <1>5, <2>3
    <3>2. CASE j = n - gone + 1
      BY <1>3, <1>4, <1>8, <2>3, <3>1, <3>2
    <3>3. CASE j # n - gone + 1
      <4>1. j + gone \in 1 .. n
        BY <1>10, <3>3
      <4> QED
        BY <1>8, <2>1, <2>3, <3>1, <3>3, <4>1
    <3> QED
      BY <3>2, <3>3
  <2>4. ASSUME NEW u \in Threads, NEW d \in draft'[u]
        PROVE  /\ d \in Entry /\ d.actor = u /\ d.timestamp <= stamp
               /\ \A i \in 1 .. n - gone + 1 :
                    entries'[i].actor = u => entries'[i].timestamp < d.timestamp
    <3>1. u # t /\ d \in draft[u]
      BY <1>2, <2>1, <2>4
    <3> QED
      BY <1>4, <1>8, <1>10, <2>1, <3>1
  <2>5. DOMAIN draft' = Threads
    BY <1>2, <2>1
  <2> QED
    BY <1>2, <1>8, <2>1, <2>2, <2>3, <2>4, <2>5 DEF InTime
<1> QED
  BY <1>2, <1>6, <1>11, <1>12 DEF AuditInv

LEMMA AuditStep == AuditInv /\ [Next]_vars => AuditInv'
<1> SUFFICES ASSUME AuditInv, [Audit!Next]_auditVars PROVE AuditInv'
  BY OneStepsAtATime
<1>1. ASSUME NEW t \in Threads, Audit!Build(t) PROVE AuditInv'
  <2>1. PICK d \in Audit!Details :
          draft' = [draft EXCEPT ![t] = {[timestamp |-> stamp', actor |-> t, detail |-> d]}]
    BY <1>1 DEF Audit!Build
  <2>2. stamp' = stamp + 1 /\ UNCHANGED <<max_entries, mask_sensitive_data, entries, logged>>
    BY <1>1 DEF Audit!Build
  <2>3. Whole'
    BY <2>2 DEF AuditInv, Whole, Places
  <2>4. InTime'
    <3> DEFINE new == [timestamp |-> stamp + 1, actor |-> t, detail |-> d]
    <3>1. new \in Entry /\ new.timestamp = stamp + 1 /\ new.actor = t
      BY DEF AuditInv, InTime, Entry
    <3>2. draft' = [draft EXCEPT ![t] = {new}]
      BY <2>1, <2>2
    <3>3. stamp \in Nat /\ stamp < stamp + 1 /\ \A k \in Nat : k <= stamp => k < stamp + 1
      BY DEF AuditInv, InTime
    <3>4. \A i \in 1 .. Len(entries) : entries[i].timestamp \in Nat
      <4>1. \A i \in 1 .. Len(entries) : entries[i] \in Entry
        BY DEF AuditInv, Whole
      <4> QED
        BY <4>1 DEF Entry
    <3> HIDE DEF new
    <3>5. ASSUME NEW u \in Threads, NEW e \in draft'[u]
          PROVE  /\ e \in Entry /\ e.actor = u /\ e.timestamp <= stamp + 1
                 /\ \A i \in 1 .. Len(entries) :
                      entries[i].actor = u => entries[i].timestamp < e.timestamp
      <4>1. CASE u = t
        <5>1. e = new
          BY <3>2, <3>5, <4>1 DEF AuditInv, InTime
        <5> QED
          BY <3>1, <3>3, <3>4, <4>1, <5>1 DEF AuditInv, InTime
      <4>2. CASE u # t
        <5>1. e \in draft[u]
          BY <3>2, <3>5, <4>2 DEF AuditInv, InTime
        <5>2. e \in Entry /\ e.timestamp \in Nat /\ e.timestamp <= stamp
          BY <5>1 DEF AuditInv, InTime, Entry
        <5> QED
          BY <3>3, <5>1, <5>2 DEF AuditInv, InTime
      <4> QED
        BY <4>1, <4>2
    <3>6. \A i \in 1 .. Len(entries) : entries[i].timestamp <= stamp + 1
      BY <3>3, <3>4 DEF AuditInv, InTime
    <3>7. DOMAIN draft' = Threads /\ stamp' \in Nat
      BY <2>2, <3>2, <3>3 DEF AuditInv, InTime
    <3>8. \A i, j \in 1 .. Len(entries) :
            i < j /\ entries[i].actor = entries[j].actor
              => entries[i].timestamp < entries[j].timestamp
      BY DEF AuditInv, InTime
    <3>9. entries' = entries /\ stamp' = stamp + 1
      BY <2>2
    <3>10. \A u \in Threads : \A e \in draft'[u] :
             /\ e \in Entry /\ e.actor = u /\ e.timestamp <= stamp'
             /\ \A i \in 1 .. Len(entries') :
                  entries'[i].actor = u => entries'[i].timestamp < e.timestamp
      BY <3>5, <3>9
    <3>11. /\ \A i \in 1 .. Len(entries') : entries'[i].timestamp <= stamp'
           /\ \A i, j \in 1 .. Len(entries') :
                i < j /\ entries'[i].actor = entries'[j].actor
                  => entries'[i].timestamp < entries'[j].timestamp
      BY <3>6, <3>8, <3>9
    <3> QED
      BY <3>7, <3>10, <3>11 DEF InTime
  <2> QED
    BY <2>2, <2>3, <2>4 DEF AuditInv
<1>2. ASSUME Audit!Clear PROVE AuditInv'
  BY <1>2 DEF Audit!Clear, AuditInv, Whole, InTime, Places
<1>3. CASE UNCHANGED auditVars
  <2>1. UNCHANGED <<max_entries, mask_sensitive_data, entries, draft, stamp, logged>>
    BY <1>3 DEF auditVars
  <2>2. Whole' = Whole /\ InTime' = InTime
    BY <2>1 DEF Whole, InTime, Places
  <2> QED
    BY <2>1, <2>2 DEF AuditInv
<1> QED
  BY <1>1, <1>2, <1>3, LogKeeps DEF Audit!Next

(***************************************************************************)
(* A query finds the newest of what it wants: whatever it leaves out has   *)
(* as many wanted entries after it as the limit allows.                    *)
(***************************************************************************)
LEMMA QueryFindsNewest ==
  ASSUME entries \in Seq(Entry), NEW wanted, NEW limit \in Nat,
         NEW i \in Audit!Query(wanted, limit), NEW j \in DOMAIN entries,
         entries[j] \in wanted, j < i \/ j \notin Audit!Query(wanted, limit)
  PROVE  i \in DOMAIN entries /\ entries[i] \in wanted /\ j < i
<1> DEFINE After(k) == {l \in DOMAIN entries : l > k /\ entries[l] \in wanted}
<1>1. \A S : Audit!Cardinality(S) = Cardinality(S)
  BY DEF Audit!Cardinality, Cardinality
<1>2. \A k : k \in Audit!Query(wanted, limit) <=>
             k \in DOMAIN entries /\ entries[k] \in wanted /\ Cardinality(After(k)) < limit
  BY <1>1 DEF Audit!Query
<1>3. DOMAIN entries = 1 .. Len(entries) /\ Len(entries) \in Nat
  OBVIOUS
<1>4. \A k : IsFiniteSet(After(k)) /\ Cardinality(After(k)) \in Nat
  <2>1. IsFiniteSet(DOMAIN entries)
    BY <1>3, FS_Interval
  <2>2. \A k : After(k) \in SUBSET DOMAIN entries
    OBVIOUS
  <2> HIDE DEF After
  <2>3. \A k : IsFiniteSet(After(k))
    BY <2>1, <2>2, FS_Subset
  <2> QED
    BY <2>3, FS_CardinalityType
<1>5. ASSUME ~(j < i) PROVE FALSE
  <2>1. j \notin Audit!Query(wanted, limit)
    BY <1>5
  <2>2. After(j) \in SUBSET After(i)
    <3>0. i \in DOMAIN entries
      BY <1>2
    <3>1. i \in 1 .. Len(entries) /\ j \in 1 .. Len(entries) /\ i <= j
      BY <1>3, <1>5, <3>0
    <3>2. \A l \in 1 .. Len(entries) : l > j => l > i
      BY <1>3, <3>1
    <3> QED
      BY <1>3, <3>2
  <2> HIDE DEF After
  <2>3. Cardinality(After(j)) <= Cardinality(After(i))
    BY <1>4, <2>2, FS_Subset
  <2>4. Cardinality(After(i)) < limit /\ ~(Cardinality(After(j)) < limit)
    BY <1>2, <2>1
  <2>5. Cardinality(After(i)) \in Nat /\ Cardinality(After(j)) \in Nat
    BY <1>4
  <2> QED
    BY <2>3, <2>4, <2>5
<1> QED
  BY <1>2, <1>5

LEMMA LogAnswers == AuditInv => Audit!LogIsNewest
<1> SUFFICES ASSUME AuditInv PROVE Audit!LogIsNewest
  OBVIOUS
<1> DEFINE n == Len(entries)
           all == Len(logged)
<1>1. /\ entries \in Seq(Entry) /\ logged \in Seq(Entry) /\ n \in Nat /\ all \in Nat
      /\ Places \in Nat /\ DOMAIN entries = 1 .. n
      /\ n = IF all < Places THEN all ELSE Places
      /\ \A i \in 1 .. n : entries[i] = logged[all - n + i]
  <2>1. /\ entries \in Seq(Entry) /\ logged \in Seq(Entry)
        /\ n = IF all < Places THEN all ELSE Places
        /\ \A i \in 1 .. n : entries[i] = logged[all - n + i]
    BY DEF AuditInv, Whole
  <2>2. Places \in Nat
    BY DEF AuditInv, Places
  <2>3. n \in Nat /\ all \in Nat /\ DOMAIN entries = 1 .. n
    BY <2>1
  <2> HIDE DEF n, all
  <2> QED
    BY <2>1, <2>2, <2>3
<1>2. Audit!Max({max_entries, 1}) = Places
  <2>1. max_entries \in Nat /\ Places \in {max_entries, 1}
        /\ \A y \in {max_entries, 1} : Places >= y
        /\ \A x \in {max_entries, 1} : (\A z \in {max_entries, 1} : x >= z) => x = Places
    BY DEF AuditInv, Places
  <2> QED
    BY <2>1 DEF Audit!Max
<1>3. Audit!Min({all, Places}) = n
  <2>1. n \in {all, Places} /\ \A y \in {all, Places} : n <= y
    BY <1>1
  <2>2. \A x \in {all, Places} : (\A y \in {all, Places} : x <= y) => x = n
    BY <1>1
  <2> HIDE DEF n, all
  <2> QED
    BY <2>1, <2>2 DEF Audit!Min
<1>4. entries = SubSeq(logged, all - n + 1, all)
  <2> HIDE DEF n, all
  <2> DEFINE r == SubSeq(logged, all - n + 1, all)
  <2>1. n <= all
    BY <1>1
  <2>2. all - n + 1 \in 1 .. all + 1
    BY <1>1, <2>1
  <2>3. r \in Seq(Entry) /\ Len(r) = n /\ \A i \in 1 .. n : r[i] = logged[all - n + 1 + i - 1]
    <3>1. \A i \in all - n + 1 .. all : logged[i] \in Entry
      BY <1>1, <2>1 DEF all
    <3>2. all - n + 1 \in Int /\ all \in Int
      BY <1>1
    <3>3. /\ r \in Seq(Entry)
          /\ Len(r) = IF all - n + 1 <= all THEN all - (all - n + 1) + 1 ELSE 0
          /\ \A i \in 1 .. all - (all - n + 1) + 1 : r[i] = logged[all - n + 1 + i - 1]
      BY <3>1, <3>2, SubSeqProperties
    <3>4. /\ all - (all - n + 1) + 1 = n
          /\ (IF all - n + 1 <= all THEN all - (all - n + 1) + 1 ELSE 0) = n
      BY <1>1, <2>1
    <3> HIDE DEF r
    <3> QED
      BY <3>3, <3>4
  <2> HIDE DEF r
  <2>5. ASSUME NEW i \in 1 .. n PROVE r[i] = entries[i]
    <3>1. all - n + 1 + i - 1 = all - n + i
      BY <1>1
    <3>2. r[i] = logged[all - n + 1 + i - 1]
      BY <2>3
    <3>3. entries[i] = logged[all - n + i]
      BY <1>1
    <3> QED
      BY <3>1, <3>2, <3>3
  <2>6. r = entries
    <3>1. Len(r) = Len(entries) /\ \A i \in 1 .. Len(r) : r[i] = entries[i]
      BY <2>3, <2>5 DEF n
    <3> QED
      BY <1>1, <2>3, <3>1, SeqEqual
  <2> QED
    BY <2>6 DEF r
<1>5. mask_sensitive_data => \A i \in DOMAIN entries : entries[i].detail # "secret"
  BY <1>1 DEF AuditInv, Whole
<1>6. ASSUME NEW t \in Threads, NEW limit \in 0 .. n,
             NEW i \in Audit!Query({e \in Audit!ToSet(entries) : e.actor = t}, limit),
             NEW j \in DOMAIN entries,
             entries[j] \in {e \in Audit!ToSet(entries) : e.actor = t},
             j < i \/ j \notin Audit!Query({e \in Audit!ToSet(entries) : e.actor = t}, limit)
      PROVE  entries[i].timestamp > entries[j].timestamp
  <2> DEFINE mine == {e \in Audit!ToSet(entries) : e.actor = t}
  <2>1. \A e \in mine : e.actor = t
    OBVIOUS
  <2> HIDE DEF mine
  <2>2. limit \in Nat
    BY <1>1
  <2>3. i \in DOMAIN entries /\ entries[i] \in mine /\ j < i
    BY <1>1, <1>6, <2>2, QueryFindsNewest DEF mine
  <2>4. entries[j] \in mine
    BY <1>6 DEF mine
  <2>5. entries[j].timestamp < entries[i].timestamp
    BY <1>1, <2>1, <2>3, <2>4 DEF AuditInv, InTime
  <2>6. entries[i].timestamp \in Nat /\ entries[j].timestamp \in Nat
    <3>1. entries[i] \in Entry /\ entries[j] \in Entry
      BY <1>1, <2>3
    <3> QED
      BY <3>1 DEF Entry
  <2> QED
    BY <2>5, <2>6
<1> HIDE DEF n, all
<1> QED
  BY <1>2, <1>3, <1>4, <1>5, <1>6 DEF Audit!LogIsNewest, n, all

(***************************************************************************)
(* The audit log's part of AnswersFromSamples: the log is the newest end   *)
(* of what was logged, and what is found of one thread goes back in time   *)
(* and leaves out only what is older (log, get_entries_by_actor).          *)
(***************************************************************************)
THEOREM LogOfTheNewest == Spec => []Audit!LogIsNewest
BY AuditBegins, AuditStep, LogAnswers, PTL DEF Spec

-----------------------------------------------------------------------------
(***************************************************************************)
(* Induction.  The natural numbers are well founded, so what holds of the  *)
(* numbers of a set but not of its least cannot hold of a nonempty one.    *)
(***************************************************************************)
LEMMA LeastNatural ==
  ASSUME NEW T \in SUBSET Nat, T # {}
  PROVE  \E n \in T : \A m \in T : n <= m
<1> DEFINE R == OpToRel(<, Nat)
<1>1. IsWellFoundedOn(R, Nat)
  BY NatLessThanWellFounded
<1>2. \A x, y \in Nat : <<x, y>> \in R <=> x < y
  BY DEF OpToRel
<1> HIDE DEF R
<1>3. PICK n \in T : \A m \in T : <<m, n>> \notin R
  BY <1>1, WFMin
<1>4. \A m \in T : m \in Nat /\ n \in Nat /\ ~(m < n)
  BY <1>2, <1>3
<1>5. \A m \in T : n <= m
  BY <1>4
<1> QED
  BY <1>5

LEMMA InductionTo ==
  ASSUME NEW n \in Nat, NEW S, 0 \in S, \A m \in 0 .. n - 1 : m \in S => m + 1 \in S
  PROVE  0 .. n \subseteq S
<1> DEFINE T == (0 .. n) \ S
<1> SUFFICES ASSUME T # {} PROVE FALSE
  OBVIOUS
<1>1. T \in SUBSET Nat
  OBVIOUS
<1>2. PICK m \in T : \A k \in T : m <= k
  BY <1>1, LeastNatural
<1>3. m \in 0 .. n /\ m # 0 /\ m \notin S
  BY <1>2
<1>4. m - 1 \in 0 .. n - 1 /\ m - 1 \in 0 .. n /\ ~(m <= m - 1)
  BY <1>3
<1>5. m - 1 \in S
  BY <1>2, <1>4
<1>6. (m - 1) + 1 = m
  BY <1>3
<1> QED
  BY <1>3, <1>4, <1>5, <1>6

LEMMA TimesMore ==
  ASSUME NEW a \in Int, NEW b \in Int, a <= b, NEW c \in Nat
  PROVE  c * a <= c * b /\ a * c <= b * c
<1>1. b - a \in Nat /\ c * (b - a) >= 0
  OBVIOUS
<1>2. c * (b - a) = c * b - c * a /\ a * c = c * a /\ b * c = c * b
  OBVIOUS
<1>3. c * a \in Int /\ c * b \in Int
  OBVIOUS
<1> QED
  BY <1>1, <1>2, <1>3

LEMMA AverageBetween ==
  ASSUME NEW D \in Nat \ {0}, NEW A \in 0 .. D, NEW u \in Nat,
         NEW l \in Int, NEW h \in Int, NEW m \in Int, NEW x \in Int,
         l * u <= m, m <= h * u, l <= x, x <= h
  PROVE  /\ l * (D * u) <= A * x * u + (D - A) * m
         /\ A * x * u + (D - A) * m <= h * (D * u)
<1>1. A * u \in Nat /\ D - A \in Nat /\ l * u \in Int /\ h * u \in Int
  OBVIOUS
<1>2. (A * u) * l <= (A * u) * x /\ (A * u) * x <= (A * u) * h
  BY <1>1, TimesMore
<1>3. (D - A) * (l * u) <= (D - A) * m /\ (D - A) * m <= (D - A) * (h * u)
  BY <1>1, TimesMore
<1>4. /\ (A * u) * x = A * x * u
      /\ (A * u) * l + (D - A) * (l * u) = l * (D * u)
      /\ (A * u) * h + (D - A) * (h * u) = h * (D * u)
  OBVIOUS
<1>5. /\ (A * u) * x \in Int /\ (A * u) * l \in Int /\ (A * u) * h \in Int
      /\ (D - A) * (l * u) \in Int /\ (D - A) * (h * u) \in Int /\ (D - A) * m \in Int
  BY <1>1
<1> QED
  BY <1>2, <1>3, <1>4, <1>5

-----------------------------------------------------------------------------
(***************************************************************************)
(* The least and the greatest of a set of natural numbers, as they grow.   *)
(***************************************************************************)
Spans(S, l, h) == l \in S /\ h \in S /\ \A x \in S : l <= x /\ x <= h

LEMMA Extremes ==
  ASSUME NEW S \in SUBSET Nat, NEW l, NEW h, Spans(S, l, h)
  PROVE  /\ Collector!Min(S) = l /\ Collector!Max(S) = h
         /\ Predictor!Min(S) = l /\ Predictor!Max(S) = h
<1>1. l \in S /\ (\A y \in S : l <= y) /\ \A x \in S : (\A y \in S : x <= y) => x = l
  BY DEF Spans
<1>2. h \in S /\ (\A y \in S : h >= y) /\ \A x \in S : (\A y \in S : x >= y) => x = h
  BY DEF Spans
<1>3. (CHOOSE x \in S : \A y \in S : x <= y) = l
  BY <1>1
<1>4. (CHOOSE x \in S : \A y \in S : x >= y) = h
  BY <1>2
<1> QED
  BY <1>3, <1>4 DEF Collector!Min, Collector!Max, Predictor!Min, Predictor!Max

LEMMA ExtremesGrow ==
  ASSUME NEW S \in SUBSET Nat, NEW x \in Nat, NEW l, NEW h, Spans(S, l, h)
  PROVE  \E low, high :
           /\ Spans(S \cup {x}, low, high)
           /\ low <= l /\ h <= high /\ low <= x /\ x <= high
<1> DEFINE low == IF x < l THEN x ELSE l
           high == IF x > h THEN x ELSE h
<1>1. l \in Nat /\ h \in Nat /\ l \in S /\ h \in S /\ \A y \in S : y \in Nat /\ l <= y /\ y <= h
  BY DEF Spans
<1>2. low \in S \cup {x} /\ high \in S \cup {x}
  BY <1>1
<1>3. low <= l /\ h <= high /\ low <= x /\ x <= high /\ low \in Nat /\ high \in Nat
  BY <1>1
<1> HIDE DEF low, high
<1>4. Spans(S \cup {x}, low, high)
  BY <1>1, <1>2, <1>3 DEF Spans
<1> QED
  BY <1>2, <1>3, <1>4

(* An average within the samples stays there with one more sample.           *)
LEMMA AverageStays ==
  ASSUME NEW S \in SUBSET Nat, NEW x \in Nat, NEW l, NEW h, Spans(S, l, h),
         NEW D \in Nat \ {0}, NEW A \in 0 .. D, NEW u \in Nat \ {0}, NEW m \in Nat,
         l * u <= m, m <= h * u
  PROVE  \E low, high :
           /\ Spans(S \cup {x}, low, high)
           /\ low <= l /\ h <= high /\ low <= x /\ x <= high
           /\ low * u <= m /\ m <= high * u
           /\ low * (D * u) <= A * x * u + (D - A) * m
           /\ A * x * u + (D - A) * m <= high * (D * u)
<1>1. PICK low, high :
        Spans(S \cup {x}, low, high) /\ low <= l /\ h <= high /\ low <= x /\ x <= high
  BY ExtremesGrow
<1>2. low \in Nat /\ high \in Nat /\ l \in Nat /\ h \in Nat
  BY <1>1 DEF Spans
<1>3. low * u <= l * u /\ h * u <= high * u
  BY <1>1, <1>2, TimesMore
<1>4. low * u \in Nat /\ l * u \in Nat /\ h * u \in Nat /\ high * u \in Nat
  BY <1>2
<1>5. low * u <= m /\ m <= high * u
  BY <1>3, <1>4
<1>6. /\ low * (D * u) <= A * x * u + (D - A) * m
      /\ A * x * u + (D - A) * m <= high * (D * u)
  BY <1>1, <1>2, <1>5, AverageBetween
<1> QED
  BY <1>1, <1>5, <1>6

LEMMA GreatestOfSequence ==
  ASSUME NEW s \in Seq(Nat), s # <<>>
  PROVE  \E j \in 1 .. Len(s) : \A i \in 1 .. Len(s) : s[i] <= s[j]
<1> DEFINE n == Len(s)
           Found(m) == \E j \in 1 .. n : \A i \in 1 .. m : s[i] <= s[j]
           S == {m \in 0 .. n : Found(m)}
<1>1. n \in Nat /\ n >= 1 /\ \A i \in 1 .. n : s[i] \in Nat
  OBVIOUS
<1> HIDE DEF n
<1>2. 0 \in S
  BY <1>1
<1>3. ASSUME NEW m \in 0 .. n - 1, m \in S PROVE m + 1 \in S
  <2>1. PICK j \in 1 .. n : \A i \in 1 .. m : s[i] <= s[j]
    BY <1>3
  <2>2. m + 1 \in 1 .. n /\ m + 1 \in 0 .. n
    BY <1>1
  <2>3. \A i \in 1 .. m + 1 : i \in 1 .. m \/ i = m + 1
    BY <1>1
  <2>4. \A i \in 1 .. m : i \in 1 .. n
    BY <1>1
  <2>5. CASE s[m + 1] <= s[j]
    <3>1. Found(m + 1)
      BY <2>1, <2>3, <2>5
    <3> QED
      BY <2>2, <3>1
  <2>6. CASE ~(s[m + 1] <= s[j])
    <3>1. s[m + 1] \in Nat /\ s[j] \in Nat /\ \A i \in 1 .. m : s[i] \in Nat
      BY <1>1, <2>2, <2>4
    <3>2. \A i \in 1 .. m + 1 : s[i] <= s[m + 1]
      BY <2>1, <2>3, <2>6, <3>1
    <3>3. Found(m + 1)
      BY <2>2, <3>2
    <3> QED
      BY <2>2, <3>3
  <2> QED
    BY <2>5, <2>6
<1> HIDE DEF S
<1>4. 0 .. n \subseteq S
  BY <1>1, <1>2, <1>3, InductionTo
<1>5. n \in S
  BY <1>1, <1>4
<1> QED
  BY <1>5 DEF S, n

LEMMA SequenceExtremes ==
  ASSUME NEW s \in Seq(Nat), s # <<>>
  PROVE  \E l, h \in Nat : Spans(Elements(s), l, h)
<1>1. DOMAIN s = 1 .. Len(s) /\ Len(s) >= 1 /\ Len(s) \in Nat /\ \A i \in 1 .. Len(s) : s[i] \in Nat
  OBVIOUS
<1>2. Elements(s) \in SUBSET Nat /\ Elements(s) # {}
  <2>1. 1 \in DOMAIN s
    BY <1>1
  <2> QED
    BY <1>1, <2>1 DEF Elements
<1>3. PICK l \in Elements(s) : \A x \in Elements(s) : l <= x
  BY <1>2, LeastNatural
<1>4. PICK j \in 1 .. Len(s) : \A i \in 1 .. Len(s) : s[i] <= s[j]
  BY GreatestOfSequence
<1>5. s[j] \in Elements(s) /\ \A x \in Elements(s) : x <= s[j]
  BY <1>1, <1>4 DEF Elements
<1> QED
  BY <1>2, <1>3, <1>5 DEF Spans

-----------------------------------------------------------------------------
(***************************************************************************)
(* The collector's percentiles.  Sorted(s, k) is the k-th of the sorted    *)
(* sequence: the least of its elements that at least k do not exceed.      *)
(***************************************************************************)
Below(s, x) == Cardinality({i \in DOMAIN s : s[i] < x})
UpTo(s, x) == Cardinality({i \in DOMAIN s : s[i] <= x})

LEMMA CountedPlaces ==
  ASSUME NEW s \in Seq(Nat), NEW x \in Nat
  PROVE  /\ Below(s, x) \in Nat /\ UpTo(s, x) \in Nat
         /\ \A y \in Nat : y < x => UpTo(s, y) <= Below(s, x)
         /\ x = 0 => Below(s, x) = 0
         /\ x > 0 => UpTo(s, x - 1) = Below(s, x)
         /\ UpTo(s, x) # Below(s, x) => x \in Elements(s)
         /\ (\A i \in 1 .. Len(s) : s[i] <= x) => UpTo(s, x) = Len(s)
<1> DEFINE n == Len(s)
           fewer == {i \in 1 .. n : s[i] < x}
           most(y) == {i \in 1 .. n : s[i] <= y}
<1>1. n \in Nat /\ DOMAIN s = 1 .. n /\ \A i \in 1 .. n : s[i] \in Nat
  OBVIOUS
<1>2. Below(s, x) = Cardinality(fewer) /\ \A y : UpTo(s, y) = Cardinality(most(y))
  BY <1>1 DEF Below, UpTo
<1> HIDE DEF n
<1>3. IsFiniteSet(1 .. n) /\ Cardinality(1 .. n) = n
  <2>1. /\ IsFiniteSet(1 .. n)
        /\ Cardinality(1 .. n) = IF 1 > n THEN 0 ELSE n - 1 + 1
    BY <1>1, FS_Interval
  <2>2. n = IF 1 > n THEN 0 ELSE n - 1 + 1
    BY <1>1
  <2> QED
    BY <2>1, <2>2
<1>4. fewer \in SUBSET (1 .. n) /\ \A y : most(y) \in SUBSET (1 .. n)
  OBVIOUS
<1>5. IsFiniteSet(fewer) /\ \A y : IsFiniteSet(most(y))
  BY <1>3, <1>4, FS_Subset
<1>6. Cardinality(fewer) \in Nat /\ \A y : Cardinality(most(y)) \in Nat
  BY <1>5, FS_CardinalityType
<1>7. ASSUME NEW y \in Nat, y < x PROVE Cardinality(most(y)) <= Cardinality(fewer)
  <2>1. most(y) \in SUBSET fewer
    BY <1>1, <1>7
  <2> QED
    BY <1>5, <2>1, FS_Subset
<1>8. ASSUME x = 0 PROVE Cardinality(fewer) = 0
  <2>1. fewer = {}
    BY <1>1, <1>8
  <2> QED
    BY <2>1, FS_EmptySet
<1>9. ASSUME x > 0 PROVE most(x - 1) = fewer
  BY <1>1, <1>9
<1>10. ASSUME Cardinality(most(x)) # Cardinality(fewer) PROVE x \in Elements(s)
  <2>1. most(x) # fewer
    BY <1>10
  <2>2. PICK i \in 1 .. n : s[i] = x
    BY <1>1, <2>1
  <2> QED
    BY <1>1, <2>2 DEF Elements
<1>11. ASSUME \A i \in 1 .. n : s[i] <= x PROVE Cardinality(most(x)) = n
  <2>1. most(x) = 1 .. n
    BY <1>11
  <2> QED
    BY <1>3, <2>1
<1> HIDE DEF fewer, most
<1>12. /\ Below(s, x) \in Nat /\ UpTo(s, x) \in Nat
       /\ \A y \in Nat : y < x => UpTo(s, y) <= Below(s, x)
  BY <1>2, <1>6, <1>7
<1>13. /\ x = 0 => Below(s, x) = 0
       /\ x > 0 => UpTo(s, x - 1) = Below(s, x)
  BY <1>2, <1>8, <1>9
<1>14. /\ UpTo(s, x) # Below(s, x) => x \in Elements(s)
       /\ (\A i \in 1 .. n : s[i] <= x) => UpTo(s, x) = n
  BY <1>2, <1>10, <1>11
<1> QED
  BY <1>12, <1>13, <1>14 DEF n

LEMMA SortedIsThere ==
  ASSUME NEW s \in Seq(Nat), NEW k \in 1 .. Len(s)
  PROVE  /\ Collector!Sorted(s, k) \in Elements(s) /\ Collector!Sorted(s, k) \in Nat
         /\ Below(s, Collector!Sorted(s, k)) < k /\ k <= UpTo(s, Collector!Sorted(s, k))
<1> DEFINE T == {x \in Nat : k <= UpTo(s, x)}
<1>1. s # <<>> /\ k \in Nat /\ k >= 1 /\ Len(s) \in Nat /\ DOMAIN s = 1 .. Len(s)
      /\ (\A i \in 1 .. Len(s) : s[i] \in Nat) /\ k <= Len(s)
  OBVIOUS
<1>2. T # {}
  <2>1. PICK j \in 1 .. Len(s) : \A i \in 1 .. Len(s) : s[i] <= s[j]
    BY <1>1, GreatestOfSequence
  <2>2. s[j] \in Nat /\ UpTo(s, s[j]) = Len(s)
    BY <1>1, <2>1, CountedPlaces
  <2> QED
    BY <1>1, <2>2
<1>3. PICK x \in T : \A y \in T : x <= y
  BY <1>2, LeastNatural
<1>4. x \in Nat /\ k <= UpTo(s, x) /\ Below(s, x) \in Nat /\ UpTo(s, x) \in Nat
  BY <1>3, CountedPlaces
<1>5. Below(s, x) < k
  <2>1. CASE x = 0
    BY <1>1, <1>4, <2>1, CountedPlaces
  <2>2. CASE x > 0
    <3>1. x - 1 \in Nat /\ ~(x <= x - 1)
      BY <1>4, <2>2
    <3>2. x - 1 \notin T
      BY <1>3, <3>1
    <3>3. UpTo(s, x - 1) \in Nat /\ ~(k <= UpTo(s, x - 1)) /\ UpTo(s, x - 1) = Below(s, x)
      BY <1>4, <2>2, <3>1, <3>2, CountedPlaces
    <3> QED
      BY <1>1, <3>3
  <2> QED
    BY <1>4, <2>1, <2>2
<1>6. x \in Elements(s)
  BY <1>1, <1>4, <1>5, CountedPlaces
<1>7. /\ \A S : Collector!Cardinality(S) = Cardinality(S)
      /\ Collector!ToSet(s) = Elements(s)
  BY DEF Collector!Cardinality, Cardinality, Collector!ToSet, Elements
<1>8. Collector!Sorted(s, k) = CHOOSE y \in Elements(s) : Below(s, y) < k /\ k <= UpTo(s, y)
  BY <1>7 DEF Collector!Sorted, Below, UpTo
<1> HIDE DEF T
<1>9. /\ Collector!Sorted(s, k) \in Elements(s)
      /\ Below(s, Collector!Sorted(s, k)) < k /\ k <= UpTo(s, Collector!Sorted(s, k))
  BY <1>4, <1>5, <1>6, <1>8
<1>10. Elements(s) \in SUBSET Nat
  BY <1>1 DEF Elements
<1> QED
  BY <1>9, <1>10

LEMMA SortedAscends ==
  ASSUME NEW s \in Seq(Nat), NEW k \in 1 .. Len(s), NEW j \in 1 .. Len(s), k <= j
  PROVE  Collector!Sorted(s, k) <= Collector!Sorted(s, j)
<1> DEFINE v == Collector!Sorted(s, k)
           w == Collector!Sorted(s, j)
<1>1. /\ v \in Nat /\ w \in Nat /\ Below(s, v) < k /\ j <= UpTo(s, w)
      /\ Below(s, v) \in Nat /\ UpTo(s, w) \in Nat
  BY SortedIsThere, CountedPlaces
<1>2. w < v => UpTo(s, w) <= Below(s, v)
  BY <1>1, CountedPlaces
<1> HIDE DEF v, w
<1>3. ~(w < v)
  BY <1>1, <1>2
<1> QED
  BY <1>1, <1>3 DEF v, w

(* Between two samples the interpolated value rises with the fraction.       *)
Interpolated(a, b, f) == (a * (100 - f) + b * f + 50) \div 100

LEMMA InterpolationRises ==
  ASSUME NEW a \in Nat, NEW b \in Nat, a <= b, NEW f \in 0 .. 99, NEW g \in f .. 99
  PROVE  /\ Interpolated(a, b, f) \in Nat
         /\ a <= Interpolated(a, b, f) /\ Interpolated(a, b, f) <= b
         /\ Interpolated(a, b, f) <= Interpolated(a, b, g)
         /\ f = 0 => Interpolated(a, b, f) = a
<1>1. b - a \in Nat /\ f \in Nat /\ g \in Nat /\ f <= g /\ g <= 99
  OBVIOUS
<1> DEFINE t(n) == n * (b - a)
<1>2. t(f) \in Nat /\ t(g) \in Nat /\ t(f) <= t(g) /\ t(f) <= t(100) /\ t(100) = 100 * (b - a)
  <2>1. /\ f * (b - a) <= g * (b - a)
        /\ f * (b - a) <= 100 * (b - a)
    BY <1>1, TimesMore
  <2> QED
    BY <1>1, <2>1
<1>3. /\ a * (100 - f) + b * f + 50 = 100 * a + t(f) + 50
      /\ a * (100 - g) + b * g + 50 = 100 * a + t(g) + 50
  BY <1>1
<1>4. f = 0 => t(f) = 0
  BY <1>1
<1>5. /\ Interpolated(a, b, f) = (100 * a + t(f) + 50) \div 100
      /\ Interpolated(a, b, g) = (100 * a + t(g) + 50) \div 100
  BY <1>3 DEF Interpolated
<1> HIDE DEF t
<1> QED
  BY <1>1, <1>2, <1>4, <1>5

(* What Percentile reads off at a rank, in hundredths.                       *)
AtRank(s, rank) ==
  IF rank % 100 = 0 THEN Collector!Sorted(s, rank \div 100 + 1)
  ELSE Interpolated(Collector!Sorted(s, rank \div 100 + 1),
                    Collector!Sorted(s, rank \div 100 + 2), rank % 100)

LEMMA AtRankBetween ==
  ASSUME NEW s \in Seq(Nat), s # <<>>, NEW l, NEW h, Spans(Elements(s), l, h),
         NEW rank \in 0 .. 100 * (Len(s) - 1)
  PROVE  /\ AtRank(s, rank) \in Nat /\ l <= AtRank(s, rank) /\ AtRank(s, rank) <= h
         /\ rank \div 100 + 1 \in 1 .. Len(s)
         /\ rank % 100 # 0 => rank \div 100 + 2 \in 1 .. Len(s)
         /\ Collector!Sorted(s, rank \div 100 + 1) <= AtRank(s, rank)
         /\ rank % 100 # 0 => AtRank(s, rank) <= Collector!Sorted(s, rank \div 100 + 2)
<1> DEFINE k == rank \div 100
           f == rank % 100
           n == Len(s)
<1>1. /\ n \in Nat /\ n >= 1 /\ rank \in Nat /\ rank <= 100 * (n - 1)
      /\ k \in Nat /\ f \in 0 .. 99 /\ rank = 100 * k + f
  OBVIOUS
<1>2. k + 1 \in 1 .. n /\ (f # 0 => k + 2 \in 1 .. n)
  <2> HIDE DEF k, f, n
  <2> QED
    BY <1>1
<1>3. DOMAIN s = 1 .. n /\ \A i \in 1 .. n : s[i] \in Nat
  OBVIOUS
<1>4. \A x \in Elements(s) : x \in Nat /\ l <= x /\ x <= h /\ l \in Nat /\ h \in Nat
  BY <1>3 DEF Spans, Elements
<1> HIDE DEF k, f, n
<1>5. /\ Collector!Sorted(s, k + 1) \in Nat
      /\ l <= Collector!Sorted(s, k + 1) /\ Collector!Sorted(s, k + 1) <= h
  BY <1>2, <1>4, SortedIsThere DEF n
<1>6. CASE f = 0
  <2>1. AtRank(s, rank) = Collector!Sorted(s, k + 1)
    BY <1>6 DEF AtRank, k, f
  <2> QED
    BY <1>2, <1>5, <1>6, <2>1 DEF k, f, n
<1>7. CASE f # 0
  <2> DEFINE a == Collector!Sorted(s, k + 1)
             b == Collector!Sorted(s, k + 2)
             v == Interpolated(a, b, f)
  <2>1. b \in Nat /\ b <= h
    BY <1>2, <1>4, <1>7, SortedIsThere DEF n
  <2>2. a <= b
    BY <1>1, <1>2, <1>7, SortedAscends DEF n
  <2>3. AtRank(s, rank) = v
    BY <1>7 DEF AtRank, k, f
  <2>4. a \in Nat /\ l <= a /\ l \in Nat /\ h \in Nat
    BY <1>2, <1>4, <1>5, SortedIsThere DEF n
  <2> HIDE DEF a, b, v
  <2>5. v \in Nat /\ a <= v /\ v <= b
    <3>1. f \in f .. 99
      BY <1>1
    <3> QED
      BY <1>1, <2>1, <2>2, <2>4, <3>1, InterpolationRises DEF v
  <2>6. v \in Nat /\ l <= v /\ v <= h
    BY <2>1, <2>4, <2>5
  <2> QED
    BY <1>2, <2>3, <2>5, <2>6 DEF a, b, k, f, n
<1> QED
  BY <1>6, <1>7

LEMMA AtRankAscends ==
  ASSUME NEW s \in Seq(Nat), s # <<>>,
         NEW rank \in 0 .. 100 * (Len(s) - 1), NEW higher \in rank .. 100 * (Len(s) - 1)
  PROVE  AtRank(s, rank) <= AtRank(s, higher)
<1> DEFINE k == rank \div 100
           f == rank % 100
           j == higher \div 100
           g == higher % 100
           n == Len(s)
<1>1. /\ n \in Nat /\ n >= 1 /\ higher \in 0 .. 100 * (n - 1)
      /\ rank \in Nat /\ higher \in Nat /\ rank <= higher
      /\ k \in Nat /\ f \in 0 .. 99 /\ rank = 100 * k + f
      /\ j \in Nat /\ g \in 0 .. 99 /\ higher = 100 * j + g
  OBVIOUS
<1>2. PICK l, h \in Nat : Spans(Elements(s), l, h)
  BY SequenceExtremes
<1>3. /\ k + 1 \in 1 .. n /\ (f # 0 => k + 2 \in 1 .. n)
      /\ AtRank(s, rank) \in Nat
      /\ f # 0 => AtRank(s, rank) <= Collector!Sorted(s, k + 2)
  BY <1>2, AtRankBetween
<1>4. /\ j + 1 \in 1 .. n /\ (g # 0 => j + 2 \in 1 .. n)
      /\ AtRank(s, higher) \in Nat
      /\ Collector!Sorted(s, j + 1) <= AtRank(s, higher)
  BY <1>1, <1>2, AtRankBetween
<1>5. /\ AtRank(s, rank) = IF f = 0 THEN Collector!Sorted(s, k + 1)
                           ELSE Interpolated(Collector!Sorted(s, k + 1), Collector!Sorted(s, k + 2), f)
      /\ AtRank(s, higher) = IF g = 0 THEN Collector!Sorted(s, j + 1)
                             ELSE Interpolated(Collector!Sorted(s, j + 1), Collector!Sorted(s, j + 2), g)
  BY DEF AtRank
<1>6. \A i \in 1 .. n : Collector!Sorted(s, i) \in Nat
  BY SortedIsThere
<1>7. \A i, m \in 1 .. n : i <= m => Collector!Sorted(s, i) <= Collector!Sorted(s, m)
  BY SortedAscends
<1> HIDE DEF k, f, j, g, n
<1>8. CASE k < j
  <2>1. k + 2 <= j + 1 /\ k + 1 <= j + 1 /\ k + 2 \in 1 .. n
    BY <1>1, <1>4, <1>8
  <2>2. AtRank(s, rank) <= Collector!Sorted(s, j + 1)
    <3>1. CASE f = 0
      BY <1>3, <1>4, <1>5, <1>7, <2>1, <3>1
    <3>2. CASE f # 0
      <4>1. Collector!Sorted(s, k + 2) <= Collector!Sorted(s, j + 1)
        BY <1>4, <1>7, <2>1
      <4> QED
        BY <1>3, <1>4, <1>6, <2>1, <3>2, <4>1
    <3> QED
      BY <3>1, <3>2
  <2> QED
    BY <1>3, <1>4, <1>6, <2>2
<1>9. CASE k = j
  <2>1. f <= g
    BY <1>1, <1>9
  <2>2. CASE g = 0
    <3>1. f = 0
      BY <1>1, <2>1, <2>2
    <3> QED
      BY <1>5, <1>9, <2>2, <3>1, <1>3
  <2>3. CASE g # 0
    <3> DEFINE a == Collector!Sorted(s, k + 1)
               b == Collector!Sorted(s, k + 2)
    <3>1. a \in Nat /\ b \in Nat
      BY <1>3, <1>4, <1>6, <1>9, <2>3
    <3>2. a <= b
      BY <1>1, <1>3, <1>4, <1>7, <1>9, <2>3
    <3>3. g \in f .. 99
      BY <1>1, <2>1
    <3> HIDE DEF a, b
    <3>4. Interpolated(a, b, f) <= Interpolated(a, b, g) /\ (f = 0 => Interpolated(a, b, f) = a)
      BY <1>1, <3>1, <3>2, <3>3, InterpolationRises
    <3>5. AtRank(s, rank) = Interpolated(a, b, f)
      BY <1>5, <3>4 DEF a, b
    <3>6. AtRank(s, higher) = Interpolated(a, b, g)
      BY <1>5, <1>9, <2>3 DEF a, b
    <3> QED
      BY <3>4, <3>5, <3>6
  <2> QED
    BY <2>2, <2>3
<1>10. k <= j
  BY <1>1
<1> QED
  BY <1>1, <1>8, <1>9, <1>10

LEMMA PercentilesInOrder ==
  ASSUME NEW d, d.latencies \in Seq(Nat)
  PROVE  LET stats == Collector!Stats(d)
             percentile == stats.percentiles
         IN  /\ stats.min_latency_ms <= percentile[50]
             /\ percentile[50] <= percentile[95] /\ percentile[95] <= percentile[99]
             /\ percentile[99] <= stats.max_latency_ms
<1> DEFINE s == d.latencies
           stats == Collector!Stats(d)
           n == Len(s)
<1>1. Collector!ToSet(s) = Elements(s)
  BY DEF Collector!ToSet, Elements
<1>2. /\ stats.percentiles[50] = Collector!Percentile(d, 50)
      /\ stats.percentiles[95] = Collector!Percentile(d, 95)
      /\ stats.percentiles[99] = Collector!Percentile(d, 99)
      /\ stats.min_latency_ms = IF Elements(s) = {} THEN 0 ELSE Collector!Min(Elements(s))
      /\ stats.max_latency_ms = IF Elements(s) = {} THEN 0 ELSE Collector!Max(Elements(s))
  BY <1>1 DEF Collector!Stats
<1>3. \A p : Collector!Percentile(d, p) = IF s = <<>> THEN 0 ELSE AtRank(s, p * (n - 1))
  BY DEF Collector!Percentile, AtRank, Interpolated
<1> HIDE DEF stats
<1>4. CASE s = <<>>
  <2>1. Elements(s) = {}
    BY <1>4 DEF Elements
  <2> QED
    BY <1>2, <1>3, <1>4, <2>1 DEF stats
<1>5. CASE s # <<>>
  <2>1. PICK l, h \in Nat : Spans(Elements(s), l, h)
    BY <1>5, SequenceExtremes
  <2>2. Elements(s) # {} /\ Elements(s) \in SUBSET Nat
    <3>1. \A i \in DOMAIN s : s[i] \in Nat
      OBVIOUS
    <3> QED
      BY <2>1, <3>1 DEF Spans, Elements
  <2>3. stats.min_latency_ms = l /\ stats.max_latency_ms = h
    BY <1>2, <2>1, <2>2, Extremes
  <2>4. n \in Nat /\ n >= 1
    BY <1>5
  <2> HIDE DEF n
  <2>5. /\ 50 * (n - 1) \in 0 .. 100 * (n - 1) /\ 99 * (n - 1) \in 0 .. 100 * (n - 1)
        /\ 95 * (n - 1) \in 0 .. 100 * (n - 1)
        /\ 95 * (n - 1) \in 50 * (n - 1) .. 100 * (n - 1)
        /\ 99 * (n - 1) \in 95 * (n - 1) .. 100 * (n - 1)
    BY <2>4
  <2>6. l <= AtRank(s, 50 * (n - 1)) /\ AtRank(s, 99 * (n - 1)) <= h
    BY <1>5, <2>1, <2>5, AtRankBetween DEF n
  <2>7. /\ AtRank(s, 50 * (n - 1)) <= AtRank(s, 95 * (n - 1))
        /\ AtRank(s, 95 * (n - 1)) <= AtRank(s, 99 * (n - 1))
    BY <1>5, <2>5, AtRankAscends DEF n
  <2> QED
    BY <1>2, <1>3, <1>5, <2>3, <2>6, <2>7 DEF stats
<1> QED
  BY <1>4, <1>5

-----------------------------------------------------------------------------
(***************************************************************************)
(* The collector's inductive invariant.  The counters of a route are those *)
(* of its window of outcomes, and the EMA, ema_latency / unit, lies        *)
(* between the least and the greatest latency the route was ever given;    *)
(* a thread about to record holds metrics that exist.                      *)
(***************************************************************************)
RouteMetricsData ==
  [ latencies : Seq(Nat), successes : Seq(BOOLEAN),
    total_requests : Nat, successful_requests : Nat, failed_requests : Nat,
    ema_latency : Nat, unit : Nat \ {0} ]

Averages(d, S) ==
  /\ S \in SUBSET Nat
  /\ S = {} => d.ema_latency = 0
  /\ S # {} => \E l, h : /\ Spans(S, l, h)
                        /\ l * d.unit <= d.ema_latency /\ d.ema_latency <= h * d.unit

Tallies(d) ==
  /\ d.total_requests = Len(d.successes)
  /\ d.successful_requests = Occurs(TRUE, d.successes)
  /\ d.failed_requests = Occurs(FALSE, d.successes)

InWindows(d) == Len(d.latencies) <= window_size /\ Len(d.successes) <= window_size

StatsInv ==
  /\ window_size \in Nat \ {0}
  /\ data \in Seq(RouteMetricsData)
  /\ DOMAIN seen = DOMAIN data
  /\ \A i \in DOMAIN data : Averages(data[i], seen[i]) /\ Tallies(data[i]) /\ InWindows(data[i])
  /\ \A r \in DOMAIN index : index[r] \in DOMAIN data
  /\ \A t \in Threads : step[t] = "record" =>
       handle[t] \in DOMAIN data /\ sample[t] \in Collector!Samples

LEMMA PushKeeps ==
  ASSUME NEW S, NEW w \in Seq(S), NEW x \in S, window_size \in Nat \ {0}, Len(w) <= window_size
  PROVE  Collector!Push(w, x) \in Seq(S) /\ Len(Collector!Push(w, x)) <= window_size
<1>1. CASE Len(w) >= window_size
  <2>1. w # <<>> /\ Collector!Push(w, x) = Append(Tail(w), x)
    BY <1>1 DEF Collector!Push
  <2>2. Tail(w) \in Seq(S) /\ Len(Tail(w)) = Len(w) - 1
    BY <2>1
  <2>3. Append(Tail(w), x) \in Seq(S) /\ Len(Append(Tail(w), x)) = Len(w) /\ Len(w) \in Nat
    BY <2>2
  <2> QED
    BY <2>1, <2>3
<1>2. CASE ~(Len(w) >= window_size)
  BY <1>2 DEF Collector!Push
<1> QED
  BY <1>1, <1>2

LEMMA LatencyKept ==
  ASSUME CollectorAssumption, NEW d \in RouteMetricsData, NEW S, NEW ms \in Nat,
         window_size \in Nat \ {0}, Averages(d, S), Tallies(d), InWindows(d)
  PROVE  LET e == Collector!WithLatency(d, ms)
         IN  e \in RouteMetricsData /\ Averages(e, S \cup {ms}) /\ Tallies(e) /\ InWindows(e)
<1> DEFINE e == Collector!WithLatency(d, ms)
           x == d.ema_latency
           u == d.unit
<1>1. /\ x \in Nat /\ u \in Nat \ {0} /\ d.latencies \in Seq(Nat) /\ d.successes \in Seq(BOOLEAN)
      /\ S \in SUBSET Nat
  BY DEF RouteMetricsData, Averages
<1>2. AlphaDen \in Nat \ {0} /\ AlphaNum \in 0 .. AlphaDen
  BY DEF CollectorAssumption
<1>3. /\ Collector!Push(d.latencies, ms) \in Seq(Nat)
      /\ Len(Collector!Push(d.latencies, ms)) <= window_size
  BY <1>1, PushKeeps DEF InWindows
<1>4. /\ AlphaNum * ms * u + (AlphaDen - AlphaNum) * x \in Nat
      /\ AlphaDen * u \in Nat \ {0}
  <2>1. AlphaNum * ms \in Nat /\ AlphaNum * ms * u \in Nat
    BY <1>1, <1>2
  <2>2. AlphaDen - AlphaNum \in Nat /\ (AlphaDen - AlphaNum) * x \in Nat
    BY <1>1, <1>2
  <2>3. AlphaDen * u \in Nat \ {0}
    BY <1>1, <1>2
  <2> QED
    BY <2>1, <2>2, <2>3
<1>5. /\ e = [d EXCEPT !.latencies = Collector!Push(d.latencies, ms),
                       !.ema_latency = IF x = 0 THEN ms
                                       ELSE AlphaNum * ms * u + (AlphaDen - AlphaNum) * x,
                       !.unit = IF x = 0 THEN 1 ELSE AlphaDen * u]
  BY DEF Collector!WithLatency
<1>6. /\ e \in RouteMetricsData
      /\ e.latencies = Collector!Push(d.latencies, ms) /\ e.successes = d.successes
      /\ e.total_requests = d.total_requests
      /\ e.successful_requests = d.successful_requests /\ e.failed_requests = d.failed_requests
      /\ e.ema_latency = IF x = 0 THEN ms ELSE AlphaNum * ms * u + (AlphaDen - AlphaNum) * x
      /\ e.unit = IF x = 0 THEN 1 ELSE AlphaDen * u
  <2> DEFINE w == Collector!Push(d.latencies, ms)
             y == IF x = 0 THEN ms ELSE AlphaNum * ms * u + (AlphaDen - AlphaNum) * x
             v == IF x = 0 THEN 1 ELSE AlphaDen * u
  <2>1. y \in Nat /\ v \in Nat \ {0}
    BY <1>4
  <2>2. e = [d EXCEPT !.latencies = w, !.ema_latency = y, !.unit = v]
    BY <1>5
  <2> HIDE DEF e, w, y, v
  <2>3. w \in Seq(Nat)
    BY <1>3 DEF w
  <2>4. /\ e \in RouteMetricsData
        /\ e.latencies = w /\ e.successes = d.successes
        /\ e.total_requests = d.total_requests
        /\ e.successful_requests = d.successful_requests /\ e.failed_requests = d.failed_requests
        /\ e.ema_latency = y /\ e.unit = v
    BY <2>1, <2>2, <2>3 DEF RouteMetricsData
  <2> QED
    BY <2>4 DEF w, y, v
<1>7. Tallies(e) /\ InWindows(e)
  BY <1>3, <1>6 DEF Tallies, InWindows
<1> HIDE DEF e
<1>8. Averages(e, S \cup {ms})
  <2>1. S \cup {ms} \in SUBSET Nat /\ S \cup {ms} # {}
    BY <1>1
  <2>2. CASE x = 0
    <3>1. e.ema_latency = ms /\ e.unit = 1
      BY <1>6, <2>2
    <3>2. PICK l, h : Spans(S \cup {ms}, l, h) /\ l <= ms /\ ms <= h
      <4>1. CASE S = {}
        BY <4>1 DEF Spans
      <4>2. CASE S # {}
        <5>1. PICK low, high : Spans(S, low, high)
          BY <4>2 DEF Averages
        <5> HIDE DEF x, u
        <5>2. \E l, h :
                Spans(S \cup {ms}, l, h) /\ l <= low /\ high <= h /\ l <= ms /\ ms <= h
          BY <1>1, <5>1, ExtremesGrow
        <5> QED
          BY <5>2
      <4> QED
        BY <4>1, <4>2
    <3>3. l \in Nat /\ h \in Nat /\ l * 1 <= ms /\ ms <= h * 1
      BY <2>1, <3>2 DEF Spans
    <3> QED
      BY <2>1, <3>1, <3>2, <3>3 DEF Averages
  <2>3. CASE x # 0
    <3>1. PICK low, high :
            Spans(S, low, high) /\ low * u <= x /\ x <= high * u
      BY <2>3 DEF Averages
    <3> HIDE DEF x, u
    <3>2. PICK l, h :
            /\ Spans(S \cup {ms}, l, h)
            /\ l * (AlphaDen * u) <= AlphaNum * ms * u + (AlphaDen - AlphaNum) * x
            /\ AlphaNum * ms * u + (AlphaDen - AlphaNum) * x <= h * (AlphaDen * u)
      BY <1>1, <1>2, <3>1, AverageStays
    <3>8. l * e.unit <= e.ema_latency /\ e.ema_latency <= h * e.unit
      BY <1>6, <2>3, <3>2
    <3> QED
      BY <2>1, <3>2, <3>8 DEF Averages
  <2> QED
    BY <2>2, <2>3
<1> QED
  BY <1>6, <1>7, <1>8 DEF e

(* One of whether a Boolean is x.                                            *)
LEMMA OneIf ==
  ASSUME NEW b \in BOOLEAN
  PROVE  /\ Collector!One(b) = (IF TRUE = b THEN 1 ELSE 0)
         /\ Collector!One(~b) = (IF FALSE = b THEN 1 ELSE 0)
         /\ Collector!One(b) \in {0, 1} /\ Collector!One(~b) \in {0, 1}
<1>1. b = TRUE \/ b = FALSE
  OBVIOUS
<1> QED
  BY <1>1 DEF Collector!One

(* What falls out of a full window is no longer counted, what comes in is.   *)
Gone(x, w) == IF Len(w) >= window_size /\ Head(w) = x THEN 1 ELSE 0

LEMMA PushCounts ==
  ASSUME NEW S, NEW w \in Seq(S), NEW y \in S, NEW x, NEW come,
         come = (IF x = y THEN 1 ELSE 0), window_size \in Nat \ {0}, Len(w) <= window_size
  PROVE  /\ Occurs(x, Collector!Push(w, y)) = Collector!Less(Occurs(x, w), Gone(x, w)) + come
         /\ Collector!Less(Occurs(x, w), Gone(x, w)) + come \in Nat
<1> DEFINE kept == IF Len(w) >= window_size THEN Tail(w) ELSE w
<1>1. kept \in Seq(S) /\ Occurs(x, w) = Occurs(x, kept) + Gone(x, w) /\ Gone(x, w) \in {0, 1}
  <2>1. CASE Len(w) >= window_size
    <3>1. w # <<>>
      BY <2>1
    <3>2. Tail(w) \in Seq(S) /\ Occurs(x, w) = Occurs(x, Tail(w)) + (IF Head(w) = x THEN 1 ELSE 0)
      BY <3>1, OccursOnceLess
    <3> QED
      BY <2>1, <3>2 DEF Gone
  <2>2. CASE ~(Len(w) >= window_size)
    <3>1. Occurs(x, w) \in Nat
      BY OccursAtMost
    <3> QED
      BY <2>2, <3>1 DEF Gone
  <2> QED
    BY <2>1, <2>2
<1>2. Collector!Push(w, y) = Append(kept, y)
  BY DEF Collector!Push
<1> HIDE DEF kept
<1>3. Occurs(x, kept) \in Nat /\ Occurs(x, Append(kept, y)) = Occurs(x, kept) + come
  BY <1>1, OccursOnceMore
<1>4. come \in Nat
  OBVIOUS
<1>5. Collector!Less(Occurs(x, w), Gone(x, w)) = Occurs(x, kept)
  BY <1>1, <1>3 DEF Collector!Less
<1> QED
  BY <1>2, <1>3, <1>4, <1>5

LEMMA PushLength ==
  ASSUME NEW S, NEW w \in Seq(S), NEW y \in S, window_size \in Nat \ {0}, Len(w) <= window_size
  PROVE  LET out == IF Len(w) >= window_size THEN 1 ELSE 0
         IN  Len(Collector!Push(w, y)) = Collector!Less(Len(w), out) + 1
<1>1. CASE Len(w) >= window_size
  <2>1. w # <<>> /\ Len(w) \in Nat /\ Len(w) >= 1
    BY <1>1
  <2>2. Tail(w) \in Seq(S) /\ Len(Tail(w)) = Len(w) - 1
    BY <2>1
  <2>3. Collector!Push(w, y) = Append(Tail(w), y)
    BY <1>1 DEF Collector!Push
  <2>4. Len(Append(Tail(w), y)) = Len(w) - 1 + 1
    BY <2>2
  <2>5. Collector!Less(Len(w), 1) = Len(w) - 1
    BY <2>1 DEF Collector!Less
  <2> QED
    BY <1>1, <2>3, <2>4, <2>5
<1>2. CASE ~(Len(w) >= window_size)
  BY <1>2 DEF Collector!Push, Collector!Less
<1> QED
  BY <1>1, <1>2

LEMMA OldestCounted ==
  ASSUME NEW w \in Seq(BOOLEAN), window_size \in Nat \ {0}
  PROVE  LET full == Len(w) >= window_size
             old == full /\ Head(w)
         IN  /\ Collector!One(full) = (IF Len(w) >= window_size THEN 1 ELSE 0)
             /\ Collector!One(full /\ old) = Gone(TRUE, w)
             /\ Collector!One(full /\ ~old) = Gone(FALSE, w)
<1>1. CASE Len(w) >= window_size
  <2>1. w # <<>>
    BY <1>1
  <2>2. Head(w) \in BOOLEAN
    BY <2>1
  <2>3. CASE Head(w) = TRUE
    BY <1>1, <2>3 DEF Collector!One, Gone
  <2>4. CASE Head(w) = FALSE
    BY <1>1, <2>4 DEF Collector!One, Gone
  <2> QED
    BY <2>2, <2>3, <2>4
<1>2. CASE ~(Len(w) >= window_size)
  BY <1>2 DEF Collector!One, Gone
<1> QED
  BY <1>1, <1>2

LEMMA OutcomeKept ==
  ASSUME NEW d \in RouteMetricsData, NEW S, NEW success \in BOOLEAN,
         window_size \in Nat \ {0}, Averages(d, S), Tallies(d), InWindows(d)
  PROVE  LET e == Collector!WithOutcome(d, success)
         IN  e \in RouteMetricsData /\ Averages(e, S) /\ Tallies(e) /\ InWindows(e)
<1> DEFINE e == Collector!WithOutcome(d, success)
           w == d.successes
           full == Len(w) >= window_size
           old == full /\ Head(w)
           new == Collector!Push(w, success)
           total == Collector!Less(d.total_requests, Collector!One(full)) + 1
           good == Collector!Less(d.successful_requests, Collector!One(full /\ old))
                     + Collector!One(success)
           bad == Collector!Less(d.failed_requests, Collector!One(full /\ ~old))
                    + Collector!One(~success)
<1>1. /\ w \in Seq(BOOLEAN) /\ Len(w) <= window_size
      /\ d.total_requests = Len(w)
      /\ d.successful_requests = Occurs(TRUE, w) /\ d.failed_requests = Occurs(FALSE, w)
  BY DEF RouteMetricsData, InWindows, Tallies
<1>2. e = [d EXCEPT !.successes = new, !.total_requests = total,
                    !.successful_requests = good, !.failed_requests = bad]
  BY DEF Collector!WithOutcome
<1>3. /\ Collector!One(full) = (IF Len(w) >= window_size THEN 1 ELSE 0)
      /\ Collector!One(full /\ old) = Gone(TRUE, w)
      /\ Collector!One(full /\ ~old) = Gone(FALSE, w)
  <2> HIDE DEF w, e, new, total, good, bad
  <2> QED
    BY <1>1, OldestCounted
<1>4. new \in Seq(BOOLEAN) /\ Len(new) <= window_size
  BY <1>1, PushKeeps
<1>5. total = Len(new) /\ total \in Nat
  <2>1. Len(new) = Collector!Less(Len(w), IF Len(w) >= window_size THEN 1 ELSE 0) + 1
    BY <1>1, PushLength
  <2>2. total = Len(new)
    BY <1>1, <1>3, <2>1
  <2> QED
    BY <1>4, <2>2
<1>6. good = Occurs(TRUE, new) /\ good \in Nat
  <2>1. good = Collector!Less(Occurs(TRUE, w), Gone(TRUE, w)) + Collector!One(success)
    BY <1>1, <1>3
  <2>2. Collector!One(success) = (IF TRUE = success THEN 1 ELSE 0)
    BY OneIf
  <2> HIDE DEF good, new, w
  <2>3. /\ Occurs(TRUE, Collector!Push(w, success))
             = Collector!Less(Occurs(TRUE, w), Gone(TRUE, w)) + Collector!One(success)
        /\ Collector!Less(Occurs(TRUE, w), Gone(TRUE, w)) + Collector!One(success) \in Nat
    BY <1>1, <2>2, PushCounts, Zenon
  <2> QED
    BY <2>1, <2>3 DEF new
<1>7. bad = Occurs(FALSE, new) /\ bad \in Nat
  <2> DEFINE come == Collector!One(~success)
             no == FALSE
  <2>1. bad = Collector!Less(Occurs(no, w), Gone(no, w)) + come
    BY <1>1, <1>3
  <2>2. come = (IF no = success THEN 1 ELSE 0)
    BY OneIf
  <2> HIDE DEF bad, new, w, come, no
  <2>3. /\ Occurs(no, Collector!Push(w, success))
             = Collector!Less(Occurs(no, w), Gone(no, w)) + come
        /\ Collector!Less(Occurs(no, w), Gone(no, w)) + come \in Nat
    BY <1>1, <2>2, PushCounts
  <2>4. bad = Occurs(no, new) /\ bad \in Nat
    BY <2>1, <2>3 DEF new
  <2> QED
    BY <2>4 DEF no
<1> HIDE DEF full, old, w, e, new, good, bad, total
<1>8. /\ e \in RouteMetricsData
      /\ e.latencies = d.latencies /\ e.successes = new
      /\ e.total_requests = total /\ e.successful_requests = good /\ e.failed_requests = bad
      /\ e.ema_latency = d.ema_latency /\ e.unit = d.unit
  BY <1>2, <1>4, <1>5, <1>6, <1>7 DEF RouteMetricsData
<1>9. Averages(e, S) /\ InWindows(e) /\ Tallies(e)
  BY <1>4, <1>5, <1>6, <1>7, <1>8 DEF Averages, InWindows, Tallies
<1> QED
  BY <1>8, <1>9 DEF e

LEMMA StatsBegin == Init => StatsInv
<1> SUFFICES ASSUME Init PROVE StatsInv
  OBVIOUS
<1>1. window_size \in Nat \ {0}
  BY CollectorAssumption DEF Init, Collector!Init, CollectorAssumption
<1>2. /\ data = <<>> /\ seen = <<>> /\ DOMAIN index = {}
      /\ \A t \in Threads : step[t] = "idle"
  BY DEF Init, Collector!Init
<1>3. data \in Seq(RouteMetricsData) /\ DOMAIN seen = DOMAIN data /\ DOMAIN data = {}
  BY <1>2
<1> QED
  BY <1>1, <1>2, <1>3 DEF StatsInv

LEMMA NewIsEmpty ==
  ASSUME window_size \in Nat \ {0}
  PROVE  LET d == Collector!NewRouteMetricsData
         IN  d \in RouteMetricsData /\ Averages(d, {}) /\ Tallies(d) /\ InWindows(d)
<1> DEFINE d == Collector!NewRouteMetricsData
<1>1. /\ d \in RouteMetricsData /\ d.successes = <<>> /\ d.latencies = <<>>
      /\ d.total_requests = 0 /\ d.successful_requests = 0 /\ d.failed_requests = 0
      /\ d.ema_latency = 0
  BY DEF Collector!NewRouteMetricsData, RouteMetricsData
<1>2. Occurs(TRUE, <<>>) = 0 /\ Occurs(FALSE, <<>>) = 0 /\ Len(<<>>) = 0
  BY OccursNowhere
<1> HIDE DEF d
<1>3. Tallies(d)
  BY <1>1, <1>2 DEF Tallies
<1>4. InWindows(d) /\ Averages(d, {})
  BY <1>1, <1>2 DEF InWindows, Averages
<1> QED
  BY <1>1, <1>3, <1>4 DEF d

(* Recording a latency, an outcome, or both.                                 *)
LEMMA SampleKept ==
  ASSUME CollectorAssumption, NEW d \in RouteMetricsData, NEW S, NEW s \in Collector!Samples,
         window_size \in Nat \ {0}, Averages(d, S), Tallies(d), InWindows(d)
  PROVE  LET e == Collector!Recorded(d, s)
         IN  /\ e \in RouteMetricsData /\ Averages(e, S \cup Collector!ToSet(s.latency))
             /\ Tallies(e) /\ InWindows(e)
<1> DEFINE first == IF s.latency = <<>> THEN d ELSE Collector!WithLatency(d, s.latency[1])
           all == S \cup Collector!ToSet(s.latency)
           Sound(e) == e \in RouteMetricsData /\ Averages(e, all) /\ Tallies(e) /\ InWindows(e)
<1>1. /\ s.latency = <<>> \/ \E x \in Latencies : s.latency = <<x>>
      /\ s.success = <<>> \/ \E b \in BOOLEAN : s.success = <<b>>
  BY DEF Collector!Samples, Collector!Maybe
<1>2. Sound(first)
  <2>1. CASE s.latency = <<>>
    <3>1. Collector!ToSet(s.latency) = {}
      BY <2>1 DEF Collector!ToSet
    <3>2. first = d /\ all = S
      BY <2>1, <3>1
    <3> HIDE DEF first, all
    <3> QED
      BY <3>2
  <2>2. CASE s.latency # <<>>
    <3>1. PICK x \in Latencies : s.latency = <<x>>
      BY <1>1, <2>2
    <3>2. x \in Nat /\ Collector!ToSet(s.latency) = {x} /\ first = Collector!WithLatency(d, x)
      BY <2>2, <3>1 DEF Collector!ToSet, CollectorAssumption
    <3>3. all = S \cup {x}
      BY <3>2
    <3> HIDE DEF all, first
    <3>4. /\ Collector!WithLatency(d, x) \in RouteMetricsData
          /\ Averages(Collector!WithLatency(d, x), S \cup {x})
          /\ Tallies(Collector!WithLatency(d, x)) /\ InWindows(Collector!WithLatency(d, x))
      BY <3>2, LatencyKept
    <3> QED
      BY <3>2, <3>3, <3>4
  <2> QED
    BY <2>1, <2>2
<1>3. Collector!Recorded(d, s) = IF s.success = <<>> THEN first
                                 ELSE Collector!WithOutcome(first, s.success[1])
  BY DEF Collector!Recorded
<1> HIDE DEF first, all
<1>4. CASE s.success = <<>>
  BY <1>2, <1>3, <1>4 DEF all
<1>5. CASE s.success # <<>>
  <2>1. PICK b \in BOOLEAN : s.success = <<b>>
    BY <1>1, <1>5
  <2>2. s.success[1] = b
    BY <2>1
  <2>3. Sound(Collector!WithOutcome(first, b))
    BY <1>2, OutcomeKept
  <2> QED
    BY <1>3, <1>5, <2>2, <2>3 DEF all
<1> QED
  BY <1>4, <1>5

LEMMA StatsStep == StatsInv /\ CollectorInv /\ [Next]_vars => StatsInv'
<1> SUFFICES ASSUME StatsInv, CollectorInv, [Collector!Next]_collectorVars PROVE StatsInv'
  BY OneStepsAtATime
<1>1. /\ window_size \in Nat \ {0} /\ data \in Seq(RouteMetricsData) /\ DOMAIN seen = DOMAIN data
      /\ Len(data) \in Nat /\ DOMAIN data = 1 .. Len(data)
      /\ \A r \in DOMAIN index : index[r] \in DOMAIN data
      /\ \A t \in Threads : step[t] = "record" =>
           handle[t] \in DOMAIN data /\ sample[t] \in Collector!Samples
  BY DEF StatsInv
<1>2. \A i \in DOMAIN data : Averages(data[i], seen[i]) /\ Tallies(data[i]) /\ InWindows(data[i])
  BY DEF StatsInv
<1>3. DOMAIN step = Threads /\ DOMAIN handle = Threads /\ DOMAIN sample = Threads
  BY DEF CollectorInv
<1>4. window_size' = window_size
  BY DEF collectorVars, Collector!Next, Collector!Lookup, Collector!Record, Collector!Reset
<1> DEFINE Sound(d, S) == Averages(d, S) /\ Tallies(d) /\ InWindows(d)
<1>5. ASSUME /\ data' \in Seq(RouteMetricsData) /\ DOMAIN seen' = DOMAIN data'
             /\ \A i \in DOMAIN data' : Sound(data'[i], seen'[i])
             /\ \A r \in DOMAIN index' : index'[r] \in DOMAIN data'
             /\ \A t \in Threads : step'[t] = "record" =>
                  handle'[t] \in DOMAIN data' /\ sample'[t] \in Collector!Samples
      PROVE  StatsInv'
  BY <1>1, <1>4, <1>5 DEF StatsInv, InWindows, Averages, Tallies
<1>6. ASSUME NEW t \in Threads, Collector!Lookup(t) PROVE StatsInv'
  <2> DEFINE new == Len(data) + 1
  <2>1. PICK s \in Collector!Samples :
          /\ sample' = [sample EXCEPT ![t] = s]
          /\ IF s.route \in DOMAIN index
             THEN /\ handle' = [handle EXCEPT ![t] = index[s.route]]
                  /\ UNCHANGED <<data, index, seen>>
             ELSE /\ handle' = [handle EXCEPT ![t] = new]
                  /\ data' = Append(data, Collector!NewRouteMetricsData)
                  /\ seen' = Append(seen, {})
                  /\ index' = [r \in DOMAIN index \cup {s.route} |->
                                  IF r = s.route THEN new ELSE index[r]]
    BY <1>6 DEF Collector!Lookup
  <2>2. step' = [step EXCEPT ![t] = "record"]
    BY <1>6 DEF Collector!Lookup
  <2>3. CASE s.route \in DOMAIN index
    BY <1>1, <1>2, <1>3, <1>5, <2>1, <2>2, <2>3
  <2>4. CASE s.route \notin DOMAIN index
    <3>1. /\ handle' = [handle EXCEPT ![t] = new]
          /\ data' = Append(data, Collector!NewRouteMetricsData)
          /\ seen' = Append(seen, {})
          /\ index' = [r \in DOMAIN index \cup {s.route} |->
                                  IF r = s.route THEN new ELSE index[r]]
      BY <2>1, <2>4
    <3>2. /\ Collector!NewRouteMetricsData \in RouteMetricsData
          /\ Sound(Collector!NewRouteMetricsData, {})
      BY <1>1, NewIsEmpty
    <3> HIDE DEF Sound
    <3>3. /\ data' \in Seq(RouteMetricsData) /\ DOMAIN data' = 1 .. new /\ new \in Nat
          /\ \A i \in 1 .. new : data'[i] = IF i = new THEN Collector!NewRouteMetricsData ELSE data[i]
      BY <1>1, <3>1, <3>2
    <3>4. /\ DOMAIN seen' = 1 .. new
          /\ \A i \in 1 .. new : seen'[i] = IF i = new THEN {} ELSE seen[i]
      BY <1>1, <3>1
    <3>5. \A i \in DOMAIN data' : Sound(data'[i], seen'[i])
      <4>1. \A i \in DOMAIN data : Sound(data[i], seen[i])
        BY <1>2 DEF Sound
      <4>2. \A i \in 1 .. new : i = new \/ i \in DOMAIN data
        BY <1>1
      <4> HIDE DEF new
      <4>3. ASSUME NEW i \in 1 .. new PROVE Sound(data'[i], seen'[i])
        <5>1. CASE i = new
          BY <3>2, <3>3, <3>4, <5>1
        <5>2. CASE i # new
          BY <3>3, <3>4, <4>1, <4>2, <5>2
        <5> QED
          BY <5>1, <5>2
      <4> QED
        BY <3>3, <4>3
    <3>6. new \in DOMAIN data' /\ \A i \in DOMAIN data : i \in DOMAIN data'
      BY <1>1, <3>3
    <3> HIDE DEF new
    <3>7. \A r \in DOMAIN index' : index'[r] \in DOMAIN data'
      BY <1>1, <3>1, <3>6
    <3>8. \A u \in Threads : step'[u] = "record" =>
                  handle'[u] \in DOMAIN data' /\ sample'[u] \in Collector!Samples
      BY <1>1, <1>3, <2>1, <2>2, <3>1, <3>6
    <3> QED
      BY <1>5, <3>3, <3>4, <3>5, <3>7, <3>8
  <2> QED
    BY <2>3, <2>4
<1>7. ASSUME NEW t \in Threads, Collector!Record(t) PROVE StatsInv'
  <2> DEFINE i == handle[t]
             s == sample[t]
             e == Collector!Recorded(data[i], s)
  <2>1. /\ step[t] = "record" /\ step' = [step EXCEPT ![t] = "idle"]
        /\ handle' = [handle EXCEPT ![t] = 0]
        /\ sample' = [sample EXCEPT ![t] = Collector!NoSample]
        /\ data' = [data EXCEPT ![i] = e]
        /\ seen' = [seen EXCEPT ![i] = @ \cup Collector!ToSet(s.latency)]
        /\ UNCHANGED index
    BY <1>7 DEF Collector!Record
  <2>2. i \in DOMAIN data /\ s \in Collector!Samples /\ data[i] \in RouteMetricsData
    BY <1>1, <2>1
  <2>3. e \in RouteMetricsData /\ Sound(e, seen[i] \cup Collector!ToSet(s.latency))
    <3> HIDE DEF i, s
    <3> QED
      BY <1>1, <1>2, <2>2, CollectorAssumption, SampleKept
  <2> HIDE DEF e, i, s, Sound
  <2>4. /\ data' \in Seq(RouteMetricsData) /\ DOMAIN data' = DOMAIN data /\ DOMAIN seen' = DOMAIN data
        /\ \A j \in DOMAIN data : data'[j] = IF j = i THEN e ELSE data[j]
        /\ \A j \in DOMAIN data :
             seen'[j] = IF j = i THEN seen[i] \cup Collector!ToSet(s.latency) ELSE seen[j]
    BY <1>1, <2>1, <2>2, <2>3
  <2>5. \A j \in DOMAIN data' : Sound(data'[j], seen'[j])
    BY <1>2, <2>3, <2>4 DEF Sound
  <2>6. \A u \in Threads : step'[u] = "record" =>
              handle'[u] \in DOMAIN data' /\ sample'[u] \in Collector!Samples
    BY <1>1, <1>3, <2>1, <2>4
  <2> QED
    BY <1>1, <1>5, <2>1, <2>4, <2>5, <2>6
<1>8. ASSUME NEW gone, Collector!Reset(gone) PROVE StatsInv'
  <2>1. /\ DOMAIN index' \subseteq DOMAIN index /\ \A r \in DOMAIN index' : index'[r] = index[r]
        /\ UNCHANGED <<data, seen, step, handle, sample>>
    BY <1>8 DEF Collector!Reset
  <2> QED
    BY <1>1, <1>2, <1>5, <2>1
<1>9. CASE UNCHANGED collectorVars
  BY <1>1, <1>2, <1>5, <1>9 DEF collectorVars
<1> QED
  BY <1>6, <1>7, <1>8, <1>9 DEF Collector!Next

(***************************************************************************)
(* The collector's part of AnswersFromSamples: the counters are those of   *)
(* the window, the percentiles ascend within it, and the EMA lies within   *)
(* all latencies so far (record_latency, record_success, get_stats).       *)
(***************************************************************************)
THEOREM StatsOfTheWindow == Spec => []Collector!StatsFromWindow
<1>1. StatsInv => Collector!StatsFromWindow
  <2> SUFFICES ASSUME StatsInv, NEW i \in DOMAIN data
               PROVE  LET d == data[i]
                          stats == Collector!Stats(d)
                          percentile == stats.percentiles
                      IN  /\ Len(d.successes) <= window_size /\ Len(d.latencies) <= window_size
                          /\ stats.total_requests = Len(d.successes)
                          /\ stats.successful_requests = Collector!Times(d.successes, TRUE)
                          /\ stats.failed_requests = Collector!Times(d.successes, FALSE)
                          /\ stats.min_latency_ms <= percentile[50]
                          /\ percentile[50] <= percentile[95]
                          /\ percentile[95] <= percentile[99]
                          /\ percentile[99] <= stats.max_latency_ms
                          /\ seen[i] # {} =>
                               /\ Collector!Min(seen[i]) * d.unit <= stats.ema_latency_ms
                               /\ stats.ema_latency_ms <= Collector!Max(seen[i]) * d.unit
    BY DEF Collector!StatsFromWindow
  <2> DEFINE d == data[i]
             stats == Collector!Stats(d)
  <2>1. Averages(d, seen[i]) /\ Tallies(d) /\ InWindows(d) /\ d \in RouteMetricsData
    BY DEF StatsInv
  <2>2. /\ Collector!Times(d.successes, TRUE) = Occurs(TRUE, d.successes)
        /\ Collector!Times(d.successes, FALSE) = Occurs(FALSE, d.successes)
    <3>1. \A S : Collector!Cardinality(S) = Cardinality(S)
      BY DEF Collector!Cardinality, Cardinality
    <3> QED
      BY <3>1 DEF Collector!Times, Occurs
  <2>3. /\ stats.total_requests = d.total_requests
        /\ stats.successful_requests = d.successful_requests
        /\ stats.failed_requests = d.failed_requests
        /\ stats.ema_latency_ms = d.ema_latency
    BY DEF Collector!Stats
  <2>4. d.latencies \in Seq(Nat)
    BY <2>1 DEF RouteMetricsData
  <2> HIDE DEF d
  <2>5. /\ stats.min_latency_ms <= stats.percentiles[50]
        /\ stats.percentiles[50] <= stats.percentiles[95]
        /\ stats.percentiles[95] <= stats.percentiles[99]
        /\ stats.percentiles[99] <= stats.max_latency_ms
    BY <2>4, PercentilesInOrder
  <2> HIDE DEF stats
  <2>6. ASSUME seen[i] # {}
        PROVE  /\ Collector!Min(seen[i]) * d.unit <= d.ema_latency
               /\ d.ema_latency <= Collector!Max(seen[i]) * d.unit
    <3>1. PICK l, h : Spans(seen[i], l, h) /\ l * d.unit <= d.ema_latency /\ d.ema_latency <= h * d.unit
      BY <2>1, <2>6 DEF Averages
    <3>2. seen[i] \in SUBSET Nat
      BY <2>1 DEF Averages
    <3>3. Collector!Min(seen[i]) = l /\ Collector!Max(seen[i]) = h
      BY <3>1, <3>2, Extremes
    <3> QED
      BY <3>1, <3>3
  <2>7. /\ Len(d.successes) <= window_size /\ Len(d.latencies) <= window_size
        /\ d.total_requests = Len(d.successes)
        /\ d.successful_requests = Occurs(TRUE, d.successes)
        /\ d.failed_requests = Occurs(FALSE, d.successes)
    BY <2>1 DEF Tallies, InWindows
  <2> QED
    BY <2>2, <2>3, <2>5, <2>6, <2>7 DEF d, stats
<1> QED
  BY <1>1, CollectorBegins, CollectorStep, StatsBegin, StatsStep, PTL DEF Spec

(***************************************************************************)
(* The predictor's variance.  Within l .. h a population of mean m has at  *)
(* most the variance (h - m)(m - l), and the moving variance keeps to that *)
(* bound: one more sample x adds A * D * (h - x)(x - l) of slack.          *)
(***************************************************************************)
LEMMA ProductMore ==
  ASSUME NEW a \in Nat, NEW b \in Nat, NEW c \in Nat, NEW d \in Nat, a <= b, c <= d
  PROVE  a * c <= b * d
<1>1. a * c <= b * c /\ b * c <= b * d
  BY TimesMore
<1>2. a * c \in Nat /\ b * c \in Nat /\ b * d \in Nat
  OBVIOUS
<1> QED
  BY <1>1, <1>2

LEMMA VarianceStays ==
  ASSUME NEW D \in Nat \ {0}, NEW A \in 0 .. D, NEW v \in Nat,
         NEW p \in Nat, NEW q \in Nat, NEW delta \in Int, v <= p * q,
         delta <= p, 0 - delta <= q
  PROVE  /\ (D - A) * (D * v + A * delta * delta) \in Nat
         /\ (D - A) * (D * v + A * delta * delta) <= (D * p - A * delta) * (D * q + A * delta)
<1>1. D - A \in Nat /\ A \in Nat /\ p - delta \in Nat /\ q + delta \in Nat /\ p * q \in Nat
  OBVIOUS
<1> DEFINE square == delta * delta
<1>2. square \in Nat
  <2>1. CASE delta >= 0
    BY <2>1
  <2>2. CASE delta < 0
    <3>1. 0 - delta \in Nat /\ (0 - delta) * (0 - delta) = square
      BY <2>2
    <3>2. (0 - delta) * (0 - delta) \in Nat
      BY <3>1
    <3> QED
      BY <3>1, <3>2
  <2> QED
    BY <2>1, <2>2
<1>3. A * delta * delta = A * square
  OBVIOUS
<1>4. D * v <= D * (p * q) /\ D * v \in Nat /\ D * (p * q) \in Nat
  BY <1>1, TimesMore
<1>5. A * square \in Nat
  BY <1>1, <1>2
<1>6. (D - A) * (D * v + A * square) <= (D - A) * (D * (p * q) + A * square)
  <2>1. D * v + A * square \in Int /\ D * (p * q) + A * square \in Int
        /\ D * v + A * square <= D * (p * q) + A * square
    BY <1>4, <1>5
  <2> QED
    BY <1>1, <2>1, TimesMore
<1>7. D * A * ((p - delta) * (q + delta)) >= 0
  <2>1. (p - delta) * (q + delta) \in Nat /\ D * A \in Nat
    BY <1>1
  <2> QED
    BY <2>1
<1>8. (D * p - A * delta) * (D * q + A * delta)
        = (D - A) * (D * (p * q) + A * (delta * delta)) + D * A * ((p - delta) * (q + delta))
  OBVIOUS
<1>9. /\ (D - A) * (D * v + A * square) \in Nat
      /\ (D - A) * (D * (p * q) + A * square) \in Int
      /\ D * A * ((p - delta) * (q + delta)) \in Int
  <2>1. D * v + A * square \in Nat /\ D * (p * q) + A * square \in Nat
    BY <1>4, <1>5
  <2>2. D * A * ((p - delta) * (q + delta)) \in Int
    BY <1>1
  <2> QED
    BY <1>1, <2>1, <2>2
<1> QED
  BY <1>3, <1>6, <1>7, <1>8, <1>9

(* What is between two multiples of u is, divided by it, between the factors.*)
LEMMA QuotientBetween ==
  ASSUME NEW u \in Nat \ {0}, NEW m \in Nat, NEW l \in Nat, NEW h \in Nat, l * u <= m, m <= h * u
  PROVE  (m + u \div 2) \div u \in l .. h
<1> DEFINE n == m + u \div 2
           q == n \div u
<1>1. u \div 2 \in Nat /\ u \div 2 < u
  OBVIOUS
<1>2. n \in Nat /\ m <= n /\ n < m + u
  BY <1>1
<1> HIDE DEF n
<1>3. q \in Int /\ q * u <= n /\ n < q * u + u
  BY <1>2
<1> HIDE DEF q
<1>4. ~(q + 1 <= l)
  <2> SUFFICES ASSUME q + 1 <= l PROVE FALSE
    OBVIOUS
  <2>1. (q + 1) * u <= l * u
    BY <1>3, TimesMore
  <2>2. (q + 1) * u = q * u + u /\ q * u \in Int /\ l * u \in Int
    BY <1>3
  <2> QED
    BY <1>2, <1>3, <2>1, <2>2
<1>5. ~(h + 1 <= q)
  <2> SUFFICES ASSUME h + 1 <= q PROVE FALSE
    OBVIOUS
  <2>1. (h + 1) * u <= q * u
    BY <1>3, TimesMore
  <2>2. (h + 1) * u = h * u + u /\ q * u \in Int /\ h * u \in Int
    BY <1>3
  <2> QED
    BY <1>2, <1>3, <2>1, <2>2
<1>6. l <= q /\ q <= h
  BY <1>3, <1>4, <1>5
<1> QED
  BY <1>3, <1>6 DEF q, n

(***************************************************************************)
(* The recursive function of the partial sums exists, so it is defined by  *)
(* its equation.                                                           *)
(***************************************************************************)
LEMMA SumsExist ==
  ASSUME NEW s \in Seq(Nat)
  PROVE  \E f \in [0 .. Len(s) -> Nat] :
           f = [n \in 0 .. Len(s) |-> IF n = 0 THEN 0 ELSE f[n - 1] + s[n]]
<1> DEFINE N == Len(s)
           Upto(f, m) == f[0] = 0 /\ \A i \in 1 .. m : f[i] = f[i - 1] + s[i]
           S == {m \in 0 .. N : \E f \in [0 .. N -> Nat] : Upto(f, m)}
<1>1. N \in Nat /\ \A i \in 1 .. N : s[i] \in Nat
  OBVIOUS
<1> HIDE DEF N
<1>2. 0 \in S
  <2> DEFINE f == [n \in 0 .. N |-> 0]
  <2>1. f \in [0 .. N -> Nat] /\ f[0] = 0 /\ 0 \in 0 .. N
    BY <1>1
  <2>2. Upto(f, 0)
    BY <2>1
  <2> QED
    BY <2>1, <2>2
<1>3. ASSUME NEW m \in 0 .. N - 1, m \in S PROVE m + 1 \in S
  <2>1. PICK f \in [0 .. N -> Nat] : Upto(f, m)
    BY <1>3
  <2>2. m \in 0 .. N /\ m + 1 \in 1 .. N /\ m + 1 \in 0 .. N /\ m \in Nat
    BY <1>1
  <2> DEFINE g == [f EXCEPT ![m + 1] = f[m] + s[m + 1]]
  <2>3. g \in [0 .. N -> Nat]
    <3>1. f[m] + s[m + 1] \in Nat
      BY <1>1, <2>2
    <3> QED
      BY <3>1
  <2>4. g[m + 1] = f[m] + s[m + 1] /\ \A i \in 0 .. m : g[i] = f[i]
    BY <2>2
  <2>5. \A i \in 1 .. m + 1 : (i \in 1 .. m \/ i = m + 1) /\ i - 1 \in 0 .. m
    BY <2>2
  <2>6. \A i \in 1 .. m : i \in 0 .. m
    BY <2>2
  <2> HIDE DEF g
  <2>7. \A i \in 1 .. m + 1 : g[i] = g[i - 1] + s[i]
    <3> SUFFICES ASSUME NEW i \in 1 .. m + 1 PROVE g[i] = g[i - 1] + s[i]
      OBVIOUS
    <3>1. CASE i = m + 1
      <4>1. i - 1 = m /\ g[m] = f[m]
        BY <2>2, <2>4, <3>1
      <4> QED
        BY <2>4, <3>1, <4>1
    <3>2. CASE i \in 1 .. m
      BY <2>1, <2>4, <2>5, <2>6, <3>2
    <3> QED
      BY <2>5, <3>1, <3>2
  <2>8. g[0] = 0
    BY <2>1, <2>2, <2>4
  <2> QED
    BY <2>2, <2>3, <2>7, <2>8
<1> HIDE DEF S
<1>4. N \in S
  <2>1. 0 .. N \subseteq S
    BY <1>1, <1>2, <1>3, InductionTo
  <2> QED
    BY <1>1, <2>1
<1>5. PICK f \in [0 .. N -> Nat] : Upto(f, N)
  BY <1>4 DEF S
<1>6. \A n \in 0 .. N : f[n] = IF n = 0 THEN 0 ELSE f[n - 1] + s[n]
  <2>1. \A n \in 0 .. N : n = 0 \/ n \in 1 .. N
    BY <1>1
  <2> QED
    BY <1>5, <2>1
<1>7. f = [n \in 0 .. N |-> IF n = 0 THEN 0 ELSE f[n - 1] + s[n]]
  BY <1>5, <1>6
<1> QED
  BY <1>5, <1>7 DEF N

LEMMA SumsAdd ==
  ASSUME NEW s \in Seq(Nat)
  PROVE  /\ Predictor!Sums(s)[0] = 0
         /\ \A n \in 1 .. Len(s) : Predictor!Sums(s)[n] = Predictor!Sums(s)[n - 1] + s[n]
         /\ \A n \in 0 .. Len(s) : Predictor!Sums(s)[n] \in Nat
<1> DEFINE N == Len(s)
           F == Predictor!Sums(s)
           S == {n \in 0 .. N : F[n] \in Nat}
<1>1. N \in Nat /\ \A i \in 1 .. N : s[i] \in Nat
  OBVIOUS
<1>2. F = [n \in 0 .. N |-> IF n = 0 THEN 0 ELSE F[n - 1] + s[n]]
  <2>1. F = CHOOSE f : f = [n \in 0 .. N |-> IF n = 0 THEN 0 ELSE f[n - 1] + s[n]]
    BY DEF Predictor!Sums
  <2>2. \E f : f = [n \in 0 .. N |-> IF n = 0 THEN 0 ELSE f[n - 1] + s[n]]
    BY SumsExist
  <2> HIDE DEF F, N
  <2> QED
    BY <2>1, <2>2
<1> HIDE DEF N, F
<1>3. 0 \in 0 .. N /\ F[0] = 0
  BY <1>1, <1>2
<1>4. \A n \in 1 .. N : n \in 0 .. N /\ n # 0
  BY <1>1
<1>5. \A n \in 1 .. N : F[n] = F[n - 1] + s[n]
  BY <1>2, <1>4
<1>6. ASSUME NEW n \in 0 .. N - 1, n \in S PROVE n + 1 \in S
  <2>1. n + 1 \in 1 .. N /\ n + 1 \in 0 .. N /\ (n + 1) - 1 = n
    BY <1>1
  <2>2. F[n + 1] = F[n] + s[n + 1]
    BY <1>5, <2>1
  <2>3. F[n] \in Nat /\ s[n + 1] \in Nat
    BY <1>1, <1>6, <2>1
  <2> QED
    BY <2>1, <2>2, <2>3
<1>7. 0 \in S
  BY <1>3
<1> HIDE DEF S
<1>8. 0 .. N \subseteq S
  BY <1>1, <1>6, <1>7, InductionTo
<1> QED
  BY <1>3, <1>5, <1>8 DEF S, N, F

(***************************************************************************)
(* If no later sample stands above an earlier one by the threshold, then   *)
(* no later half does.                                                     *)
(***************************************************************************)
LEMMA HalfAtLeast ==
  ASSUME NEW s \in Seq(Nat), NEW k \in 0 .. Len(s), NEW x \in Nat,
         \A i \in 1 .. k : x <= s[i]
  PROVE  k * x <= Predictor!Sums(s)[k]
<1> DEFINE N == Len(s)
           F == Predictor!Sums(s)
           S == {m \in 0 .. k : m * x <= F[m]}
<1>1. /\ N \in Nat /\ k \in Nat /\ k <= N /\ \A i \in 1 .. N : s[i] \in Nat
      /\ \A i \in 1 .. k : x <= s[i]
  OBVIOUS
<1>2. /\ F[0] = 0 /\ \A n \in 1 .. N : F[n] = F[n - 1] + s[n]
      /\ \A n \in 0 .. N : F[n] \in Nat
  BY SumsAdd
<1> HIDE DEF N, F
<1>3. 0 \in S
  BY <1>1, <1>2
<1>4. ASSUME NEW m \in 0 .. k - 1, m \in S PROVE m + 1 \in S
  <2>1. m + 1 \in 1 .. k /\ m + 1 \in 1 .. N /\ m \in 0 .. N /\ (m + 1) - 1 = m /\ m + 1 \in 0 .. k
    BY <1>1
  <2>2. F[m + 1] = F[m] + s[m + 1] /\ F[m] \in Nat /\ s[m + 1] \in Nat /\ x <= s[m + 1]
    BY <1>1, <1>2, <2>1
  <2>3. m * x <= F[m] /\ m * x \in Nat /\ (m + 1) * x = m * x + x
    BY <1>4, <2>1
  <2>4. (m + 1) * x <= F[m + 1]
    BY <2>2, <2>3
  <2> QED
    BY <2>1, <2>4
<1> HIDE DEF S
<1>5. 0 .. k \subseteq S
  BY <1>1, <1>3, <1>4, InductionTo
<1>6. k \in S
  BY <1>1, <1>5
<1> QED
  BY <1>6 DEF S, F

LEMMA HalfAtMost ==
  ASSUME NEW s \in Seq(Nat), NEW k \in 0 .. Len(s), NEW c \in Nat, NEW d \in Nat,
         \A j \in k + 1 .. Len(s) : s[j] * d <= c
  PROVE  (Predictor!Sums(s)[Len(s)] - Predictor!Sums(s)[k]) * d <= (Len(s) - k) * c
<1> DEFINE N == Len(s)
           F == Predictor!Sums(s)
           S == {m \in 0 .. N - k : (F[k + m] - F[k]) * d <= m * c}
<1>1. /\ N \in Nat /\ k \in Nat /\ k <= N /\ \A i \in 1 .. N : s[i] \in Nat
      /\ \A j \in k + 1 .. N : s[j] * d <= c
  OBVIOUS
<1>2. /\ \A n \in 1 .. N : F[n] = F[n - 1] + s[n]
      /\ \A n \in 0 .. N : F[n] \in Nat
  BY SumsAdd
<1> HIDE DEF N, F
<1>3. 0 \in S
  <2>1. k + 0 = k /\ F[k] - F[k] = 0 /\ 0 \in 0 .. N - k
    BY <1>1, <1>2
  <2> QED
    BY <2>1
<1>4. ASSUME NEW m \in 0 .. (N - k) - 1, m \in S PROVE m + 1 \in S
  <2>1. /\ k + (m + 1) \in 1 .. N /\ k + (m + 1) \in k + 1 .. N /\ k + m \in 0 .. N /\ k \in 0 .. N
        /\ k + (m + 1) - 1 = k + m /\ m + 1 \in 0 .. N - k
    BY <1>1
  <2>2. /\ F[k + (m + 1)] = F[k + m] + s[k + (m + 1)]
        /\ F[k + m] \in Nat /\ F[k] \in Nat /\ s[k + (m + 1)] \in Nat
        /\ s[k + (m + 1)] * d <= c
    BY <1>1, <1>2, <2>1
  <2>3. (F[k + m] - F[k]) * d <= m * c
    BY <1>4
  <2>4. /\ (F[k + (m + 1)] - F[k]) * d = (F[k + m] - F[k]) * d + s[k + (m + 1)] * d
        /\ (m + 1) * c = m * c + c
        /\ (F[k + m] - F[k]) * d \in Int /\ s[k + (m + 1)] * d \in Int /\ m * c \in Int
    <3> DEFINE a == F[k + m]
               b == F[k]
               y == s[k + (m + 1)]
               z == F[k + (m + 1)]
    <3>1. a \in Nat /\ b \in Nat /\ y \in Nat /\ z = a + y
      BY <2>2
    <3>2. (m + 1) * c = m * c + c /\ m * c \in Int
      OBVIOUS
    <3> HIDE DEF a, b, y, z
    <3>3. (z - b) * d = (a - b) * d + y * d
      BY <3>1
    <3>4. (a - b) * d \in Int /\ y * d \in Int
      BY <3>1
    <3> QED
      BY <3>2, <3>3, <3>4 DEF a, b, y, z
  <2>5. (F[k + (m + 1)] - F[k]) * d <= (m + 1) * c
    <3> DEFINE u == (F[k + (m + 1)] - F[k]) * d
               v == (F[k + m] - F[k]) * d
               x == s[k + (m + 1)] * d
               y == m * c
               z == (m + 1) * c
    <3>1. u = v + x /\ z = y + c /\ v \in Int /\ x \in Int /\ y \in Int
      BY <2>4, Zenon
    <3>2. v <= y /\ x <= c
      BY <2>2, <2>3, Zenon
    <3> HIDE DEF u, v, x, y, z
    <3>3. u <= z
      BY <3>1, <3>2
    <3> QED
      BY <3>3, Zenon DEF u, z
  <2> QED
    BY <2>1, <2>5
<1>5. N - k \in Nat
  BY <1>1
<1> HIDE DEF S
<1>6. 0 .. N - k \subseteq S
  BY <1>3, <1>4, <1>5, InductionTo
<1>7. N - k \in S /\ k + (N - k) = N
  BY <1>1, <1>5, <1>6
<1> QED
  BY <1>7 DEF S, F, N

(* is_degrading is an upward trend, with two samples to show for it.         *)
LEMMA DegradingShows ==
  ASSUME PredictorAssumption, NEW data_r, data_r.recent_latencies \in Seq(Nat),
         Predictor!IsDegrading(data_r)
  PROVE  LET recent == data_r.recent_latencies
         IN  /\ Predictor!TrendUp(data_r)
             /\ \E i, j \in DOMAIN recent : i < j /\ recent[j] * RatioDen > RatioNum * recent[i]
<1> DEFINE s == data_r.recent_latencies
           N == Len(s)
           k == N \div 2
           F == Predictor!Sums(s)
           first == F[k] * (N - k)
           second == (F[N] - F[k]) * k
<1>1. /\ Predictor!Halves(data_r).first = first
      /\ Predictor!Halves(data_r).second = second
  BY DEF Predictor!Halves
<1>2. N >= 10 /\ first # 0 /\ second * RatioDen > RatioNum * first
  BY <1>1 DEF Predictor!IsDegrading
<1>3. RatioDen \in Nat \ {0} /\ RatioNum \in Nat /\ RatioNum >= RatioDen
  BY DEF PredictorAssumption
<1>4. s \in Seq(Nat) /\ N \in Nat /\ DOMAIN s = 1 .. N /\ \A i \in 1 .. N : s[i] \in Nat
  OBVIOUS
<1>5. k \in 1 .. N /\ k \in 0 .. N /\ N - k \in Nat /\ N \in 0 .. N /\ k \in Nat
  <2> HIDE DEF N
  <2> QED
    BY <1>2, <1>4
<1>6. F[k] \in Nat /\ F[N] \in Nat
  BY <1>4, <1>5, SumsAdd
<1> HIDE DEF s, N, k, F
<1>7. first \in Nat /\ second \in Int
  BY <1>5, <1>6
<1>8. second > first
  <2> HIDE DEF first, second
  <2>1. RatioDen * first <= RatioNum * first
    BY <1>3, <1>7, TimesMore
  <2>2. RatioDen * first \in Nat /\ RatioNum * first \in Nat /\ second * RatioDen \in Int
    BY <1>3, <1>7
  <2>3. RatioDen * first < second * RatioDen
    BY <1>2, <2>1, <2>2
  <2> SUFFICES ASSUME second <= first PROVE FALSE
    BY <1>7
  <2>4. second * RatioDen <= first * RatioDen
    BY <1>3, <1>7, TimesMore
  <2> QED
    BY <1>3, <1>7, <2>2, <2>3, <2>4
<1>9. Predictor!TrendUp(data_r)
  BY <1>1, <1>2, <1>4, <1>8 DEF Predictor!TrendUp, N, s
<1>10. \E i, j \in 1 .. N : i < j /\ s[j] * RatioDen > RatioNum * s[i]
  <2> SUFFICES ASSUME \A i, j \in 1 .. N : i < j => ~(s[j] * RatioDen > RatioNum * s[i])
               PROVE  FALSE
    OBVIOUS
  <2> DEFINE T == {s[i] : i \in 1 .. k}
  <2>1. T \in SUBSET Nat /\ T # {}
    <3>1. \A i \in 1 .. k : i \in 1 .. N
      BY <1>5
    <3>2. 1 \in 1 .. k
      BY <1>5
    <3> QED
      BY <1>4, <3>1, <3>2
  <2>2. PICK x \in T : \A y \in T : x <= y
    BY <2>1, LeastNatural
  <2>3. PICK i \in 1 .. k : s[i] = x
    BY <2>2
  <2>4. x \in Nat /\ \A m \in 1 .. k : x <= s[m]
    BY <2>1, <2>2
  <2> DEFINE c == RatioNum * x
  <2>5. c \in Nat
    BY <1>3, <2>4
  <2>6. \A j \in k + 1 .. N : s[j] * RatioDen <= c
    <3> SUFFICES ASSUME NEW j \in k + 1 .. N PROVE s[j] * RatioDen <= c
      OBVIOUS
    <3>1. i \in 1 .. N /\ j \in 1 .. N /\ i < j
      BY <1>5, <2>3
    <3>2. s[j] * RatioDen \in Nat
      <4>1. \A a, b \in Nat : a * b \in Nat
        OBVIOUS
      <4> QED
        BY <1>3, <1>4, <3>1, <4>1
    <3>3. ~(s[j] * RatioDen > RatioNum * s[i])
      BY <3>1
    <3> HIDE DEF c
    <3>4. ~(s[j] * RatioDen > c)
      BY <2>3, <3>3 DEF c
    <3> QED
      BY <2>5, <3>2, <3>4
  <2> HIDE DEF c
  <2>7. (F[N] - F[k]) * RatioDen <= (N - k) * c
    BY <1>3, <1>4, <1>5, <2>5, <2>6, HalfAtMost DEF F, N
  <2>8. k * x <= F[k]
    BY <1>4, <1>5, <2>4, HalfAtLeast DEF F, N
  <2> HIDE DEF T
  <2>9. second * RatioDen <= k * ((N - k) * c)
    <3>1. (F[N] - F[k]) * RatioDen \in Int /\ (N - k) * c \in Int
      BY <1>3, <1>5, <1>6, <2>5
    <3>2. k * ((F[N] - F[k]) * RatioDen) <= k * ((N - k) * c)
      BY <1>5, <2>7, <3>1, TimesMore
    <3>3. k * ((F[N] - F[k]) * RatioDen) = second * RatioDen
      BY <1>3, <1>5, <1>6
    <3> QED
      BY <3>2, <3>3
  <2>10. k * ((N - k) * c) <= RatioNum * first
    <3>1. (RatioNum * (N - k)) * (k * x) <= (RatioNum * (N - k)) * F[k]
      <4>1. RatioNum * (N - k) \in Nat /\ k * x \in Int
        BY <1>3, <1>5, <2>4
      <4> QED
        BY <1>6, <2>8, <4>1, TimesMore
    <3>2. /\ (RatioNum * (N - k)) * (k * x) = k * ((N - k) * c)
          /\ (RatioNum * (N - k)) * F[k] = RatioNum * first
      BY <1>3, <1>5, <1>6, <2>4 DEF c
    <3> QED
      BY <3>1, <3>2
  <2>11. second * RatioDen \in Int /\ k * ((N - k) * c) \in Int /\ RatioNum * first \in Int
    BY <1>3, <1>5, <1>7, <2>5
  <2> HIDE DEF first, second
  <2> QED
    BY <1>2, <2>9, <2>10, <2>11
<1> QED
  BY <1>4, <1>9, <1>10 DEF s

(***************************************************************************)
(* The predictor's inductive invariant: the average lies within the        *)
(* samples, the variance is at most what its distance from both ends       *)
(* allows, and the window holds the newest.                                *)
(***************************************************************************)
RouteLatencyData ==
  [ ema_ms : Nat, variance : Nat, unit : Nat \ {0}, recent_latencies : Seq(Nat),
    sample_count : Nat, last_latency_ms : Nat, observed : SUBSET Nat ]

Room == IF window = 0 THEN 1 ELSE window

Moments(d) ==
  \E l, h :
    /\ Spans(d.observed, l, h)
    /\ l * d.unit <= d.ema_ms /\ d.ema_ms <= h * d.unit
    /\ d.variance <= (h * d.unit - d.ema_ms) * (d.ema_ms - l * d.unit)

NewestKept(d) ==
  /\ Len(d.recent_latencies) = IF d.sample_count < Room THEN d.sample_count ELSE Room
  /\ Elements(d.recent_latencies) \subseteq d.observed
  /\ d.sample_count > 0 => d.last_latency_ms = d.recent_latencies[Len(d.recent_latencies)]

Judged(d) ==
  /\ d \in RouteLatencyData
  /\ d.sample_count = 0 => d.observed = {}
  /\ d.sample_count > 0 => Moments(d)
  /\ NewestKept(d)

PredictInv ==
  /\ window \in Nat
  /\ \A r \in DOMAIN latencies : Judged(latencies[r])
  /\ \A t \in Threads : at[t] = "update" => latency[t].ms \in Nat

LEMMA MomentsStay ==
  ASSUME NEW S \in SUBSET Nat, NEW x \in Nat, NEW l, NEW h, Spans(S, l, h),
         NEW D \in Nat \ {0}, NEW A \in 0 .. D, NEW u \in Nat \ {0}, NEW m \in Nat, NEW v \in Nat,
         l * u <= m, m <= h * u, v <= (h * u - m) * (m - l * u)
  PROVE  LET delta == x * u - m
             mean == D * m + A * delta
             variance == (D - A) * (D * v + A * delta * delta)
         IN  /\ mean \in Nat /\ variance \in Nat
             /\ \E low, high :
                  /\ Spans(S \cup {x}, low, high)
                  /\ low * (D * u) <= mean /\ mean <= high * (D * u)
                  /\ variance <= (high * (D * u) - mean) * (mean - low * (D * u))
<1> DEFINE delta == x * u - m
           mean == D * m + A * delta
           variance == (D - A) * (D * v + A * delta * delta)
<1>1. PICK low, high :
        /\ Spans(S \cup {x}, low, high)
        /\ low <= l /\ h <= high /\ low <= x /\ x <= high
        /\ low * u <= m /\ m <= high * u
        /\ low * (D * u) <= A * x * u + (D - A) * m
        /\ A * x * u + (D - A) * m <= high * (D * u)
  BY AverageStays
<1>2. low \in Nat /\ high \in Nat /\ l \in Nat /\ h \in Nat
  BY <1>1 DEF Spans
<1>3. A \in Nat /\ D - A \in Nat /\ u \in Nat /\ delta \in Int
  OBVIOUS
<1>4. A * x * u + (D - A) * m = mean
  BY <1>3
<1> DEFINE p == high * u - m
           q == m - low * u
<1>5. low * u <= l * u /\ h * u <= high * u /\ low * u <= x * u /\ x * u <= high * u
  BY <1>1, <1>2, TimesMore
<1>6. /\ low * u \in Nat /\ l * u \in Nat /\ h * u \in Nat /\ high * u \in Nat /\ x * u \in Nat
  BY <1>2, <1>3
<1>7. /\ p \in Nat /\ q \in Nat /\ h * u - m \in Nat /\ m - l * u \in Nat
      /\ h * u - m <= p /\ m - l * u <= q
      /\ delta <= p /\ 0 - delta <= q
  BY <1>1, <1>5, <1>6
<1>8. v <= p * q
  <2>1. (h * u - m) * (m - l * u) <= p * q
    BY <1>7, ProductMore
  <2>2. (h * u - m) * (m - l * u) \in Int /\ p * q \in Int
    BY <1>7
  <2> QED
    BY <2>1, <2>2
<1> DEFINE H == high * (D * u)
           L == low * (D * u)
<1>9. H \in Nat /\ L \in Nat /\ D * p - A * delta = H - mean /\ D * q + A * delta = mean - L
  <2>1. D * u \in Nat
    BY <1>3
  <2>2. H \in Nat /\ L \in Nat
    BY <1>2, <2>1
  <2>3. D * p = H - D * m /\ D * q = D * m - L
    BY <1>2, <1>3
  <2>4. H - D * m - A * delta = H - (D * m + A * delta)
    BY <1>3, <2>2
  <2>5. D * m - L + A * delta = (D * m + A * delta) - L
    BY <1>3, <2>2
  <2> QED
    BY <2>2, <2>3, <2>4, <2>5
<1> HIDE DEF p, q, delta
<1>10. variance \in Nat /\ variance <= (D * p - A * delta) * (D * q + A * delta)
  BY <1>3, <1>7, <1>8, VarianceStays
<1>11. mean \in Int
  BY <1>3
<1> HIDE DEF variance, mean, H, L
<1>12. L <= mean /\ mean <= H
  BY <1>1, <1>4 DEF L, H
<1>13. mean \in Nat
  BY <1>9, <1>11, <1>12
<1>14. variance <= (H - mean) * (mean - L)
  BY <1>9, <1>10
<1>15. \E lo, hi :
          /\ Spans(S \cup {x}, lo, hi)
          /\ lo * (D * u) <= mean /\ mean <= hi * (D * u)
          /\ variance <= (hi * (D * u) - mean) * (mean - lo * (D * u))
  BY <1>1, <1>12, <1>14 DEF L, H
<1> QED
  BY <1>10, <1>13, <1>15 DEF variance, mean, delta

LEMMA WindowSlides ==
  ASSUME NEW s \in Seq(Nat), NEW n \in Nat, NEW x \in Nat, window \in Nat,
         Len(s) = IF n < Room THEN n ELSE Room
  PROVE  LET room == Len(s) < window \/ s = <<>>
             new == Append(IF room THEN s ELSE Tail(s), x)
         IN  /\ new \in Seq(Nat)
             /\ Len(new) = IF n + 1 < Room THEN n + 1 ELSE Room
             /\ new[Len(new)] = x
             /\ Elements(new) \subseteq Elements(s) \cup {x}
<1> DEFINE room == Len(s) < window \/ s = <<>>
           kept == IF room THEN s ELSE Tail(s)
           new == Append(kept, x)
<1>1. /\ Room \in Nat /\ Room >= 1 /\ Len(s) \in Nat /\ (s = <<>> <=> Len(s) = 0)
      /\ Room = IF window = 0 THEN 1 ELSE window
  BY DEF Room
<1>2. CASE room
  <2>1. kept = s /\ new = Append(s, x)
    BY <1>2
  <2>2. Len(s) < Room
    BY <1>1, <1>2
  <2>3. new \in Seq(Nat) /\ Len(new) = Len(s) + 1 /\ new[Len(s) + 1] = x
    BY <2>1
  <2>4. Elements(new) = Elements(s) \cup {x}
    BY <2>1, ElementsAfterAppend
  <2> HIDE DEF new, room, kept
  <2>5. Len(new) = IF n + 1 < Room THEN n + 1 ELSE Room
    BY <1>1, <2>2, <2>3
  <2> QED
    BY <2>3, <2>4, <2>5 DEF new, room, kept
<1>3. CASE ~room
  <2>1. s # <<>> /\ ~(Len(s) < window) /\ new = Append(Tail(s), x)
    BY <1>3
  <2>2. Tail(s) \in Seq(Nat) /\ Len(Tail(s)) = Len(s) - 1
        /\ \A i \in 1 .. Len(s) - 1 : Tail(s)[i] = s[i + 1]
    BY <2>1
  <2>3. /\ new \in Seq(Nat) /\ Len(new) = Len(s) /\ new[Len(s)] = x
        /\ Elements(new) = Elements(Tail(s)) \cup {x}
    <3>1. Append(Tail(s), x) \in Seq(Nat) /\ Len(Append(Tail(s), x)) = Len(s) - 1 + 1
          /\ Append(Tail(s), x)[Len(s) - 1 + 1] = x
      BY <2>2
    <3>2. Len(s) - 1 + 1 = Len(s)
      BY <1>1
    <3>3. Elements(Append(Tail(s), x)) = Elements(Tail(s)) \cup {x}
      <4> DEFINE r == Tail(s)
      <4>1. r \in Seq(Nat)
        BY <2>2
      <4> HIDE DEF r
      <4>2. Elements(Append(r, x)) = Elements(r) \cup {x}
        BY <4>1, ElementsAfterAppend
      <4> QED
        BY <4>2 DEF r
    <3> QED
      BY <2>1, <3>1, <3>2, <3>3
  <2>4. Elements(Tail(s)) \subseteq Elements(s)
    <3>1. DOMAIN s = 1 .. Len(s) /\ DOMAIN Tail(s) = 1 .. Len(s) - 1
      BY <2>2
    <3>2. \A i \in 1 .. Len(s) - 1 : i + 1 \in 1 .. Len(s)
      BY <1>1
    <3> QED
      BY <2>2, <3>1, <3>2 DEF Elements
  <2> HIDE DEF new, room, kept
  <2>5. Len(new) = IF n + 1 < Room THEN n + 1 ELSE Room
    BY <1>1, <2>1, <2>3
  <2> QED
    BY <2>3, <2>4, <2>5 DEF new, room, kept
<1> QED
  BY <1>2, <1>3

LEMMA UpdateJudged ==
  ASSUME CollectorAssumption, window \in Nat, NEW d, Judged(d), NEW ms \in Nat
  PROVE  Judged(Predictor!Updated(d, ms))
<1> DEFINE e == Predictor!Updated(d, ms)
           s == d.recent_latencies
           room == Len(s) < window \/ s = <<>>
           new == Append(IF room THEN s ELSE Tail(s), ms)
           delta == ms * d.unit - d.ema_ms
           mean == AlphaDen * d.ema_ms + AlphaNum * delta
           variance == (AlphaDen - AlphaNum) * (AlphaDen * d.variance + AlphaNum * delta * delta)
<1>1. /\ d.ema_ms \in Nat /\ d.variance \in Nat /\ d.unit \in Nat \ {0} /\ s \in Seq(Nat)
      /\ d.sample_count \in Nat /\ d.observed \in SUBSET Nat
  BY DEF Judged, RouteLatencyData
<1>2. AlphaDen \in Nat \ {0} /\ AlphaNum \in 0 .. AlphaDen
  BY DEF CollectorAssumption
<1>3. e = [ ema_ms |-> IF d.sample_count = 0 THEN ms ELSE mean,
            variance |-> IF d.sample_count = 0 THEN 0 ELSE variance,
            unit |-> IF d.sample_count = 0 THEN 1 ELSE AlphaDen * d.unit,
            recent_latencies |-> new,
            sample_count |-> d.sample_count + 1,
            last_latency_ms |-> ms,
            observed |-> d.observed \cup {ms} ]
  BY DEF Predictor!Updated, Predictor!IsFirst
<1>4. /\ new \in Seq(Nat)
      /\ Len(new) = IF d.sample_count + 1 < Room THEN d.sample_count + 1 ELSE Room
      /\ new[Len(new)] = ms
      /\ Elements(new) \subseteq Elements(s) \cup {ms}
  <2>1. Len(s) = IF d.sample_count < Room THEN d.sample_count ELSE Room
    BY DEF Judged, NewestKept
  <2> HIDE DEF s
  <2> QED
    BY <1>1, <2>1, WindowSlides
<1> HIDE DEF e, new, room
<1>5. NewestKept(e)
  <2>1. Elements(s) \subseteq d.observed
    BY DEF Judged, NewestKept
  <2>2. /\ e.recent_latencies = new /\ e.sample_count = d.sample_count + 1
        /\ e.last_latency_ms = ms /\ e.observed = d.observed \cup {ms}
    BY <1>3
  <2> HIDE DEF s
  <2> QED
    BY <1>4, <2>1, <2>2 DEF NewestKept
<1>6. CASE d.sample_count = 0
  <2>1. /\ e.ema_ms = ms /\ e.variance = 0 /\ e.unit = 1 /\ e.observed = {ms}
        /\ e.sample_count = 1
    <3>1. d.observed = {}
      BY <1>6 DEF Judged
    <3> QED
      BY <1>3, <1>6, <3>1
  <2>2. e \in RouteLatencyData
    BY <1>1, <1>3, <1>4, <1>6 DEF RouteLatencyData
  <2>3. Moments(e)
    <3>1. Spans({ms}, ms, ms) /\ ms * 1 = ms /\ 0 <= (ms * 1 - ms) * (ms - ms * 1)
      BY DEF Spans
    <3>2. Spans(e.observed, ms, ms)
          /\ ms * e.unit <= e.ema_ms /\ e.ema_ms <= ms * e.unit
          /\ e.variance <= (ms * e.unit - e.ema_ms) * (e.ema_ms - ms * e.unit)
      BY <2>1, <3>1
    <3> QED
      BY <3>2 DEF Moments
  <2> QED
    BY <1>5, <2>1, <2>2, <2>3 DEF Judged, e
<1>7. CASE d.sample_count # 0
  <2>1. PICK l, h :
          /\ Spans(d.observed, l, h)
          /\ l * d.unit <= d.ema_ms /\ d.ema_ms <= h * d.unit
          /\ d.variance <= (h * d.unit - d.ema_ms) * (d.ema_ms - l * d.unit)
    BY <1>1, <1>7 DEF Judged, Moments
  <2>2. /\ mean \in Nat /\ variance \in Nat
        /\ \E low, high :
             /\ Spans(d.observed \cup {ms}, low, high)
             /\ low * (AlphaDen * d.unit) <= mean /\ mean <= high * (AlphaDen * d.unit)
             /\ variance <= (high * (AlphaDen * d.unit) - mean) * (mean - low * (AlphaDen * d.unit))
    BY <1>1, <1>2, <2>1, MomentsStay
  <2>3. AlphaDen * d.unit \in Nat \ {0}
    BY <1>1, <1>2
  <2> HIDE DEF mean, variance
  <2>4. e \in RouteLatencyData
    <3> DEFINE unit == AlphaDen * d.unit
               count == d.sample_count + 1
               seen_ms == d.observed \cup {ms}
    <3>1. unit \in Nat \ {0} /\ count \in Nat /\ seen_ms \in SUBSET Nat
      BY <1>1, <2>3
    <3>2. e = [ ema_ms |-> mean, variance |-> variance, unit |-> unit,
                recent_latencies |-> new, sample_count |-> count,
                last_latency_ms |-> ms, observed |-> seen_ms ]
      BY <1>3, <1>7
    <3> HIDE DEF unit, count, seen_ms, s, delta
    <3> QED
      BY <1>4, <2>2, <3>1, <3>2 DEF RouteLatencyData
  <2>5. /\ e.ema_ms = mean /\ e.variance = variance /\ e.unit = AlphaDen * d.unit
        /\ e.observed = d.observed \cup {ms} /\ e.sample_count = d.sample_count + 1
    BY <1>3, <1>7
  <2>6. Moments(e)
    BY <2>2, <2>5 DEF Moments
  <2>7. e.sample_count # 0
    BY <1>1, <2>5
  <2> QED
    BY <1>5, <2>4, <2>6, <2>7 DEF Judged, e
<1> QED
  BY <1>6, <1>7

LEMMA NewIsUnjudged == window \in Nat => Judged(Predictor!NewRouteLatencyData)
<1> SUFFICES ASSUME window \in Nat PROVE Judged(Predictor!NewRouteLatencyData)
  OBVIOUS
<1> DEFINE d == Predictor!NewRouteLatencyData
<1>1. /\ d \in RouteLatencyData /\ d.sample_count = 0 /\ d.observed = {} /\ d.recent_latencies = <<>>
  BY DEF Predictor!NewRouteLatencyData, RouteLatencyData
<1>2. Elements(<<>>) = {} /\ Len(<<>>) = 0
  BY DEF Elements
<1>3. Room \in Nat /\ 0 < Room
  BY DEF Room
<1> HIDE DEF d
<1>4. NewestKept(d)
  BY <1>1, <1>2, <1>3 DEF NewestKept
<1> QED
  BY <1>1, <1>4 DEF Judged, d

LEMMA PredictBegin == Init => PredictInv
<1> SUFFICES ASSUME Init PROVE PredictInv
  OBVIOUS
<1>1. window \in Nat
  BY PredictorAssumption DEF Init, Predictor!Init, PredictorAssumption
<1>2. DOMAIN latencies = {} /\ \A t \in Threads : at[t] = "idle"
  BY DEF Init, Predictor!Init
<1> QED
  BY <1>1, <1>2 DEF PredictInv

LEMMA PredictStep == PredictInv /\ PredictorInv /\ [Next]_vars => PredictInv'
<1> SUFFICES ASSUME PredictInv, PredictorInv, [Predictor!Next]_predictorVars PROVE PredictInv'
  BY OneStepsAtATime
<1>1. /\ window \in Nat /\ \A r \in DOMAIN latencies : Judged(latencies[r])
      /\ \A t \in Threads : at[t] = "update" => latency[t].ms \in Nat
  BY DEF PredictInv
<1>2. DOMAIN at = Threads /\ DOMAIN latency = Threads
  BY DEF PredictorInv
<1>3. window' = window
  BY DEF predictorVars, Predictor!Next, Predictor!Find, Predictor!Update, Predictor!Reset
<1>4. Judged(Predictor!NewRouteLatencyData)
  BY <1>1, NewIsUnjudged
<1>5. ASSUME /\ \A r \in DOMAIN latencies' : Judged(latencies'[r])
             /\ \A t \in Threads : at'[t] = "update" => latency'[t].ms \in Nat
      PROVE  PredictInv'
  BY <1>1, <1>3, <1>5 DEF PredictInv, Judged, Moments, NewestKept, Room
<1>6. ASSUME NEW t \in Threads, Predictor!Find(t) PROVE PredictInv'
  <2>1. PICK r \in Routes, ms \in Latencies :
          /\ latencies' = [q \in DOMAIN latencies \cup {r} |->
                             IF q \in DOMAIN latencies THEN latencies[q]
                             ELSE Predictor!NewRouteLatencyData]
          /\ latency' = [latency EXCEPT ![t] = [route |-> r, ms |-> ms]]
    BY <1>6 DEF Predictor!Find
  <2>2. at' = [at EXCEPT ![t] = "update"]
    BY <1>6 DEF Predictor!Find
  <2>3. ms \in Nat
    BY CollectorAssumption DEF CollectorAssumption
  <2>4. \A q \in DOMAIN latencies' : Judged(latencies'[q])
    BY <1>1, <1>4, <2>1
  <2>5. \A u \in Threads : at'[u] = "update" => latency'[u].ms \in Nat
    BY <1>1, <1>2, <2>1, <2>2, <2>3
  <2> QED
    BY <1>5, <2>4, <2>5
<1>7. ASSUME NEW t \in Threads, Predictor!Update(t) PROVE PredictInv'
  <2> DEFINE r == latency[t].route
             ms == latency[t].ms
  <2>1. /\ at[t] = "update" /\ at' = [at EXCEPT ![t] = "idle"]
        /\ latency' = [latency EXCEPT ![t] = Predictor!NoLatency]
        /\ IF r \in DOMAIN latencies
           THEN latencies' = [latencies EXCEPT ![r] = Predictor!Updated(latencies[r], ms)]
           ELSE UNCHANGED latencies
    BY <1>7 DEF Predictor!Update
  <2>2. ms \in Nat
    BY <1>1, <2>1
  <2> HIDE DEF r, ms
  <2>3. \A q \in DOMAIN latencies' : Judged(latencies'[q])
    <3>1. CASE r \in DOMAIN latencies
      <4>1. Judged(Predictor!Updated(latencies[r], ms))
        BY <1>1, <2>2, <3>1, CollectorAssumption, UpdateJudged
      <4> QED
        BY <1>1, <2>1, <3>1, <4>1
    <3>2. CASE r \notin DOMAIN latencies
      BY <1>1, <2>1, <3>2
    <3> QED
      BY <3>1, <3>2
  <2>4. \A u \in Threads : at'[u] = "update" => latency'[u].ms \in Nat
    BY <1>1, <1>2, <2>1
  <2> QED
    BY <1>5, <2>3, <2>4
<1>8. ASSUME NEW gone, Predictor!Reset(gone) PROVE PredictInv'
  BY <1>1, <1>5, <1>8 DEF Predictor!Reset
<1>9. CASE UNCHANGED predictorVars
  BY <1>1, <1>5, <1>9 DEF predictorVars
<1> QED
  BY <1>6, <1>7, <1>8, <1>9 DEF Predictor!Next

(* The smaller and the larger of two numbers.                                *)
LEMMA TwoExtremes ==
  ASSUME NEW a \in Nat, NEW b \in Nat
  PROVE  /\ Predictor!Min({a, b}) = IF a < b THEN a ELSE b
         /\ Predictor!Max({a, b}) = IF a < b THEN b ELSE a
<1>1. {a, b} \in SUBSET Nat
  OBVIOUS
<1>2. CASE a < b
  <2>1. Spans({a, b}, a, b)
    BY <1>2 DEF Spans
  <2> QED
    BY <1>1, <1>2, <2>1, Extremes
<1>3. CASE ~(a < b)
  <2>1. Spans({a, b}, b, a)
    BY <1>3 DEF Spans
  <2> QED
    BY <1>1, <1>3, <2>1, Extremes
<1> QED
  BY <1>2, <1>3

LEMMA VarianceBounded ==
  ASSUME NEW l \in Nat, NEW h \in Nat, NEW u \in Nat, NEW m \in Nat, NEW v \in Nat,
         l * u <= m, m <= h * u, v <= (h * u - m) * (m - l * u)
  PROVE  4 * v <= (h - l) * (h - l) * u * u
<1> DEFINE p == h * u - m
           q == m - l * u
<1>1. h * u \in Nat /\ l * u \in Nat
  OBVIOUS
<1>2. p \in Nat /\ q \in Nat
  BY <1>1
<1>3. p + q = (h - l) * u
  <2>1. (h - l) * u = h * u - l * u
    OBVIOUS
  <2> QED
    BY <1>1, <2>1
<1> HIDE DEF p, q
<1>4. (p + q) * (p + q) = 4 * (p * q) + (p - q) * (p - q)
  BY <1>2
<1>5. (p - q) * (p - q) \in Nat
  <2>1. CASE p >= q
    BY <1>2, <2>1
  <2>2. CASE p < q
    <3>1. q - p \in Nat /\ (q - p) * (q - p) = (p - q) * (p - q)
      BY <1>2, <2>2
    <3> QED
      BY <3>1
  <2> QED
    BY <1>2, <2>1, <2>2
<1>6. 4 * v <= (p + q) * (p + q)
  <2>1. v <= p * q /\ p * q \in Nat
    BY <1>2 DEF p, q
  <2> QED
    BY <1>4, <1>5, <2>1
<1>7. ((h - l) * u) * ((h - l) * u) = (h - l) * (h - l) * u * u
  OBVIOUS
<1> QED
  BY <1>3, <1>6, <1>7

(* What the invariant says of one route.                                     *)
LEMMA JudgedPredicts ==
  ASSUME CollectorAssumption, PredictorAssumption, window \in Nat,
         NEW d, Judged(d), d.sample_count > 0
  PROVE  LET recent == d.recent_latencies
             low == Predictor!Min(d.observed)
             high == Predictor!Max(d.observed)
         IN  /\ low * d.unit <= d.ema_ms /\ d.ema_ms <= high * d.unit
             /\ Predictor!Predict(d) \in low .. high
             /\ 4 * d.variance <= (high - low) * (high - low) * d.unit * d.unit
             /\ \A ms \in Latencies : Predictor!IsAnomaly(d, ms) => ms > low
             /\ Len(recent) = Predictor!Min({d.sample_count, Predictor!Max({window, 1})})
             /\ d.last_latency_ms = Predictor!Last(recent)
             /\ Predictor!ToSet(recent) \subseteq d.observed
             /\ Predictor!IsDegrading(d) =>
                  /\ Predictor!TrendUp(d)
                  /\ \E i, j \in DOMAIN recent : i < j /\ recent[j] * RatioDen > RatioNum * recent[i]
<1> DEFINE recent == d.recent_latencies
           low == Predictor!Min(d.observed)
           high == Predictor!Max(d.observed)
<1>1. /\ d.ema_ms \in Nat /\ d.variance \in Nat /\ d.unit \in Nat \ {0} /\ recent \in Seq(Nat)
      /\ d.sample_count \in Nat /\ d.observed \in SUBSET Nat
  BY DEF Judged, RouteLatencyData
<1>2. /\ Spans(d.observed, low, high)
      /\ low * d.unit <= d.ema_ms /\ d.ema_ms <= high * d.unit
      /\ d.variance <= (high * d.unit - d.ema_ms) * (d.ema_ms - low * d.unit)
  <2>1. PICK l, h :
          /\ Spans(d.observed, l, h)
          /\ l * d.unit <= d.ema_ms /\ d.ema_ms <= h * d.unit
          /\ d.variance <= (h * d.unit - d.ema_ms) * (d.ema_ms - l * d.unit)
    BY <1>1 DEF Judged, Moments
  <2>2. low = l /\ high = h
    BY <1>1, <2>1, Extremes
  <2> QED
    BY <2>1, <2>2
<1> HIDE DEF low, high
<1>3. low \in Nat /\ high \in Nat
  BY <1>1, <1>2 DEF Spans
<1>4. Predictor!Predict(d) \in low .. high
  <2> DEFINE m == d.ema_ms
             u == d.unit
  <2>1. m \in Nat /\ u \in Nat \ {0} /\ low * u <= m /\ m <= high * u
    BY <1>1, <1>2
  <2>2. Predictor!Predict(d) = (m + u \div 2) \div u
    BY DEF Predictor!Predict
  <2> HIDE DEF m, u
  <2> QED
    BY <1>3, <2>1, <2>2, QuotientBetween
<1>5. 4 * d.variance <= (high - low) * (high - low) * d.unit * d.unit
  <2> DEFINE m == d.ema_ms
             u == d.unit
             v == d.variance
  <2>1. /\ m \in Nat /\ u \in Nat /\ v \in Nat /\ low * u <= m /\ m <= high * u
        /\ v <= (high * u - m) * (m - low * u)
    BY <1>1, <1>2
  <2> HIDE DEF m, u, v
  <2>2. 4 * v <= (high - low) * (high - low) * u * u
    BY <1>3, <2>1, VarianceBounded
  <2> QED
    BY <2>2 DEF u, v
<1>6. ASSUME NEW ms \in Latencies, Predictor!IsAnomaly(d, ms) PROVE ms > low
  <2> DEFINE m == d.ema_ms
             u == d.unit
  <2>1. ms \in Nat /\ m \in Nat /\ u \in Nat /\ low * u <= m
    BY <1>1, <1>2 DEF CollectorAssumption
  <2>2. ms * u - m > 0
    BY <1>6 DEF Predictor!IsAnomaly
  <2> HIDE DEF m, u
  <2>3. ms * u \in Nat /\ low * u \in Nat
    BY <1>3, <2>1
  <2> SUFFICES ASSUME ms <= low PROVE FALSE
    BY <1>3, <2>1
  <2>4. ms * u <= low * u
    BY <1>3, <2>1, TimesMore
  <2> QED
    BY <2>1, <2>2, <2>3, <2>4
<1>7. Len(recent) = Predictor!Min({d.sample_count, Predictor!Max({window, 1})})
  <2>1. Room \in Nat /\ Predictor!Max({window, 1}) = Room
    <3>1. Predictor!Max({window, 1}) = IF window < 1 THEN 1 ELSE window
      BY TwoExtremes
    <3> QED
      BY <3>1 DEF Room
  <2>2. Predictor!Min({d.sample_count, Room}) = IF d.sample_count < Room THEN d.sample_count ELSE Room
    BY <1>1, <2>1, TwoExtremes
  <2> QED
    BY <2>1, <2>2 DEF Judged, NewestKept
<1>8. d.last_latency_ms = Predictor!Last(recent) /\ Predictor!ToSet(recent) \subseteq d.observed
  BY DEF Judged, NewestKept, Predictor!Last, Predictor!ToSet, Elements
<1>9. Predictor!IsDegrading(d) =>
        /\ Predictor!TrendUp(d)
        /\ \E i, j \in DOMAIN recent : i < j /\ recent[j] * RatioDen > RatioNum * recent[i]
  BY <1>1, DegradingShows
<1> QED
  BY <1>2, <1>4, <1>5, <1>6, <1>7, <1>8, <1>9 DEF low, high

(***************************************************************************)
(* The predictor's part of AnswersFromSamples: prediction, variance,       *)
(* anomalies and trend follow from the samples since the last reset        *)
(* (update, predict, is_anomaly, is_degrading, trend).                     *)
(***************************************************************************)
THEOREM PredictionsOfTheSamples == Spec => []Predictor!PredictionsFromSamples
<1>1. PredictInv => Predictor!PredictionsFromSamples
  <2> SUFFICES ASSUME PredictInv, NEW r \in DOMAIN latencies, latencies[r].sample_count > 0
               PROVE  LET data_r == latencies[r]
                          recent == data_r.recent_latencies
                          low == Predictor!Min(data_r.observed)
                          high == Predictor!Max(data_r.observed)
                      IN  /\ low * data_r.unit <= data_r.ema_ms /\ data_r.ema_ms <= high * data_r.unit
                          /\ Predictor!Predict(data_r) \in low .. high
                          /\ 4 * data_r.variance <= (high - low) * (high - low) * data_r.unit * data_r.unit
                          /\ \A ms \in Latencies : Predictor!IsAnomaly(data_r, ms) => ms > low
                          /\ Len(recent) = Predictor!Min({data_r.sample_count, Predictor!Max({window, 1})})
                          /\ data_r.last_latency_ms = Predictor!Last(recent)
                          /\ Predictor!ToSet(recent) \subseteq data_r.observed
                          /\ Predictor!IsDegrading(data_r) =>
                               /\ Predictor!TrendUp(data_r)
                               /\ \E i, j \in DOMAIN recent :
                                    i < j /\ recent[j] * RatioDen > RatioNum * recent[i]
    BY DEF Predictor!PredictionsFromSamples
  <2>1. window \in Nat /\ Judged(latencies[r])
    BY DEF PredictInv
  <2> QED
    BY <2>1, CollectorAssumption, PredictorAssumption, JudgedPredicts
<1> QED
  BY <1>1, PredictorBegins, PredictorStep, PredictBegin, PredictStep, PTL DEF Spec

(***************************************************************************)
(* What the health checker, the collector, the predictor and the audit log *)
(* answer agrees with what they were given (update_status, get_stats,      *)
(* predict, is_anomaly, is_degrading, get_entries).                        *)
(***************************************************************************)
THEOREM AnswersJustified == Spec => []AnswersFromSamples
BY StatusOfTheWindow, StatsOfTheWindow, PredictionsOfTheSamples, LogOfTheNewest, PTL
   DEF AnswersFromSamples
=============================================================================
