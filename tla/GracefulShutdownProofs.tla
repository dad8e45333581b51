------------------------ MODULE GracefulShutdownProofs ------------------------
(***************************************************************************)
(* Theorems about GracefulShutdown for every number of workers and         *)
(* operators, every timeout and every word that can count the workers.     *)
(***************************************************************************)
EXTENDS GracefulShutdown, FiniteSetTheorems, TLAPS

-----------------------------------------------------------------------------
(***************************************************************************)
(* Spec => []TypeOK.                                                       *)
(***************************************************************************)
LEMMA TypeInit == Init => TypeOK
<1> SUFFICES ASSUME Init PROVE TypeOK
  OBVIOUS
<1>1. 0 \in 0 .. Modulus - 1 /\ 0 \in 0 .. ForceTimeout
      /\ 0 \in 0 .. GracefulTimeout + DrainTimeout
  <2>1. Cardinality(Workers) \in Nat
    BY ShutdownAssumption, FS_CardinalityType
  <2> QED
    BY <2>1, ShutdownAssumption
<1> QED
  BY <1>1 DEF Init, TypeOK, Threads, WorkerSteps, OperatorSteps

(* A clock moves on up to its limit.                                         *)
LEMMA LaterType ==
  ASSUME NEW limit \in Nat, NEW n \in 0 .. limit
  PROVE  Later(n, limit) \in 0 .. limit
  BY DEF Later

(* Every step but a tick moves one thread to a step of its own kind.         *)
LEMMA GotoType ==
  ASSUME TypeOK, NEW t \in Threads, NEW s, Goto(t, s),
         t \in Workers => s \in WorkerSteps,
         t \in Operators => s \in OperatorSteps
  PROVE  /\ pc' \in [Threads -> WorkerSteps \cup OperatorSteps]
         /\ \A w \in Workers : pc'[w] \in WorkerSteps
         /\ \A o \in Operators : pc'[o] \in OperatorSteps
         /\ overlapped' \in BOOLEAN
<1>1. pc' = [pc EXCEPT ![t] = s]
  BY DEF Goto
<1>2. overlapped' \in BOOLEAN
  BY DEF Goto, RecordOverlap
<1>3. s \in WorkerSteps \cup OperatorSteps
  BY DEF Threads
<1> QED
  BY <1>1, <1>2, <1>3 DEF TypeOK, Threads

LEMMA TypeStep == TypeOK /\ [Next]_vars => TypeOK'
<1> SUFFICES ASSUME TypeOK, [Next]_vars PROVE TypeOK'
  OBVIOUS
<1>0. /\ Workers \subseteq Threads /\ Operators \subseteq Threads
      /\ Workers \cap Operators = {}
      /\ Modulus \in Nat /\ Modulus > 0 /\ ForceTimeout \in Nat
      /\ GracefulTimeout \in Nat /\ DrainTimeout \in Nat
      /\ GracefulTimeout + DrainTimeout \in Nat
  <2>1. Cardinality(Workers) \in Nat
    BY ShutdownAssumption, FS_CardinalityType
  <2> QED
    BY <2>1, ShutdownAssumption DEF Threads
<1>1. ASSUME NEW w \in Workers, CheckFlag(w) PROVE TypeOK'
  <2>1. PICK s \in WorkerSteps : Goto(w, s)
    BY <1>1 DEF CheckFlag, WorkerSteps
  <2>2. /\ pc' \in [Threads -> WorkerSteps \cup OperatorSteps]
        /\ \A v \in Workers : pc'[v] \in WorkerSteps
        /\ \A v \in Operators : pc'[v] \in OperatorSteps
        /\ overlapped' \in BOOLEAN
    BY <1>0, <2>1, GotoType
  <2> QED
    BY <1>0, <1>1, <2>2 DEF CheckFlag, TypeOK, shared
<1>2. ASSUME NEW w \in Workers, CountIn(w) PROVE TypeOK'
  <2>1. PICK s \in WorkerSteps : Goto(w, s)
    BY <1>2 DEF CountIn, WorkerSteps
  <2>2. /\ pc' \in [Threads -> WorkerSteps \cup OperatorSteps]
        /\ \A v \in Workers : pc'[v] \in WorkerSteps
        /\ \A v \in Operators : pc'[v] \in OperatorSteps
        /\ overlapped' \in BOOLEAN
    BY <1>0, <2>1, GotoType
  <2>3. in_flight_requests' \in 0 .. Modulus - 1
    BY <1>0, <1>2 DEF CountIn, TypeOK
  <2> QED
    BY <1>0, <1>2, <2>2, <2>3 DEF CountIn, TypeOK, shared
<1>3. ASSUME NEW w \in Workers, EndRequest(w) PROVE TypeOK'
  <2>1. PICK s \in WorkerSteps : Goto(w, s)
    BY <1>3 DEF EndRequest, WorkerSteps
  <2>2. /\ pc' \in [Threads -> WorkerSteps \cup OperatorSteps]
        /\ \A v \in Workers : pc'[v] \in WorkerSteps
        /\ \A v \in Operators : pc'[v] \in OperatorSteps
        /\ overlapped' \in BOOLEAN
    BY <1>0, <2>1, GotoType
  <2> QED
    BY <1>0, <1>3, <2>2 DEF EndRequest, TypeOK, shared
<1>4. ASSUME NEW w \in Workers, CountOut(w) PROVE TypeOK'
  <2>1. PICK s \in WorkerSteps : Goto(w, s)
    BY <1>4 DEF CountOut, WorkerSteps
  <2>2. /\ pc' \in [Threads -> WorkerSteps \cup OperatorSteps]
        /\ \A v \in Workers : pc'[v] \in WorkerSteps
        /\ \A v \in Operators : pc'[v] \in OperatorSteps
        /\ overlapped' \in BOOLEAN
    BY <1>0, <2>1, GotoType
  <2>3. in_flight_requests' \in 0 .. Modulus - 1
    BY <1>0, <1>4 DEF CountOut, TypeOK
  <2> QED
    BY <1>0, <1>4, <2>2, <2>3 DEF CountOut, TypeOK, shared
<1>5. ASSUME NEW o \in Operators, RequestShutdown(o) PROVE TypeOK'
  <2>1. PICK s \in OperatorSteps : Goto(o, s)
    BY <1>5 DEF RequestShutdown, OperatorSteps, ResetSteps
  <2>2. /\ pc' \in [Threads -> WorkerSteps \cup OperatorSteps]
        /\ \A v \in Workers : pc'[v] \in WorkerSteps
        /\ \A v \in Operators : pc'[v] \in OperatorSteps
        /\ overlapped' \in BOOLEAN
    BY <1>0, <2>1, GotoType
  <2> QED
    BY <1>0, <1>5, <2>2 DEF RequestShutdown, TypeOK, shared
<1>6. ASSUME NEW o \in Operators, SetStart(o) PROVE TypeOK'
  <2>1. PICK s \in OperatorSteps : Goto(o, s)
    BY <1>6 DEF SetStart, OperatorSteps, ResetSteps
  <2>2. /\ pc' \in [Threads -> WorkerSteps \cup OperatorSteps]
        /\ \A v \in Workers : pc'[v] \in WorkerSteps
        /\ \A v \in Operators : pc'[v] \in OperatorSteps
        /\ overlapped' \in BOOLEAN
    BY <1>0, <2>1, GotoType
  <2> QED
    BY <1>0, <1>6, <2>2 DEF SetStart, TypeOK, shared
<1>7. ASSUME NEW o \in Operators, WaitForDrain(o) PROVE TypeOK'
  <2>1. PICK s \in OperatorSteps : Goto(o, s)
    BY <1>7 DEF WaitForDrain, OperatorSteps, ResetSteps
  <2>2. /\ pc' \in [Threads -> WorkerSteps \cup OperatorSteps]
        /\ \A v \in Workers : pc'[v] \in WorkerSteps
        /\ \A v \in Operators : pc'[v] \in OperatorSteps
        /\ overlapped' \in BOOLEAN
    BY <1>0, <2>1, GotoType
  <2> QED
    BY <1>0, <1>7, <2>2 DEF WaitForDrain, TypeOK, shared
<1>8. ASSUME NEW o \in Operators, Drained(o) PROVE TypeOK'
  <2>1. PICK s \in OperatorSteps : Goto(o, s)
    BY <1>8 DEF Drained, OperatorSteps, ResetSteps
  <2>2. /\ pc' \in [Threads -> WorkerSteps \cup OperatorSteps]
        /\ \A v \in Workers : pc'[v] \in WorkerSteps
        /\ \A v \in Operators : pc'[v] \in OperatorSteps
        /\ overlapped' \in BOOLEAN
    BY <1>0, <2>1, GotoType
  <2>3. At({"add"}) \subseteq Workers
    BY <1>0 DEF At, TypeOK, Threads, OperatorSteps, ResetSteps
  <2>4. Cardinality(At({"add"})) \in Nat
    BY <2>3, ShutdownAssumption, FS_Subset, FS_CardinalityType
  <2>5. stragglers' \in [Operators -> Nat \cup {NotStarted}]
    BY <1>8, <2>4 DEF Drained, TypeOK
  <2>6. waited' \in [Operators -> 0 .. GracefulTimeout + DrainTimeout]
    BY <1>0, <1>8 DEF Drained, TypeOK
  <2> QED
    BY <1>0, <1>8, <2>2, <2>5, <2>6 DEF Drained, TypeOK, shared
<1>9. ASSUME NEW o \in Operators, ResetFlag(o) PROVE TypeOK'
  <2>1. PICK s \in OperatorSteps : Goto(o, s)
    BY <1>9 DEF ResetFlag, OperatorSteps, ResetSteps
  <2>2. /\ pc' \in [Threads -> WorkerSteps \cup OperatorSteps]
        /\ \A v \in Workers : pc'[v] \in WorkerSteps
        /\ \A v \in Operators : pc'[v] \in OperatorSteps
        /\ overlapped' \in BOOLEAN
    BY <1>0, <2>1, GotoType
  <2> QED
    BY <1>0, <1>9, <2>2 DEF ResetFlag, TypeOK, shared
<1>10. ASSUME NEW o \in Operators, ResetCount(o) PROVE TypeOK'
  <2>1. PICK s \in OperatorSteps : Goto(o, s)
    BY <1>10 DEF ResetCount, OperatorSteps, ResetSteps
  <2>2. /\ pc' \in [Threads -> WorkerSteps \cup OperatorSteps]
        /\ \A v \in Workers : pc'[v] \in WorkerSteps
        /\ \A v \in Operators : pc'[v] \in OperatorSteps
        /\ overlapped' \in BOOLEAN
    BY <1>0, <2>1, GotoType
  <2> QED
    BY <1>0, <1>10, <2>2 DEF ResetCount, TypeOK, shared
<1>11. ASSUME NEW o \in Operators, ResetStart(o) PROVE TypeOK'
  <2>1. PICK s \in OperatorSteps : Goto(o, s)
    BY <1>11 DEF ResetStart, OperatorSteps, ResetSteps
  <2>2. /\ pc' \in [Threads -> WorkerSteps \cup OperatorSteps]
        /\ \A v \in Workers : pc'[v] \in WorkerSteps
        /\ \A v \in Operators : pc'[v] \in OperatorSteps
        /\ overlapped' \in BOOLEAN
    BY <1>0, <2>1, GotoType
  <2> QED
    BY <1>0, <1>11, <2>2 DEF ResetStart, TypeOK, shared
<1>12. CASE Tick
  <2>1. shutdown_start' \in {NotStarted} \cup 0 .. ForceTimeout
    BY <1>0, <1>12, LaterType DEF Tick, TypeOK
  <2>2. waited' \in [Operators -> 0 .. GracefulTimeout + DrainTimeout]
    BY <1>0, <1>12, LaterType DEF Tick, TypeOK
  <2>3. asked' \in 0 .. ForceTimeout
    BY <1>0, <1>12, LaterType DEF Tick, TypeOK
  <2> QED
    BY <1>12, <2>1, <2>2, <2>3 DEF Tick, TypeOK
<1>13. CASE UNCHANGED vars
  BY <1>13 DEF vars, history, shared, TypeOK
<1> QED
  BY <1>1, <1>2, <1>3, <1>4, <1>5, <1>6, <1>7, <1>8, <1>9, <1>10, <1>11, <1>12, <1>13
     DEF Next, Serve, Operate, Reset

(* The shutdown state stays within its types, for every number of threads   *)
(* (GracefulShutdown).                                                      *)
THEOREM TypeCorrect == Spec => []TypeOK
  BY TypeInit, TypeStep, PTL DEF Spec

-----------------------------------------------------------------------------
(***************************************************************************)
(* Sets of busy workers.                                                   *)
(***************************************************************************)
Busy == {"add", "serving", "subtract"}

LEMMA BusyWorkers ==
  ASSUME TypeOK, NEW S \in SUBSET Busy
  PROVE  /\ At(S) \subseteq Workers
         /\ IsFiniteSet(At(S))
         /\ Cardinality(At(S)) \in Nat
         /\ Cardinality(At(S)) < Modulus
<1>1. At(S) \subseteq Workers
  BY DEF TypeOK, At, Busy, Threads, OperatorSteps, ResetSteps
<1>2. IsFiniteSet(Workers)
  BY ShutdownAssumption
<1>3. IsFiniteSet(At(S)) /\ Cardinality(At(S)) <= Cardinality(Workers)
  BY <1>1, <1>2, FS_Subset
<1>4. Cardinality(At(S)) \in Nat /\ Cardinality(Workers) \in Nat
  BY <1>2, <1>3, FS_CardinalityType
<1> QED
  BY <1>1, <1>3, <1>4, ShutdownAssumption

(* What one thread's step does to the number of those that are at S.         *)
LEMMA Moves ==
  ASSUME TypeOK, NEW S \in SUBSET Busy, NEW t \in Threads, NEW s, Goto(t, s)
  PROVE  /\ (pc[t] \in S <=> s \in S) => At(S)' = At(S)
         /\ pc[t] \notin S /\ s \in S => Cardinality(At(S)') = Cardinality(At(S)) + 1
         /\ pc[t] \in S /\ s \notin S => Cardinality(At(S)') = Cardinality(At(S)) - 1
<1>1. pc' = [pc EXCEPT ![t] = s] /\ pc \in [Threads -> WorkerSteps \cup OperatorSteps]
  BY DEF Goto, TypeOK
<1>2. (pc[t] \in S <=> s \in S) => At(S)' = At(S)
  BY <1>1 DEF At
<1>3. ASSUME pc[t] \notin S, s \in S
      PROVE  Cardinality(At(S)') = Cardinality(At(S)) + 1
  <2>1. At(S)' = At(S) \cup {t} /\ t \notin At(S)
    BY <1>1, <1>3 DEF At
  <2> QED
    BY <2>1, BusyWorkers, FS_AddElement
<1>4. ASSUME pc[t] \in S, s \notin S
      PROVE  Cardinality(At(S)') = Cardinality(At(S)) - 1
  <2>1. At(S)' = At(S) \ {t} /\ t \in At(S)
    BY <1>1, <1>4 DEF At
  <2> QED
    BY <2>1, BusyWorkers, FS_RemoveElement
<1> QED
  BY <1>2, <1>3, <1>4

-----------------------------------------------------------------------------
(***************************************************************************)
(* Spec => []InFlightExact.  The count alone is not inductive: a reset     *)
(* stores zero, which is right only because nothing else is going on.      *)
(***************************************************************************)
ResetsAlone ==
  \A o \in Operators : pc[o] \in ResetSteps => \A t \in Threads \ {o} : pc[t] = "idle"

FlightInv == ~overlapped => ResetsAlone /\ InFlightExact

Serving == {"serving", "subtract"}

(* Overlap is remembered, and a step that makes none leaves resets alone.    *)
LEMMA NoOverlap ==
  ASSUME [Next]_vars, TypeOK, FlightInv, ~overlapped'
  PROVE  ~overlapped /\ ResetsAlone'
<1>1. CASE RecordOverlap
  BY <1>1 DEF RecordOverlap, ResetsAlone
<1>2. CASE UNCHANGED <<pc, overlapped>>
  BY <1>2 DEF FlightInv, ResetsAlone
<1> QED
  BY <1>1, <1>2 DEF Next, Serve, Operate, Reset, Tick, vars, history, Goto,
     CheckFlag, CountIn, EndRequest, CountOut, RequestShutdown, SetStart,
     WaitForDrain, Drained, ResetFlag, ResetCount, ResetStart

LEMMA FlightInit == Init => FlightInv
<1> SUFFICES ASSUME Init PROVE ResetsAlone /\ InFlightExact
  BY DEF FlightInv
<1>1. Cardinality(At({"serving", "subtract"})) = 0
  <2>1. At({"serving", "subtract"}) = {}
    BY DEF Init, At
  <2> QED
    BY <2>1, FS_EmptySet
<1> QED
  BY <1>1 DEF Init, ResetsAlone, InFlightExact, ResetSteps, Threads

LEMMA FlightStep == TypeOK /\ FlightInv /\ [Next]_vars => FlightInv'
<1> SUFFICES ASSUME TypeOK, FlightInv, [Next]_vars, ~overlapped'
             PROVE  in_flight_requests' = Cardinality(At(Serving)')
  BY NoOverlap DEF FlightInv, InFlightExact, Serving
<1>0. /\ ~overlapped /\ ResetsAlone
      /\ in_flight_requests = Cardinality(At(Serving))
  BY NoOverlap DEF FlightInv, InFlightExact, Serving
<1>1. /\ Workers \subseteq Threads /\ Operators \subseteq Threads
      /\ Serving \in SUBSET Busy
      /\ Cardinality(At(Serving)) \in Nat /\ Cardinality(At(Serving)) < Modulus
      /\ Modulus \in Nat
  BY BusyWorkers, ShutdownAssumption DEF Threads, Serving, Busy
<1>2. ASSUME NEW w \in Workers, CheckFlag(w)
      PROVE  in_flight_requests' = Cardinality(At(Serving)')
  BY <1>0, <1>1, <1>2, Moves DEF CheckFlag, shared, Serving
<1>3. ASSUME NEW w \in Workers, CountIn(w)
      PROVE  in_flight_requests' = Cardinality(At(Serving)')
  <2>1. Cardinality(At(Serving)') = Cardinality(At(Serving)) + 1
    BY <1>1, <1>3, Moves DEF CountIn, Serving
  <2>2. Cardinality(At(Serving)') < Modulus
    <3>1. TypeOK'
      BY TypeStep
    <3>2. At(Serving)' \subseteq Workers
      BY <3>1 DEF TypeOK, At, Serving, Threads, OperatorSteps, ResetSteps
    <3>3. /\ Cardinality(At(Serving)') <= Cardinality(Workers)
          /\ IsFiniteSet(At(Serving)')
      BY <3>2, ShutdownAssumption, FS_Subset
    <3>4. Cardinality(At(Serving)') \in Nat /\ Cardinality(Workers) \in Nat
      BY <3>3, ShutdownAssumption, FS_CardinalityType
    <3> QED
      BY <3>3, <3>4, ShutdownAssumption
  <2>3. in_flight_requests' = (Cardinality(At(Serving)) + 1) % Modulus
    BY <1>0, <1>3 DEF CountIn
  <2> QED
    BY <1>1, <2>1, <2>2, <2>3
<1>4. ASSUME NEW w \in Workers, EndRequest(w)
      PROVE  in_flight_requests' = Cardinality(At(Serving)')
  <2>1. Cardinality(At(Serving)) # 0
    <3>1. w \in At(Serving)
      BY <1>1, <1>4 DEF EndRequest, At, Serving
    <3> QED
      BY <1>1, <3>1, BusyWorkers, FS_EmptySet
  <2>2. Goto(w, "subtract")
    BY <1>0, <1>1, <1>4, <2>1 DEF EndRequest
  <2> QED
    BY <1>0, <1>1, <1>4, <2>2, Moves DEF EndRequest, shared, Serving
<1>5. ASSUME NEW w \in Workers, CountOut(w)
      PROVE  in_flight_requests' = Cardinality(At(Serving)')
  <2>1. Cardinality(At(Serving)') = Cardinality(At(Serving)) - 1
    BY <1>1, <1>5, Moves DEF CountOut, Serving
  <2>2. Cardinality(At(Serving)) # 0
    <3>1. w \in At(Serving)
      BY <1>1, <1>5 DEF CountOut, At, Serving
    <3> QED
      BY <1>1, <3>1, BusyWorkers, FS_EmptySet
  <2>3. in_flight_requests' = (Cardinality(At(Serving)) + (Modulus - 1)) % Modulus
    BY <1>0, <1>5 DEF CountOut
  <2>4. \A n \in 1 .. Modulus - 1 : (n + (Modulus - 1)) % Modulus = n - 1
    <3> SUFFICES ASSUME NEW n \in 1 .. Modulus - 1
                 PROVE  (n + (Modulus - 1)) % Modulus = n - 1
      OBVIOUS
    <3>1. n - 1 \in 0 .. Modulus - 1 /\ n + (Modulus - 1) = (n - 1) + Modulus
      BY <1>1
    <3>2. ((n - 1) + Modulus) % Modulus = n - 1
      BY <1>1, <3>1
    <3> QED
      BY <3>1, <3>2
  <2> QED
    BY <1>1, <2>1, <2>2, <2>3, <2>4
<1>6. ASSUME NEW o \in Operators, ResetCount(o)
      PROVE  in_flight_requests' = Cardinality(At(Serving)')
  <2>1. At(Serving)' = {}
    <3>1. \A t \in Threads \ {o} : pc'[t] = "idle"
      BY <1>0, <1>6 DEF ResetCount, ResetSteps, ResetsAlone, Goto, TypeOK
    <3>2. pc'[o] = "reset_start"
      BY <1>1, <1>6 DEF ResetCount, Goto, TypeOK
    <3> QED
      BY <3>1, <3>2 DEF At, Serving
  <2> QED
    BY <1>6, <2>1, FS_EmptySet DEF ResetCount
<1>7. ASSUME NEW o \in Operators,
             \/ RequestShutdown(o) \/ SetStart(o) \/ WaitForDrain(o)
             \/ Drained(o) \/ ResetFlag(o) \/ ResetStart(o)
      PROVE  in_flight_requests' = Cardinality(At(Serving)')
  <2>1. PICK s \in OperatorSteps : Goto(o, s)
    BY <1>7 DEF RequestShutdown, SetStart, WaitForDrain, Drained, ResetFlag,
                ResetStart, OperatorSteps, ResetSteps
  <2>2. pc[o] \notin Serving /\ s \notin Serving
    BY <2>1 DEF TypeOK, Serving, OperatorSteps, ResetSteps
  <2>3. At(Serving)' = At(Serving)
    BY <1>1, <2>1, <2>2, Moves
  <2>4. in_flight_requests' = in_flight_requests
    BY <1>7 DEF RequestShutdown, SetStart, WaitForDrain, Drained, ResetFlag,
                ResetStart, shared
  <2> QED
    BY <1>0, <2>3, <2>4
<1>8. CASE Tick
  BY <1>0, <1>8 DEF Tick, At
<1>9. CASE UNCHANGED vars
  BY <1>0, <1>9 DEF vars, shared, At
<1> QED
  BY <1>2, <1>3, <1>4, <1>5, <1>6, <1>7, <1>8, <1>9 DEF Next, Serve, Operate, Reset

(* The counter is the number of requests being served, so end_request never  *)
(* finds it zero and never wraps it, whatever the threads do, unless a reset *)
(* overlaps other operations (start_request, end_request).                   *)
THEOREM CountExact == Spec => []InFlightExact
<1>1. FlightInv => InFlightExact
  BY DEF FlightInv, InFlightExact
<1> QED
  BY <1>1, FlightInit, FlightStep, TypeCorrect, PTL DEF Spec

-----------------------------------------------------------------------------
(***************************************************************************)
(* Spec => []DrainedStaysQuiet.  Once the flag is set no worker becomes    *)
(* busy, so the bound of a drain holds for as long as the flag does.       *)
(***************************************************************************)
QuietInv ==
  ~overlapped =>
    \A o \in Operators : stragglers[o] # NotStarted =>
      shutdown_requested /\ Cardinality(At(Busy)) <= stragglers[o]

LEMMA QuietStep == TypeOK /\ FlightInv /\ QuietInv /\ [Next]_vars => QuietInv'
<1> SUFFICES ASSUME TypeOK, FlightInv, QuietInv, [Next]_vars, ~overlapped',
                    NEW p \in Operators, stragglers'[p] # NotStarted
             PROVE  shutdown_requested' /\ Cardinality(At(Busy)') <= stragglers'[p]
  BY DEF QuietInv
<1>0. /\ ~overlapped
      /\ in_flight_requests = Cardinality(At(Serving))
      /\ stragglers[p] # NotStarted =>
           shutdown_requested /\ Cardinality(At(Busy)) <= stragglers[p]
  BY NoOverlap DEF FlightInv, InFlightExact, QuietInv, Serving
<1>1. /\ Workers \subseteq Threads /\ Operators \subseteq Threads
      /\ Cardinality(At(Busy)) \in Nat
      /\ stragglers[p] \in Nat \cup {NotStarted}
  BY BusyWorkers DEF Threads, TypeOK
<1>2. ASSUME NEW w \in Workers, CheckFlag(w)
      PROVE  shutdown_requested' /\ Cardinality(At(Busy)') <= stragglers'[p]
  BY <1>0, <1>2 DEF CheckFlag
<1>3. ASSUME NEW w \in Workers, CountIn(w) \/ EndRequest(w) \/ CountOut(w)
      PROVE  shutdown_requested' /\ Cardinality(At(Busy)') <= stragglers'[p]
  <2>1. PICK s \in WorkerSteps : Goto(w, s)
    BY <1>3 DEF CountIn, EndRequest, CountOut, WorkerSteps
  <2>2. pc[w] \in Busy
    BY <1>3 DEF CountIn, EndRequest, CountOut, Busy
  <2>3. \/ Cardinality(At(Busy)') = Cardinality(At(Busy))
        \/ Cardinality(At(Busy)') = Cardinality(At(Busy)) - 1
    <3>1. CASE s \in Busy
      BY <1>1, <2>1, <2>2, <3>1, Moves
    <3>2. CASE s \notin Busy
      BY <1>1, <2>1, <2>2, <3>2, Moves
    <3> QED
      BY <3>1, <3>2
  <2>4. stragglers' = stragglers /\ shutdown_requested' = shutdown_requested
    BY <1>3 DEF CountIn, EndRequest, CountOut, shared
  <2> QED
    BY <1>0, <1>1, <2>3, <2>4
<1>4. ASSUME NEW o \in Operators, Operate(o), At(Busy)' = At(Busy)
      PROVE  shutdown_requested' /\ Cardinality(At(Busy)') <= stragglers'[p]
  <2>1. CASE RequestShutdown(o)
    BY <1>0, <1>4, <2>1 DEF RequestShutdown
  <2>2. CASE SetStart(o) \/ WaitForDrain(o) \/ ResetCount(o) \/ ResetStart(o)
    BY <1>0, <1>4, <2>2 DEF SetStart, WaitForDrain, ResetCount, ResetStart, shared
  <2>3. CASE ResetFlag(o)
    BY <1>0, <1>4, <2>3 DEF ResetFlag, shared
  <2>4. CASE Drained(o)
    <3>1. CASE stragglers' = stragglers
      BY <1>0, <1>4, <2>4, <3>1 DEF Drained, shared
    <3>2. CASE /\ in_flight_requests = 0
               /\ stragglers' = [stragglers EXCEPT ![o] =
                    IF shutdown_requested THEN Cardinality(At({"add"})) ELSE @]
      <4>1. At(Serving) = {}
        <5>1. IsFiniteSet(At(Serving))
          BY BusyWorkers DEF Serving, Busy
        <5> QED
          BY <1>0, <3>2, <5>1, FS_EmptySet
      <4>2. At(Busy) = At({"add"})
        BY <4>1 DEF At, Busy, Serving
      <4>3. shutdown_requested' = shutdown_requested
        BY <2>4 DEF Drained, shared
      <4>4. stragglers'[p] = IF p = o /\ shutdown_requested
                             THEN Cardinality(At({"add"})) ELSE stragglers[p]
        BY <3>2 DEF TypeOK
      <4> QED
        BY <1>0, <1>1, <1>4, <4>2, <4>3, <4>4
    <3> QED
      BY <2>4, <3>1, <3>2 DEF Drained
  <2> QED
    BY <1>4, <2>1, <2>2, <2>3, <2>4 DEF Operate, Reset
<1>5. ASSUME NEW o \in Operators, Operate(o)
      PROVE  At(Busy)' = At(Busy)
  <2>1. PICK s \in OperatorSteps : Goto(o, s)
    BY <1>5 DEF Operate, Reset, RequestShutdown, SetStart, WaitForDrain, Drained,
                ResetFlag, ResetCount, ResetStart, OperatorSteps, ResetSteps
  <2>2. pc[o] \notin Busy /\ s \notin Busy
    BY <2>1 DEF TypeOK, Busy, OperatorSteps, ResetSteps
  <2> QED
    BY <1>1, <2>1, <2>2, Moves
<1>6. CASE Tick
  BY <1>0, <1>6 DEF Tick, At
<1>7. CASE UNCHANGED vars
  BY <1>0, <1>7 DEF vars, shared, history, At
<1> QED
  BY <1>2, <1>3, <1>4, <1>5, <1>6, <1>7 DEF Next, Serve

(* After a drain the only requests still served or still beginning are those *)
(* that had passed the flag before it, for every number of threads, unless a *)
(* reset overlaps other operations (wait_for_drain, start_request).          *)
THEOREM DrainQuiet == Spec => []DrainedStaysQuiet
<1>1. Init => QuietInv
  BY DEF Init, QuietInv
<1>2. QuietInv => DrainedStaysQuiet
  BY DEF QuietInv, DrainedStaysQuiet, Busy
<1>3. Init => FlightInv
  BY FlightInit
<1> QED
  BY <1>1, <1>2, <1>3, QuietStep, FlightStep, TypeCorrect, PTL DEF Spec

-----------------------------------------------------------------------------
(***************************************************************************)
(* Spec => []GraceGiven.  The start time is never older than the request   *)
(* it belongs to: a reset clears it before the next request can be made.   *)
(***************************************************************************)
ClockInv ==
  ~overlapped =>
    /\ shutdown_requested /\ shutdown_start # NotStarted => shutdown_start <= asked
    /\ shutdown_start # NotStarted =>
         shutdown_requested \/ At({"reset_count", "reset_start"}) # {}
    /\ At({"set_start"}) # {} => shutdown_requested

LEMMA ClockStep == TypeOK /\ FlightInv /\ ClockInv /\ [Next]_vars => ClockInv'
<1> SUFFICES ASSUME TypeOK, FlightInv, ClockInv, [Next]_vars, ~overlapped'
             PROVE  ClockInv'
  BY DEF ClockInv
<1>0. /\ ~overlapped /\ ResetsAlone /\ ResetsAlone'
      /\ shutdown_requested /\ shutdown_start # NotStarted => shutdown_start <= asked
      /\ shutdown_start # NotStarted =>
           shutdown_requested \/ At({"reset_count", "reset_start"}) # {}
      /\ At({"set_start"}) # {} => shutdown_requested
  BY NoOverlap DEF FlightInv, ClockInv
<1>1. /\ Workers \subseteq Threads /\ Operators \subseteq Threads
      /\ Workers \cap Operators = {} /\ Threads = Workers \cup Operators
      /\ asked \in 0 .. ForceTimeout /\ ForceTimeout \in Nat
      /\ shutdown_start \in {NotStarted} \cup 0 .. ForceTimeout
  BY ShutdownAssumption DEF Threads, TypeOK
<1>2. ASSUME NEW w \in Workers, Serve(w) PROVE ClockInv'
  <2>1. PICK s \in WorkerSteps : Goto(w, s)
    BY <1>2 DEF Serve, CheckFlag, CountIn, EndRequest, CountOut, WorkerSteps
  <2>2. pc[w] \in WorkerSteps
    BY DEF TypeOK
  <2>3. /\ At({"reset_count", "reset_start"})' = At({"reset_count", "reset_start"})
        /\ At({"set_start"})' = At({"set_start"})
    BY <1>1, <2>1, <2>2 DEF At, Goto, TypeOK, WorkerSteps
  <2>4. UNCHANGED <<shutdown_requested, shutdown_start, asked>>
    BY <1>2 DEF Serve, CheckFlag, CountIn, EndRequest, CountOut, shared
  <2> QED
    BY <1>0, <2>3, <2>4 DEF ClockInv
<1>3. ASSUME NEW o \in Operators, RequestShutdown(o) PROVE ClockInv'
  <2>1. pc' = [pc EXCEPT ![o] = "set_start"] /\ pc \in [Threads -> WorkerSteps \cup OperatorSteps]
    BY <1>3 DEF RequestShutdown, Goto, TypeOK
  <2>2. shutdown_start # NotStarted => shutdown_requested
    <3> SUFFICES ASSUME NEW t \in Threads, pc[t] \in {"reset_count", "reset_start"}
                 PROVE  FALSE
      BY <1>0 DEF At
    <3>1. t \in Operators
      BY <1>1 DEF TypeOK, WorkerSteps
    <3>2. pc[o] = "idle" /\ o # t
      BY <1>3 DEF RequestShutdown
    <3>3. pc'[t] \in ResetSteps /\ pc'[o] = "set_start"
      BY <1>1, <2>1, <3>2 DEF ResetSteps
    <3> QED
      BY <1>0, <1>1, <3>1, <3>2, <3>3 DEF ResetsAlone
  <2> QED
    BY <1>0, <1>3, <2>2 DEF ClockInv, RequestShutdown
<1>4. ASSUME NEW o \in Operators, SetStart(o) PROVE ClockInv'
  <2>1. At({"set_start"}) # {}
    BY <1>1, <1>4 DEF SetStart, At
  <2>2. shutdown_start' = IF shutdown_start = NotStarted THEN 0 ELSE shutdown_start
    BY <1>4 DEF SetStart
  <2>3. shutdown_requested' /\ asked' = asked
    BY <1>0, <1>4, <2>1 DEF SetStart
  <2> QED
    BY <1>0, <1>1, <2>1, <2>2, <2>3 DEF ClockInv
<1>5. ASSUME NEW o \in Operators, WaitForDrain(o) \/ Drained(o) PROVE ClockInv'
  <2>1. PICK s \in {"idle", "wait"} : pc' = [pc EXCEPT ![o] = s]
    BY <1>5 DEF WaitForDrain, Drained, Goto
  <2>2. pc[o] \in {"idle", "wait"}
    BY <1>5 DEF WaitForDrain, Drained
  <2>3. /\ At({"reset_count", "reset_start"})' = At({"reset_count", "reset_start"})
        /\ At({"set_start"})' = At({"set_start"})
    BY <2>1, <2>2 DEF At, TypeOK
  <2>4. UNCHANGED <<shutdown_requested, shutdown_start, asked>>
    BY <1>5 DEF WaitForDrain, Drained, shared
  <2> QED
    BY <1>0, <2>3, <2>4 DEF ClockInv
<1>6. ASSUME NEW o \in Operators, ResetFlag(o) PROVE ClockInv'
  <2>1. CASE pc[o] = "idle"
    <3>1. pc' = [pc EXCEPT ![o] = "reset_flag"]
      BY <1>6, <2>1 DEF ResetFlag, Goto
    <3>2. /\ At({"reset_count", "reset_start"})' = At({"reset_count", "reset_start"})
          /\ At({"set_start"})' = At({"set_start"})
      BY <2>1, <3>1 DEF At, TypeOK
    <3>3. UNCHANGED <<shutdown_requested, shutdown_start, asked>>
      BY <1>6, <2>1 DEF ResetFlag, shared
    <3> QED
      BY <1>0, <3>2, <3>3 DEF ClockInv
  <2>2. CASE pc[o] = "reset_flag"
    <3>1. pc'[o] = "reset_count"
      BY <1>1, <1>6, <2>2 DEF ResetFlag, Goto, TypeOK
    <3>2. At({"set_start"})' = {} /\ o \in At({"reset_count", "reset_start"})'
      BY <1>0, <1>1, <3>1 DEF At, ResetsAlone, ResetSteps
    <3>3. shutdown_requested' = FALSE
      BY <1>6, <2>2 DEF ResetFlag
    <3> QED
      BY <3>2, <3>3 DEF ClockInv
  <2> QED
    BY <1>6, <2>1, <2>2 DEF ResetFlag
<1>7. ASSUME NEW o \in Operators, ResetCount(o) \/ ResetStart(o) PROVE ClockInv'
  <2>1. pc'[o] = (IF ResetCount(o) THEN "reset_start" ELSE "idle")
    BY <1>1, <1>7 DEF ResetCount, ResetStart, Goto, TypeOK
  <2>2. At({"set_start"})' \subseteq At({"set_start"})
    BY <1>1, <1>7 DEF At, ResetCount, ResetStart, Goto, TypeOK
  <2>3. shutdown_start' = NotStarted \/ o \in At({"reset_count", "reset_start"})'
    BY <1>1, <1>7, <2>1 DEF At, ResetCount, ResetStart
  <2>4. UNCHANGED <<shutdown_requested, asked>>
    BY <1>7 DEF ResetCount, ResetStart
  <2>5. shutdown_start' = NotStarted \/ shutdown_start' = shutdown_start
    BY <1>7 DEF ResetCount, ResetStart
  <2> QED
    BY <1>0, <2>2, <2>3, <2>4, <2>5 DEF ClockInv
<1>8. CASE Tick
  <2>1. /\ At({"reset_count", "reset_start"})' = At({"reset_count", "reset_start"})
        /\ At({"set_start"})' = At({"set_start"})
        /\ shutdown_requested' = shutdown_requested
    BY <1>8 DEF Tick, At
  <2>2. shutdown_start' # NotStarted => shutdown_start # NotStarted
    BY <1>8 DEF Tick
  <2>3. ASSUME shutdown_requested, shutdown_start # NotStarted
        PROVE  shutdown_start' <= asked'
    BY <1>0, <1>1, <1>8, <2>3 DEF Tick, Later
  <2> QED
    BY <1>0, <2>1, <2>2, <2>3 DEF ClockInv
<1>9. CASE UNCHANGED vars
  BY <1>0, <1>9 DEF vars, shared, history, At, ClockInv
<1> QED
  BY <1>2, <1>3, <1>4, <1>5, <1>6, <1>7, <1>8, <1>9 DEF Next, Operate, Reset

(* Requests in flight are cut off only by the force timeout of the current   *)
(* shutdown, for every choice of the timeouts, unless a reset overlaps other *)
(* operations (state, request_shutdown, reset).                              *)
THEOREM GraceKept == Spec => []GraceGiven
<1>1. Init => ClockInv
  BY DEF Init, ClockInv, At
<1>2. TypeOK /\ FlightInv /\ ClockInv => GraceGiven
  <2> SUFFICES ASSUME TypeOK, FlightInv, ClockInv, ~overlapped, State = "Terminated",
                      At(Serving) # {}
               PROVE  asked >= ForceTimeout
    BY DEF GraceGiven, Serving
  <2>1. in_flight_requests # 0
    <3>1. in_flight_requests = Cardinality(At(Serving))
      BY DEF FlightInv, InFlightExact, Serving
    <3>2. IsFiniteSet(At(Serving))
      BY BusyWorkers DEF Serving, Busy
    <3> QED
      BY <3>1, <3>2, FS_EmptySet
  <2>2. /\ shutdown_requested /\ shutdown_start # NotStarted
        /\ shutdown_start >= ForceTimeout
    BY <2>1 DEF State
  <2>3. shutdown_start <= asked
    BY <2>2 DEF ClockInv
  <2> QED
    BY <2>2, <2>3, ShutdownAssumption DEF TypeOK
<1> QED
  BY <1>1, <1>2, FlightInit, FlightStep, ClockStep, TypeCorrect, PTL DEF Spec
===============================================================================
