--------------------------- MODULE NetworkSimulator ---------------------------
(***************************************************************************)
(* NetworkSimulator (chaos/network_simulator.rs), shared by the threads    *)
(* that set conditions and those that ask for them.  There is a mutex for  *)
(* the conditions of the targets and one for the global condition.         *)
(* get_condition and clear_all take the second inside the first;           *)
(* get_latency and should_drop release the first before they take the      *)
(* second.  Nobody keeps the second while it takes the first.              *)
(*                                                                         *)
(* Abstractions.  A profile is named by its condition, and the latency or  *)
(* loss it draws with a random number is that name.  simulate_partition    *)
(* and heal_partition are a SetCondition or a ClearCondition per target.   *)
(* get_all_conditions, which only lists, is left out.                      *)
(***************************************************************************)
EXTENDS Naturals

CONSTANTS
  Targets, Threads,
  Conditions,          \* those other than "Normal"
  MaxDuration          \* of a condition, in ticks

VARIABLES
  states,              \* self.states: a function on the targets it has
  global_condition,    \* self.global_condition: a set of at most one
  states_lock,         \* the thread that keeps the mutex of states between two steps, if any
  call,                \* per thread: "idle", or the call that has done its first step
  target,              \* per thread: the one it asks for
  said,                \* per thread: the answer of its last call
  truth,               \* history, per thread: the conditions its target had so far during its call
  globals              \* history, per thread: the global ones so far during its call

vars == <<states, global_condition, states_lock, call, target, said, truth, globals>>

Forever == MaxDuration + 1
Asks == {"get_condition", "get_latency"}     \* should_drop is as get_latency

Init ==
  /\ states = [t \in {} |-> 0]
  /\ global_condition = {}
  /\ states_lock = {}
  /\ call = [p \in Threads |-> "idle"]
  /\ target = [p \in Threads |-> CHOOSE t \in Targets : TRUE]
  /\ said = [p \in Threads |-> "Normal"]
  /\ truth = [p \in Threads |-> {}]
  /\ globals = [p \in Threads |-> {}]

-----------------------------------------------------------------------------
\* A target's own condition, expired or not, hides the global one.
Own(t) == IF states[t].left = 0 THEN "Normal" ELSE states[t].condition

Global == IF global_condition = {} THEN "Normal" ELSE CHOOSE c \in global_condition : TRUE

InForce(t) == IF t \in DOMAIN states THEN Own(t) ELSE Global

\* What the history variables see of a step.
Seen(old, p, now) ==
  IF call'[p] \notin Asks THEN {} ELSE (IF call[p] \in Asks THEN old ELSE {}) \cup {now}

Observe ==
  /\ truth' = [p \in Threads |-> Seen(truth[p], p, InForce(target[p])')]
  /\ globals' = [p \in Threads |-> Seen(globals[p], p, Global')]

\* set_condition, set_condition_with_duration.
SetCondition(t) ==
  /\ states_lock = {}
  /\ \E c \in Conditions, left \in 0 .. Forever :
       states' = [u \in DOMAIN states \cup {t} |->
                    IF u = t THEN [condition |-> c, left |-> left] ELSE states[u]]
  /\ UNCHANGED <<global_condition, states_lock, call, target, said>>
  /\ Observe

ClearCondition(t) ==
  /\ states_lock = {}
  /\ states' = [u \in DOMAIN states \ {t} |-> states[u]]
  /\ UNCHANGED <<global_condition, states_lock, call, target, said>>
  /\ Observe

\* set_global_condition, clear_global_condition.
SetGlobalCondition ==
  /\ \E c \in Conditions : global_condition' \in {{}, {c}}
  /\ UNCHANGED <<states, states_lock, call, target, said>>
  /\ Observe

\* clear_all, the first mutex ...
ClearAll(p) ==
  /\ call[p] = "idle" /\ states_lock = {}
  /\ states' = [t \in {} |-> 0]
  /\ states_lock' = {p}
  /\ call' = [call EXCEPT ![p] = "clear_all"]
  /\ UNCHANGED <<global_condition, target, said>>
  /\ Observe

\* ... and the second.
ClearAllGlobal(p) ==
  /\ call[p] = "clear_all"
  /\ global_condition' = {}
  /\ states_lock' = {}
  /\ call' = [call EXCEPT ![p] = "idle"]
  /\ UNCHANGED <<states, target, said>>
  /\ Observe

\* get_condition, get_latency and should_drop of a target with a condition of its own.
AnswerOwn(p) ==
  /\ call[p] = "idle" /\ states_lock = {}
  /\ \E t \in DOMAIN states : said' = [said EXCEPT ![p] = Own(t)]
  /\ UNCHANGED <<states, global_condition, states_lock, call, target>>
  /\ Observe

\* Of another target, the first mutex ...
Keeps_None(ask) == FALSE      \* slip: get_condition, too, releases the first mutex

Keeps(ask) == ask = "get_condition"

Ask(p) ==
  /\ call[p] = "idle" /\ states_lock = {}
  /\ \E t \in Targets \ DOMAIN states, ask \in Asks :
       /\ call' = [call EXCEPT ![p] = ask]
       /\ target' = [target EXCEPT ![p] = t]
       /\ states_lock' = IF Keeps(ask) THEN {p} ELSE {}
       /\ truth' = [truth EXCEPT ![p] = {InForce(t)}]
       /\ globals' = [globals EXCEPT ![p] = {Global}]
  /\ UNCHANGED <<states, global_condition, said>>

\* ... and the second.
AnswerGlobal(p) ==
  /\ call[p] \in Asks
  /\ said' = [said EXCEPT ![p] = Global]
  /\ states_lock' = states_lock \ {p}
  /\ call' = [call EXCEPT ![p] = "idle"]
  /\ UNCHANGED <<states, global_condition, target>>
  /\ Observe

Tick ==
  /\ states' = [t \in DOMAIN states |->
                  [states[t] EXCEPT !.left = IF @ \in {0, Forever} THEN @ ELSE @ - 1]]
  /\ UNCHANGED <<global_condition, states_lock, call, target, said>>
  /\ Observe

Next ==
  \/ Tick \/ SetGlobalCondition
  \/ \E t \in Targets : SetCondition(t) \/ ClearCondition(t)
  \/ \E p \in Threads :
       ClearAll(p) \/ ClearAllGlobal(p) \/ AnswerOwn(p) \/ Ask(p) \/ AnswerGlobal(p)

-----------------------------------------------------------------------------
(***************************************************************************)
(* get_condition tells a condition that its target had at some moment of   *)
(* the call, although it reads two places: it keeps the first locked.      *)
(* get_latency and should_drop do not, and may use the global profile for  *)
(* a target that was never under it; but it was the global one at some     *)
(* moment of the call.                                                     *)
(***************************************************************************)
ConditionCurrent ==
  [][ \A p \in Threads : call[p] \in Asks /\ call'[p] = "idle" =>
        said'[p] \in IF call[p] = "get_condition" THEN truth[p] ELSE globals[p] ]_vars
===============================================================================
