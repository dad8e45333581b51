-------------------------------- MODULE Readiness --------------------------------
(***************************************************************************)
(* ReadinessChecker (deployment/readiness.rs), shared by the threads that  *)
(* report on parts of the service and those that ask whether it is ready.  *)
(* A call that asks reads the clock, and then again or the probes, without *)
(* a lock around both.                                                     *)
(*                                                                         *)
(* Abstractions.  Messages and the times of the checks are left out, and   *)
(* so is reset_startup, which nobody can call while others use the         *)
(* checker.  state reads the clock twice before the probes; once over, the *)
(* grace period stays so, and the second reading makes no difference.      *)
(***************************************************************************)
EXTENDS Naturals

CONSTANTS
  Names, Threads,
  Grace,          \* startup_grace_period, in ticks
  MaxFailures     \* bound on consecutive_failures

VARIABLES
  age,            \* startup_time.elapsed(), as far as it matters
  probes,         \* self.probes: a function on the names registered
  doing,          \* per thread: "idle", or what its call does next
  reply,         \* per thread: that of its last call
  met             \* history, per thread: what was the case at some moment of its call

vars == <<age, probes, doing, reply, met>>

Init ==
  /\ age = 0
  /\ probes = [n \in {} |-> 0]
  /\ doing = [t \in Threads |-> "idle"]
  /\ reply = [t \in Threads |-> "none"]
  /\ met = [t \in Threads |-> {}]

-----------------------------------------------------------------------------
IsStarting == age < Grace

\* No probes at all are all ready.
AllReady_Some == \E n \in DOMAIN probes : probes[n].ready    \* slip: one that is ready is enough

AllReady == \A n \in DOMAIN probes : probes[n].ready

\* What a call may justify its answer with.
Facts == {IF IsStarting THEN "starting" ELSE "started",
          IF \A n \in DOMAIN probes : probes[n].ready THEN "all ready" ELSE "one not ready"}

Observe ==
  met' = [t \in Threads |-> IF doing'[t] = "idle" THEN {}
                            ELSE (IF doing[t] = "idle" THEN Facts ELSE met[t]) \cup Facts']

Report(new) == probes' = new /\ UNCHANGED <<age, doing, reply>> /\ Observe

\* register_probe; a probe that is known starts anew.
RegisterProbe(n) ==
  Report([m \in DOMAIN probes \cup {n} |->
            IF m = n THEN [ready |-> FALSE, consecutive_failures |-> 0] ELSE probes[m]])

SetReady(n) ==
  /\ n \in DOMAIN probes
  /\ Report([probes EXCEPT ![n] = [ready |-> TRUE, consecutive_failures |-> 0]])

SetNotReady(n) ==
  /\ n \in DOMAIN probes /\ probes[n].consecutive_failures < MaxFailures
  /\ Report([probes EXCEPT ![n] = [ready |-> FALSE, consecutive_failures |-> @.consecutive_failures + 1]])

ClearProbes == Report([n \in {} |-> 0])

\* is_ready and state, the first reading of the clock ...
Ask(t) ==
  /\ doing[t] = "idle"
  /\ \E call \in {"is_ready", "state"} :
       \/ /\ IsStarting /\ call = "state"
          /\ reply' = [reply EXCEPT ![t] = "Starting"]
          /\ UNCHANGED doing
       \/ /\ IsStarting /\ call = "is_ready"
          /\ doing' = [doing EXCEPT ![t] = "is_starting"]
          /\ UNCHANGED reply
       \/ /\ ~IsStarting
          /\ doing' = [doing EXCEPT ![t] = "probes"]
          /\ UNCHANGED reply
  /\ UNCHANGED <<age, probes>>
  /\ Observe

Answer(t, ready) ==
  /\ reply' = [reply EXCEPT ![t] = IF ready THEN "Ready" ELSE "NotReady"]
  /\ doing' = [doing EXCEPT ![t] = "idle"]
  /\ UNCHANGED <<age, probes>>
  /\ Observe

\* ... the second, of is_ready within the grace period ...
AnswerStarting(t) == doing[t] = "is_starting" /\ Answer(t, IsStarting)

\* ... or the probes.
AnswerProbes(t) == doing[t] = "probes" /\ Answer(t, AllReady)

Tick ==
  /\ age < Grace
  /\ age' = age + 1
  /\ UNCHANGED <<probes, doing, reply>>
  /\ Observe

Next ==
  \/ Tick \/ ClearProbes
  \/ \E n \in Names : RegisterProbe(n) \/ SetReady(n) \/ SetNotReady(n)
  \/ \E t \in Threads : Ask(t) \/ AnswerStarting(t) \/ AnswerProbes(t)

-----------------------------------------------------------------------------
(***************************************************************************)
(* An answer has a reason at some moment of the call.  Ready: the service  *)
(* was starting, or all probes were ready.  NotReady: a probe was not, or  *)
(* else the grace period ended between two readings of the clock, which    *)
(* is_ready takes for not ready although no probe says so (is_ready).  And *)
(* a probe that counts failures is not ready.                              *)
(***************************************************************************)
AnswersJustified ==
  [][ /\ \A t \in Threads : doing[t] # "idle" /\ doing'[t] = "idle" =>
           IF reply'[t] = "Ready" THEN met[t] \cap {"starting", "all ready"} # {}
           ELSE "one not ready" \in met[t] \/ {"starting", "started"} \subseteq met[t]
      /\ \A n \in DOMAIN probes' : probes'[n].consecutive_failures > 0 => ~probes'[n].ready ]_vars
===============================================================================
