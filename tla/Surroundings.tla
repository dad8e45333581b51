------------------------------ MODULE Surroundings ------------------------------
(***************************************************************************)
(* Three parts of the program that share nothing with each other or with   *)
(* the router, and each of which has something that must eventually        *)
(* happen: the event publisher, the watcher of the configuration file and  *)
(* the backpressure monitor.  Each step of one commutes with each step of  *)
(* another, so every behaviour of all is found by letting any one of them  *)
(* run while the others rest.  No fair action of one that rests in its     *)
(* initial state is enabled.                                               *)
(***************************************************************************)
EXTENDS EventPublisher, ConfigWatcher, Backpressure

VARIABLE busy     \* which of them runs

surroundingsVars == <<busy, vars, watcherVars, monitorVars>>

SurroundingsInit ==
  /\ busy \in {"publisher", "watcher", "monitor"}
  /\ Init /\ WatcherInit /\ MonitorInit

\* One of them takes a step; the others do not.
SurroundingsNext ==
  /\ UNCHANGED busy
  /\ \/ busy = "publisher" /\ Next /\ UNCHANGED <<watcherVars, monitorVars>>
     \/ busy = "watcher" /\ WatcherNext /\ UNCHANGED <<vars, monitorVars>>
     \/ busy = "monitor" /\ MonitorNext /\ UNCHANGED <<vars, watcherVars>>

SurroundingsSpec ==
  /\ SurroundingsInit
  /\ [][SurroundingsNext]_surroundingsVars
  /\ Fairness /\ WatcherFairness /\ MonitorFairness
===============================================================================
