----------------------------- MODULE ConfigWatcher -----------------------------
(***************************************************************************)
(* ConfigWatcher (config/watcher.rs) and the file it watches.              *)
(*                                                                         *)
(* The watcher belongs to one thread (its channel end is not Sync), so     *)
(* what interleaves with it is the editor of the file and the thread that  *)
(* delivers change events.  Reading the modification time and reading the  *)
(* contents are separate steps, in new() and in reload() alike.            *)
(*                                                                         *)
(* The contents are numbered, each change giving new ones, and "load" if   *)
(* ConfigLoader parses them and ConfigValidator accepts them.  An editor   *)
(* that writes in place - fs::write, which ConfigLoader::save uses,        *)
(* truncates and then writes - goes through unfinished contents, and those *)
(* may load as well: a YAML file cut after a complete route is a shorter   *)
(* list of routes.  Consecutive changes, of one write or of two, may carry *)
(* the same modification time; restoring a backup keeps the backup's.      *)
(* Events for other files of the directory are not modelled: has_changes   *)
(* drops them.                                                             *)
(***************************************************************************)
EXTENDS Naturals

CONSTANTS MaxChanges, MaxRestores     \* bounds on what the editor does

VARIABLES
  file,            \* [contents, loads, writing, mtime]
  clock,           \* the latest modification time given so far
  restores,        \* number of backups restored
  unsent,          \* the notify thread has a change of the file to report
  events,          \* number of events in the channel
  watcher_pc,      \* the watcher's next step
  current_config,  \* number of the contents in use
  last_modified,
  modified,        \* reload's local variable
  latest           \* history: the latest modification time of earlier contents
                   \* that last_modified may stand for

editor == <<file, clock, restores>>
channel == <<unsent, events>>
watcher == <<watcher_pc, current_config, last_modified, modified>>
watcherVars == <<editor, channel, watcher, latest>>

Building == {"new_load", "new_watch", "new_stat"}

\* The file that is there when the watcher is built loads.
WatcherInit ==
  /\ file = [contents |-> 1, loads |-> TRUE, writing |-> FALSE, mtime |-> 0]
  /\ clock = 0
  /\ restores = 0
  /\ unsent = FALSE
  /\ events = 0
  /\ watcher_pc = "new_load"
  /\ current_config = 0
  /\ last_modified = 0
  /\ modified = 0
  /\ latest = 0

-----------------------------------------------------------------------------
\* A change is noticed once the directory is watched.
Noticed == unsent' = (unsent \/ watcher_pc \notin {"new_load", "new_watch", "failed"})

\* The times of contents that loaded, or that may have been read around a
\* change, are those a new file has to be later than.
Later(time) == latest' = IF time > latest THEN time ELSE latest

\* A step of a write in place; the write is over, or more is to come.
Write ==
  /\ file.contents < MaxChanges
  /\ clock' \in {clock, clock + 1}
  /\ \E loads, writing \in BOOLEAN :
       file' = [ contents |-> file.contents + 1, loads |-> loads,
                 writing |-> writing, mtime |-> clock' ]
  /\ IF file.loads THEN Later(file.mtime) ELSE UNCHANGED latest
  /\ Noticed
  /\ UNCHANGED <<restores, events, watcher>>

\* A valid file prepared earlier is moved into place with its old time.
Restore ==
  /\ ~file.writing
  /\ file.contents < MaxChanges
  /\ restores < MaxRestores
  /\ restores' = restores + 1
  /\ \E t \in 0 .. clock :
       file' = [contents |-> file.contents + 1, loads |-> TRUE, writing |-> FALSE, mtime |-> t]
  /\ Later(file.mtime)
  /\ Noticed
  /\ UNCHANGED <<clock, events, watcher>>

\* The notify thread sends an event for the changes so far.
Notify ==
  /\ unsent
  /\ unsent' = FALSE
  /\ events' = events + 1
  /\ UNCHANGED <<editor, watcher, latest>>

-----------------------------------------------------------------------------
\* ConfigLoader::load followed by ConfigValidator::validate.
LoadsAndValidates == file.loads

\* new(): load and validate, then watch the directory, then stat the file.
NewLoad ==
  /\ watcher_pc = "new_load"
  /\ IF LoadsAndValidates
     THEN watcher_pc' = "new_watch" /\ current_config' = file.contents
     ELSE watcher_pc' = "failed" /\ UNCHANGED current_config
  /\ UNCHANGED <<editor, channel, last_modified, modified, latest>>

NewWatch ==
  /\ watcher_pc = "new_watch"
  /\ watcher_pc' = "new_stat"
  /\ UNCHANGED <<editor, channel, current_config, last_modified, modified, latest>>

NewStat ==
  /\ watcher_pc = "new_stat"
  /\ last_modified' = file.mtime
  /\ Later(file.mtime)
  /\ watcher_pc' = "idle"
  /\ UNCHANGED <<editor, channel, current_config, modified>>

\* try_reload: has_changes takes events off the channel up to a relevant one.
TryReload ==
  /\ watcher_pc = "idle"
  /\ events > 0
  /\ events' = events - 1
  /\ watcher_pc' = "stat"
  /\ UNCHANGED <<editor, unsent, current_config, last_modified, modified, latest>>

\* reload() called directly.
Reload ==
  /\ watcher_pc = "idle"
  /\ watcher_pc' = "stat"
  /\ UNCHANGED <<editor, channel, current_config, last_modified, modified, latest>>

\* reload: the metadata.  An unchanged or older file is not read at all.
Stat ==
  /\ watcher_pc = "stat"
  /\ modified' = file.mtime
  /\ watcher_pc' = IF file.mtime <= last_modified THEN "idle" ELSE "load"
  /\ UNCHANGED <<editor, channel, current_config, last_modified, latest>>

\* reload, after its 100 ms sleep: an error leaves everything as it was.
Load_MarksFirst ==             \* slip: the time is stored even if loading fails
  /\ watcher_pc = "load"
  /\ current_config' = IF LoadsAndValidates THEN file.contents ELSE current_config
  /\ last_modified' = modified
  /\ watcher_pc' = "idle"
  /\ UNCHANGED <<editor, channel, modified, latest>>

Load ==
  /\ watcher_pc = "load"
  /\ IF LoadsAndValidates
     THEN current_config' = file.contents /\ last_modified' = modified
     ELSE UNCHANGED <<current_config, last_modified>>
  /\ watcher_pc' = "idle"
  /\ UNCHANGED <<editor, channel, modified, latest>>

WatcherNext ==
  \/ Write \/ Restore
  \/ Notify
  \/ NewLoad \/ NewWatch \/ NewStat
  \/ TryReload \/ Reload \/ Stat \/ Load

\* Events are delivered, and the owner calls try_reload in a loop (README.md).
WatcherFairness ==
  /\ WF_watcherVars(Notify) /\ WF_watcherVars(TryReload)
  /\ WF_watcherVars(Stat) /\ WF_watcherVars(Load)

WatcherSpec == WatcherInit /\ [][WatcherNext]_watcherVars /\ WatcherFairness

-----------------------------------------------------------------------------
(* Type correctness: the numbers are natural, no modification time is      *)
(* known before it was given, and no contents before they were written.    *)
WatcherTypeOK ==
  /\ file \in [contents : Nat \ {0}, loads : BOOLEAN, writing : BOOLEAN, mtime : Nat]
  /\ {clock, restores, events} \subseteq Nat
  /\ unsent \in BOOLEAN
  /\ watcher_pc \in Building \cup {"failed", "idle", "stat", "load"}
  /\ current_config \in 0 .. file.contents
  /\ {file.mtime, last_modified, modified, latest} \subseteq 0 .. clock

(***************************************************************************)
(* When nothing is left to do - no event under way, no reload going on -   *)
(* the configuration in use is the one in the file, provided that can be   *)
(* loaded and its modification time tells it apart from what was read      *)
(* before: it is later than that of every earlier state of the file that   *)
(* loaded and of the file new() found (reload, has_changes).  Unfinished   *)
(* contents that load are put in use, and have to make way for the         *)
(* finished ones; those that do not load must not hide what follows, even  *)
(* with the same time.                                                     *)
(***************************************************************************)
Fresh == watcher_pc \notin Building \cup {"failed"} /\ file.mtime > latest

Settled == watcher_pc = "idle" /\ ~unsent /\ events = 0 /\ file.loads

NothingMissed == Settled /\ Fresh => current_config = file.contents

(***************************************************************************)
(* Polling try_reload catches up with the file once the editor is done.    *)
(***************************************************************************)
CatchesUp == <>[](Fresh /\ file.loads) => <>[](current_config = file.contents)

(***************************************************************************)
(* "Hot-reload capability with file change detection" (README.md): a       *)
(* change that is finished and gave the file a later time than it had at   *)
(* the start is not overlooked, whenever it was made.                      *)
(***************************************************************************)
ChangesDetected ==
  Settled /\ ~file.writing /\ file.mtime > 0 => current_config = file.contents
===============================================================================
