-------------------------- MODULE ConfigWatcherProofs --------------------------
(***************************************************************************)
(* Theorems about ConfigWatcher for every number of changes and restores.  *)
(***************************************************************************)
EXTENDS ConfigWatcher, TLAPS

(* The watcher, its channel and the file stay within their types, and        *)
(* nothing is known before it was there (WatcherTypeOK): no time, no         *)
(* contents.                                                                 *)
THEOREM TypeCorrect == WatcherSpec => []WatcherTypeOK
<1>1. WatcherInit => WatcherTypeOK
  <2>1. WatcherInit => unsent \in BOOLEAN
    BY Zenon DEF WatcherInit
  <2> QED
    BY <2>1 DEF WatcherInit, WatcherTypeOK, Building
<1>2. ASSUME WatcherTypeOK, [WatcherNext]_watcherVars PROVE WatcherTypeOK'
  <2> USE <1>2 DEF WatcherTypeOK, Building, editor, channel, watcher
  <2>1. CASE Write
    <3>1. PICK loads, writing \in BOOLEAN :
            file' = [ contents |-> file.contents + 1, loads |-> loads,
                      writing |-> writing, mtime |-> clock' ]
      BY <2>1 DEF Write
    <3>2. /\ clock' \in {clock, clock + 1}
          /\ UNCHANGED <<restores, events, watcher>>
          /\ unsent' \in BOOLEAN
          /\ latest' \in {latest, file.mtime}
      BY <2>1 DEF Write, Noticed, Later
    <3>3. clock' \in Nat /\ \A n \in 0 .. clock : n \in 0 .. clock'
      BY <3>2
    <3>4. file' \in [contents : Nat \ {0}, loads : BOOLEAN, writing : BOOLEAN, mtime : Nat]
      BY <3>1, <3>3
    <3>5. current_config' \in 0 .. file'.contents /\ file'.mtime \in 0 .. clock'
      BY <3>1, <3>2, <3>3
    <3>6. {last_modified', modified', latest'} \subseteq 0 .. clock'
      BY <3>2, <3>3
    <3> QED
      BY <3>2, <3>3, <3>4, <3>5, <3>6
  <2>2. CASE Restore
    <3>1. PICK t \in 0 .. clock :
            file' = [ contents |-> file.contents + 1, loads |-> TRUE,
                      writing |-> FALSE, mtime |-> t ]
      BY <2>2 DEF Restore
    <3>2. /\ restores' = restores + 1
          /\ UNCHANGED <<clock, events, watcher>>
          /\ unsent' \in BOOLEAN
          /\ latest' \in {latest, file.mtime}
      BY <2>2 DEF Restore, Noticed, Later
    <3>3. file' \in [contents : Nat \ {0}, loads : BOOLEAN, writing : BOOLEAN, mtime : Nat]
      BY <3>1
    <3>4. current_config' \in 0 .. file'.contents /\ file'.mtime \in 0 .. clock'
      BY <3>1, <3>2
    <3> QED
      BY <3>2, <3>3, <3>4
  <2>3. CASE Notify
    <3>1. unsent' \in BOOLEAN
      BY <2>3, Zenon DEF Notify
    <3> QED
      BY <2>3, <3>1 DEF Notify
  <2>4. CASE NewLoad \/ NewWatch \/ NewStat
    BY <2>4 DEF NewLoad, NewWatch, NewStat, Later
  <2>5. CASE TryReload \/ Reload \/ Stat
    BY <2>5 DEF TryReload, Reload, Stat
  <2>6. CASE Load
    BY <2>6 DEF Load
  <2>7. CASE UNCHANGED watcherVars
    BY <2>7 DEF watcherVars
  <2> QED
    BY <1>2, <2>1, <2>2, <2>3, <2>4, <2>5, <2>6, <2>7 DEF WatcherNext
<1> QED
  BY <1>1, <1>2, PTL DEF WatcherSpec

-----------------------------------------------------------------------------
(***************************************************************************)
(* WatcherSpec => []NothingMissed.  The time that is stored, and the one   *)
(* that a reload under way may store, is at most `latest', or not later    *)
(* than the file and (once stored) of its very contents.  So a fresh file  *)
(* that is not in use is later than last_modified, and as long as it can   *)
(* be loaded a look at it is under way or an event for it.                 *)
(***************************************************************************)
Pending == unsent \/ events > 0 \/ watcher_pc \in {"stat", "load"}

StoredInv ==
  /\ last_modified > latest =>
       current_config = file.contents /\ file.loads /\ last_modified <= file.mtime
  /\ watcher_pc = "load" /\ modified > latest => modified <= file.mtime

PendingInv == Fresh /\ file.loads /\ current_config # file.contents => Pending

WatchInv == WatcherTypeOK /\ StoredInv /\ PendingInv

\* What is stored was read before: a change makes its time one of `latest'.
LEMMA StoredStep == WatcherTypeOK /\ WatcherTypeOK' /\ StoredInv /\ [WatcherNext]_watcherVars => StoredInv'
<1> SUFFICES ASSUME WatcherTypeOK, WatcherTypeOK', StoredInv, [WatcherNext]_watcherVars PROVE StoredInv'
  OBVIOUS
<1> USE DEF StoredInv, editor, channel, watcher
<1>0. /\ {clock, file.mtime, last_modified, modified, latest} \subseteq Nat
      /\ {clock', file'.mtime, last_modified', modified', latest'} \subseteq Nat
      /\ file.mtime <= clock
  BY DEF WatcherTypeOK
<1>1. CASE Write
  <2>1. /\ file'.mtime = clock' /\ clock' >= clock
        /\ latest' >= latest
        /\ file.loads => latest' >= file.mtime
        /\ UNCHANGED <<watcher_pc, last_modified, modified>>
    BY <1>0, <1>1 DEF Write, Later
  <2> QED
    BY <1>0, <2>1
<1>2. CASE Restore
  <2>1. latest' >= latest /\ latest' >= file.mtime /\ UNCHANGED <<watcher_pc, last_modified, modified>>
    BY <1>0, <1>2 DEF Restore, Later
  <2> QED
    BY <1>0, <2>1
<1>3. CASE Notify
  BY <1>3 DEF Notify
<1>4. CASE NewLoad \/ NewWatch
  BY <1>4 DEF NewLoad, NewWatch, LoadsAndValidates
<1>5. CASE NewStat
  BY <1>0, <1>5 DEF NewStat, Later
<1>6. CASE TryReload \/ Reload
  BY <1>6 DEF TryReload, Reload
<1>7. CASE Stat
  BY <1>0, <1>7 DEF Stat
<1>8. CASE Load
  BY <1>0, <1>8 DEF Load, LoadsAndValidates
<1>9. CASE UNCHANGED watcherVars
  BY <1>9 DEF watcherVars
<1> QED
  BY <1>1, <1>2, <1>3, <1>4, <1>5, <1>6, <1>7, <1>8, <1>9 DEF WatcherNext

\* A file that is not fresh, or is in use, needs no look; a change brings one.
LEMMA PendingStep == WatchInv /\ WatcherTypeOK' /\ [WatcherNext]_watcherVars => PendingInv'
<1> SUFFICES ASSUME WatchInv, WatcherTypeOK', [WatcherNext]_watcherVars PROVE PendingInv'
  OBVIOUS
<1> USE DEF PendingInv, Pending, Fresh, Building, editor, channel, watcher
<1>0. /\ {file.mtime, last_modified, modified, latest, events} \subseteq Nat
      /\ events' \in Nat
      /\ StoredInv /\ PendingInv
  BY DEF WatchInv, WatcherTypeOK
<1>1. CASE Write \/ Restore
  <2>1. watcher_pc' \notin Building \cup {"failed"} => unsent'
    BY <1>1 DEF Write, Restore, Noticed
  <2> QED
    BY <2>1
<1>2. CASE Notify
  BY <1>0, <1>2 DEF Notify
<1>3. CASE NewLoad \/ NewWatch
  BY <1>3 DEF NewLoad, NewWatch
<1>4. CASE NewStat
  BY <1>0, <1>4 DEF NewStat, Later
<1>5. CASE TryReload \/ Reload
  BY <1>5 DEF TryReload, Reload
<1>6. CASE Stat
  BY <1>0, <1>6 DEF Stat, StoredInv
<1>7. CASE Load
  BY <1>0, <1>7 DEF Load, LoadsAndValidates
<1>8. CASE UNCHANGED watcherVars
  BY <1>0, <1>8 DEF watcherVars
<1> QED
  BY <1>1, <1>2, <1>3, <1>4, <1>5, <1>6, <1>7, <1>8 DEF WatcherNext

(* A change that gives the file a time later than all it had before is in    *)
(* use once everything has settled: neither unfinished contents - loaded or  *)
(* not - nor a change between the two halves of reload makes the watcher     *)
(* forget it.                                                                *)
THEOREM LaterWritesNoticed == WatcherSpec => []NothingMissed
<1>1. WatcherInit => StoredInv /\ PendingInv
  BY DEF WatcherInit, StoredInv, PendingInv, Fresh, Building
<1>2. WatcherTypeOK /\ PendingInv => NothingMissed
  BY DEF WatcherTypeOK, PendingInv, Pending, NothingMissed, Settled
<1>3. (WatcherTypeOK /\ WatcherTypeOK' /\ StoredInv /\ PendingInv) /\ [WatcherNext]_watcherVars => (StoredInv /\ PendingInv)'
  BY StoredStep, PendingStep DEF WatchInv
<1> QED
  BY <1>1, <1>2, <1>3, TypeCorrect, PTL DEF WatcherSpec
===============================================================================
