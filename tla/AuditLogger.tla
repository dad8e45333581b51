------------------------------ MODULE AuditLogger ------------------------------
(***************************************************************************)
(* AuditLogger (security/audit_logger.rs), shared by the threads that act. *)
(* An entry is stamped when it is built and stored under the mutex of the  *)
(* log later, so entries of different threads can be stored in another     *)
(* order than they were stamped.                                           *)
(*                                                                         *)
(* Abstractions.  Of the details of an entry only one is kept: none, a     *)
(* harmless one, one under a sensitive key, or "[REDACTED]".  Actions,     *)
(* targets, addresses, request ids and retention_period, which nothing     *)
(* reads, are left out, and with them search and the export as JSON.       *)
(* A stamp counts the entries built, where the code has wall-clock         *)
(* milliseconds, which can repeat or be set back; an actor is the thread   *)
(* that acts, so the entries of "system", which                            *)
(* log_circuit_breaker_change makes for every thread, are not among those  *)
(* of one actor.                                                           *)
(***************************************************************************)
EXTENDS Naturals, SequencesExt, FiniteSets

CONSTANTS
  Threads,
  MaxEntries,     \* the values of config.max_entries to check
  MaxStamp        \* bound on the entries that are built

VARIABLES
  max_entries, mask_sensitive_data,   \* self.config; it never changes
  entries,        \* self.entries
  draft,          \* per thread: the entry it has built and not stored yet: at most one
  stamp,          \* the clock: counts the entries built
  logged          \* history: everything stored since the last clear

vars == <<max_entries, mask_sensitive_data, entries, draft, stamp, logged>>

Init ==
  /\ max_entries \in MaxEntries
  /\ mask_sensitive_data \in BOOLEAN
  /\ entries = <<>>
  /\ draft = [t \in Threads |-> {}]
  /\ stamp = 0
  /\ logged = <<>>

-----------------------------------------------------------------------------
\* What the helpers put into an entry: log_route_request, log_auth_attempt and
\* log_circuit_breaker_change nothing, log_route_success and _failure something
\* harmless; a client that calls log itself may put in anything.
Details == {"none", "plain", "secret"}

\* AuditEntry::new and the with_* that follow it.
Build(t) ==
  /\ draft[t] = {} /\ stamp < MaxStamp
  /\ stamp' = stamp + 1
  /\ \E d \in Details :
       draft' = [draft EXCEPT ![t] = {[timestamp |-> stamp', actor |-> t, detail |-> d]}]
  /\ UNCHANGED <<max_entries, mask_sensitive_data, entries, logged>>

\* mask_sensitive_fields.
Masked(entry) ==
  IF mask_sensitive_data /\ entry.detail = "secret" THEN [entry EXCEPT !.detail = "redacted"]
  ELSE entry

\* What log keeps of a full log.
Room == IF Len(entries) >= max_entries /\ entries # <<>> THEN Tail(entries) ELSE entries

Log(t) ==
  /\ \E e \in draft[t] :
       /\ entries' = Append(Room, Masked(e))
       /\ logged' = Append(logged, Masked(e))
  /\ draft' = [draft EXCEPT ![t] = {}]
  /\ UNCHANGED <<max_entries, mask_sensitive_data, stamp>>

Clear ==
  /\ entries' = <<>> /\ logged' = <<>>
  /\ UNCHANGED <<max_entries, mask_sensitive_data, draft, stamp>>

Next == Clear \/ \E t \in Threads : Build(t) \/ Log(t)

-----------------------------------------------------------------------------
\* get_entries, get_entries_by_actor, get_entries_by_action: the positions of the
\* newest entries that are wanted, no more than limit.
Query(wanted, limit) ==
  {i \in DOMAIN entries :
     /\ entries[i] \in wanted
     /\ Cardinality({j \in DOMAIN entries : j > i /\ entries[j] \in wanted}) < limit}

(***************************************************************************)
(* The log holds the newest max_entries of what was logged since the last  *)
(* clear (one, if max_entries is zero), none with a sensitive detail if    *)
(* those are masked; and what get_entries_by_actor returns of one thread   *)
(* goes back in time and leaves out only what is older, although the whole *)
(* log need not be in the order of its timestamps (log).                   *)
(***************************************************************************)
LogIsNewest ==
  /\ entries = SubSeq(logged, Len(logged) - Min({Len(logged), Max({max_entries, 1})}) + 1, Len(logged))
  /\ mask_sensitive_data => \A i \in DOMAIN entries : entries[i].detail # "secret"
  /\ \A t \in Threads, limit \in 0 .. Len(entries) :
       LET mine == {e \in ToSet(entries) : e.actor = t}
           found == Query(mine, limit)
       IN  \A i \in found, j \in DOMAIN entries :
             entries[j] \in mine /\ (j < i \/ j \notin found) =>
               entries[i].timestamp > entries[j].timestamp
===============================================================================
