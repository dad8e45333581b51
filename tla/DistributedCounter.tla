-------------------------- MODULE DistributedCounter --------------------------
(***************************************************************************)
(* DistributedCounter (distributed/distributed_counter.rs) and the volume  *)
(* of a PSP in StateSync (distributed/state_sync.rs), which is one with a  *)
(* time to live of an hour: clients that count in one key of a Redis       *)
(* server.  Each command is a step of the server; increment_by sends two,  *)
(* and the connection may break between them.  A call that fails before    *)
(* its first command has changed nothing and is no step.                   *)
(*                                                                         *)
(* Abstractions.  Of the values only the sign and the first few are kept.  *)
(***************************************************************************)
EXTENDS Integers, FiniteSetsExt

CONSTANTS
  Clients,
  Ttls,          \* the values of self.ttl.as_secs() to check, in sets: {} is None
  MaxValue       \* bound on the size of the value

VARIABLES
  ttl,           \* self.ttl; it never changes
  counter,       \* of the server: the set of at most one [value, left]; left = {} never ends
  expiring,      \* the clients between the two commands of increment_by
  excused        \* history: why the key may have no end, since it was made or last got one

vars == <<ttl, counter, expiring, excused>>

Init == ttl \in Ttls /\ counter = {} /\ expiring = {} /\ excused = {}

-----------------------------------------------------------------------------
\* INCRBY and DECRBY: a key that is not there counts as zero and is made without an end.
Value == IF counter = {} THEN 0 ELSE (CHOOSE k \in counter : TRUE).value

Added(n) ==
  {[value |-> Value + n, left |-> IF counter = {} THEN {} ELSE (CHOOSE k \in counter : TRUE).left]}

IncrementBy(c) ==
  /\ c \notin expiring
  /\ \E n \in {1, 2} : Value + n <= MaxValue /\ counter' = Added(n)
  /\ expiring' = expiring \cup (IF ttl = {} THEN {} ELSE {c})
  /\ UNCHANGED <<ttl, excused>>

\* EXPIRE: the end of a key that is there; at once, if the ttl is below a second.
Ending(t) == {[k EXCEPT !.left = {t}] : k \in {k \in counter : t > 0}}

Expire(c) ==
  /\ c \in expiring
  /\ \E t \in ttl : counter' = Ending(t)
  /\ expiring' = expiring \ {c}
  /\ excused' = {}
  /\ UNCHANGED ttl

\* The connection breaks: increment_by fails, but the counter has been incremented.
Fail(c) ==
  /\ c \in expiring
  /\ expiring' = expiring \ {c}
  /\ excused' = excused \cup (IF counter = {} THEN {} ELSE {"increment_by failed"})
  /\ UNCHANGED <<ttl, counter>>

DecrementBy ==
  /\ Value > 0 - MaxValue
  /\ counter' = Added(-1)
  /\ excused' = excused \cup (IF counter = {} THEN {"made by decrement_by"} ELSE {})
  /\ UNCHANGED <<ttl, expiring>>

\* set, set_psp_volume.  SETEX refuses a time of zero; SET takes the key's end away.
Stored_Forever(n) == {[value |-> n, left |-> {}]}     \* slip: set does not look at the ttl

Stored(n) == {[value |-> n, left |-> ttl]}

Assign ==
  /\ ttl # {0}
  /\ \E n \in {0, 1} : counter' = Stored(n)
  /\ excused' = {}
  /\ UNCHANGED <<ttl, expiring>>

Reset ==
  /\ counter' = {} /\ excused' = {}
  /\ UNCHANGED <<ttl, expiring>>

Tick ==
  /\ counter' = {[k EXCEPT !.left = {n - 1 : n \in @}] : k \in {k \in counter : k.left # {1}}}
  /\ excused' = IF counter' = {} THEN {} ELSE excused
  /\ UNCHANGED <<ttl, expiring>>

Next ==
  \/ Tick \/ DecrementBy \/ Assign \/ Reset
  \/ \E c \in Clients : IncrementBy(c) \/ Expire(c) \/ Fail(c)

-----------------------------------------------------------------------------
(***************************************************************************)
(* A counter with a time to live comes to an end, unless an increment is   *)
(* about to give it one, or the last ones failed half way, or a decrement  *)
(* made the key; one without a time to live never does; and an end is at   *)
(* most the ttl away (increment_by, decrement_by, set).                    *)
(***************************************************************************)
CountersExpire ==
  \A k \in counter :
    /\ k.left = {} /\ ttl # {} => expiring # {} \/ excused # {}
    /\ ttl = {} => k.left = {}
    /\ \A n \in k.left, t \in ttl : 0 < n /\ n <= t
===============================================================================
