--------------------------- MODULE DistributedLock ---------------------------
(***************************************************************************)
(* DistributedLock (distributed/distributed_lock.rs): clients that compete *)
(* for one key of a Redis server.  A client sends a command and awaits the *)
(* reply; the server runs each command, scripts included, in one step, and *)
(* forgets the key when its time to live has passed.  A connection may     *)
(* break before the command arrives or before the reply does, and the      *)
(* client cannot tell which: the call fails with OperationFailed.  A       *)
(* command that has not arrived by then never does.                        *)
(*                                                                         *)
(* What the code leaves to its caller is modelled as the most it may rely  *)
(* on.  A client works under a lease: it may from the moment acquire says  *)
(* true, until the time to live it asked for, counted from when it sent    *)
(* the command, has passed, or it calls release.  While an extend is under *)
(* way, or has failed, it trusts the shorter of the two times only.        *)
(*                                                                         *)
(* Abstractions.  The token of a client stands for the client.  All clocks *)
(* run at one speed.  acquire_with_timeout is a series of acquires that    *)
(* ends with the first that succeeds or fails, or with its patience; and   *)
(* is_held only reads.                                                     *)
(***************************************************************************)
EXTENDS Naturals, FiniteSetsExt

CONSTANTS
  Clients,
  Ttl,               \* self.ttl, in ticks
  Additional         \* the additional_ttl that extend is called with

VARIABLES
  key,               \* of the server: the set of at most one [token, left]
  command,           \* per client: [op, ttl, promise, state] of its call under way
  lease              \* per client: the ticks it may still work

vars == <<key, command, lease>>

NoCommand == [op |-> "none", ttl |-> 0, promise |-> 0, state |-> "idle"]

Init ==
  /\ key = {}
  /\ command = [c \in Clients |-> NoCommand]
  /\ lease = [c \in Clients |-> 0]

-----------------------------------------------------------------------------
\* promise is what is left of the time asked for, counted from now.
Send(c, op, ttl) ==
  /\ command[c].state = "idle"
  /\ command' = [command EXCEPT ![c] = [op |-> op, ttl |-> ttl, promise |-> ttl, state |-> "sent"]]
  /\ UNCHANGED key

Acquire(c) == Send(c, "acquire", Ttl) /\ UNCHANGED lease

\* pexpire gets self.ttl + additional_ttl, whatever was left.
Extend(c) ==
  \E additional \in Additional :
    /\ Send(c, "extend", Ttl + additional)
    /\ lease' = [lease EXCEPT ![c] = Min({@, Ttl + additional})]

Release(c) == Send(c, "release", 0) /\ lease' = [lease EXCEPT ![c] = 0]

-----------------------------------------------------------------------------
\* The server: SET NX PX, and the scripts of release and extend.
Owned_Ignored(c) == key # {}      \* slip: whoever holds the key, it is deleted or extended

Owned(c) == \E k \in key : k.token = c

Execute(c) ==
  /\ command[c].state = "sent"
  /\ LET op == command[c].op
         ok == IF op = "acquire" THEN key = {} ELSE Owned(c)
     IN  /\ key' = CASE ~ok -> key
                     [] ok /\ op = "acquire" -> {[token |-> c, left |-> command[c].ttl]}
                     [] ok /\ op = "extend"  -> {[k EXCEPT !.left = command[c].ttl] : k \in key}
                     [] ok /\ op = "release" -> {}
         /\ command' = [command EXCEPT ![c].state = IF ok THEN "done" ELSE "refused"]
  /\ UNCHANGED lease

\* The reply arrives.
Reply(c) ==
  /\ command[c].state \in {"done", "refused"}
  /\ lease' = IF command[c].state = "done" /\ command[c].op # "release"
              THEN [lease EXCEPT ![c] = command[c].promise] ELSE lease
  /\ command' = [command EXCEPT ![c] = NoCommand]
  /\ UNCHANGED key

\* The connection breaks; get_connection may fail before anything is sent.
Fail(c) ==
  /\ command[c].state # "idle"
  /\ command' = [command EXCEPT ![c] = NoCommand]
  /\ UNCHANGED <<key, lease>>

Less(n) == IF n = 0 THEN 0 ELSE n - 1

Tick ==
  /\ key' = {[k EXCEPT !.left = Less(@)] : k \in {k \in key : k.left > 1}}
  /\ command' = [c \in Clients |-> [command[c] EXCEPT !.promise = Less(@)]]
  /\ lease' = [c \in Clients |-> Less(lease[c])]

Next ==
  \/ Tick
  \/ \E c \in Clients :
       Acquire(c) \/ Extend(c) \/ Release(c) \/ Execute(c) \/ Reply(c) \/ Fail(c)

-----------------------------------------------------------------------------
(***************************************************************************)
(* No two clients work under leases at a time, whatever is lost or late,   *)
(* and who works under one holds the key for at least as long: an expired  *)
(* holder that extends or releases does not touch its successor's lock     *)
(* (acquire, release, extend).                                             *)
(***************************************************************************)
LeasesDisjoint ==
  /\ \A c, d \in Clients : lease[c] > 0 /\ lease[d] > 0 => c = d
  /\ \A c \in Clients : lease[c] > 0 => \E k \in key : k.token = c /\ k.left >= lease[c]
===============================================================================
