------------------------------- MODULE StateSync -------------------------------
(***************************************************************************)
(* The circuit breaker state of a PSP as StateSync shares it               *)
(* (distributed/state_sync.rs).  publish_circuit_breaker_state publishes a *)
(* state to whoever listens and then stores it, with two commands of the   *)
(* client (distributed/redis_client.rs) on connections of their own; the   *)
(* connection may break before either.  max_retries is not used.           *)
(*                                                                         *)
(* Abstractions.  A state is its number in the order of publication.  The  *)
(* keys of different PSPs share nothing.                                   *)
(***************************************************************************)
EXTENDS Naturals, FiniteSetsExt

CONSTANTS
  Clients,
  MaxPublished     \* bound on the states published

VARIABLES
  published,       \* number of states published so far: the last one is what listeners know
  cb_state,        \* of the server: the set of at most one state stored
  storing,         \* per client: the set of at most one state published and not stored yet
  failed,          \* history: the states that were not stored
  overlapped       \* history: the states published, or not stored yet, while another was to be stored

vars == <<published, cb_state, storing, failed, overlapped>>

Init ==
  /\ published = 0 /\ cb_state = {}
  /\ storing = [c \in Clients |-> {}]
  /\ failed = {} /\ overlapped = {}

-----------------------------------------------------------------------------
Underway == UNION {storing[c] : c \in Clients}

\* publish_circuit_breaker_state, the first command; if it fails nothing has happened ...
Publish(c) ==
  /\ storing[c] = {} /\ published < MaxPublished
  /\ published' = published + 1
  /\ storing' = [storing EXCEPT ![c] = {published'}]
  /\ overlapped' = overlapped \cup (IF Underway = {} THEN {} ELSE Underway \cup {published'})
  /\ UNCHANGED <<cb_state, failed>>

\* ... and the second: RedisClient::set.
Kept_First(state) == IF cb_state = {} THEN {state} ELSE cb_state     \* slip: SET NX, as for a lock

Kept(state) == {state}

Store(c) ==
  /\ \E state \in storing[c] : cb_state' = Kept(state)
  /\ storing' = [storing EXCEPT ![c] = {}]
  /\ UNCHANGED <<published, failed, overlapped>>

Fail(c) ==
  /\ storing[c] # {}
  /\ failed' = failed \cup storing[c]
  /\ storing' = [storing EXCEPT ![c] = {}]
  /\ UNCHANGED <<published, cb_state, overlapped>>

Next == \E c \in Clients : Publish(c) \/ Store(c) \/ Fail(c)

-----------------------------------------------------------------------------
(***************************************************************************)
(* What get_circuit_breaker_state reads has been published; and once no    *)
(* publication is under way it is the state that was published last,       *)
(* unless that one failed to be stored or overlapped another, which may    *)
(* then have been stored after it (publish_circuit_breaker_state).         *)
(***************************************************************************)
StoreFollowsPublish ==
  /\ cb_state \subseteq 1 .. published
  /\ Underway = {} /\ published > 0 => cb_state = {published} \/ published \in failed \cup overlapped
===============================================================================
