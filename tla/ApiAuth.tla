-------------------------------- MODULE ApiAuth --------------------------------
(***************************************************************************)
(* ApiAuthenticator (security/api_auth.rs) with authentication enabled.    *)
(* authenticate keeps the keys locked while it checks the rate limit, so   *)
(* each call is one step.                                                  *)
(*                                                                         *)
(* Abstractions.  A limit is the key's own, or the default if it has none. *)
(* Of the expiry of a key only its order with the wall clock is kept, and  *)
(* the clock is not set back.  Instants are kept as ages.  A call that is  *)
(* refused before the rate limit changes nothing and is no step.           *)
(***************************************************************************)
EXTENDS Naturals, FiniteSetsExt

CONSTANTS
  Hashes,        \* of keys
  Limits,        \* rate limits of keys, the default one included
  Window         \* config.rate_limit_window, in ticks

VARIABLES
  keys,          \* self.keys: a function on the registered hashes
  rate_limits,   \* self.rate_limits: a function on the hashes checked so far
  recent,        \* history, per hash: at a, the requests admitted at most a ticks ago
  ceiling        \* history, per hash: the largest limit it was admitted under

vars == <<keys, rate_limits, recent, ceiling>>

Ages == 0 .. Window - 1

Init ==
  /\ keys = [h \in {} |-> 0]
  /\ rate_limits = [h \in {} |-> 0]
  /\ recent = [h \in Hashes |-> [a \in Ages |-> 0]]
  /\ ceiling = [h \in Hashes |-> 0]

-----------------------------------------------------------------------------
\* register_key; a hash that is known gets a new key, not revoked, and keeps its window.
RegisterKey(h) ==
  /\ \E limit \in Limits, expires \in BOOLEAN, route \in BOOLEAN :
       keys' = [k \in DOMAIN keys \cup {h} |->
                  IF k # h THEN keys[k]
                  ELSE [rate_limit |-> limit, expires |-> expires, expired |-> FALSE,
                        revoked |-> FALSE, may_route |-> route]]
  /\ UNCHANGED <<rate_limits, recent, ceiling>>

RevokeKey(h) ==
  /\ h \in DOMAIN keys
  /\ keys' = [keys EXCEPT ![h].revoked = TRUE]
  /\ UNCHANGED <<rate_limits, recent, ceiling>>

\* check_rate_limit: the entry of h, made or begun anew if it is time to.
Entry_NotRestarted(h) ==     \* slip: the count is reset and window_start is not
  IF h \notin DOMAIN rate_limits THEN [count |-> 0, age |-> 0]
  ELSE IF rate_limits[h].age >= Window THEN [rate_limits[h] EXCEPT !.count = 0]
  ELSE rate_limits[h]

Entry(h) ==
  IF h \notin DOMAIN rate_limits \/ rate_limits[h].age >= Window THEN [count |-> 0, age |-> 0]
  ELSE rate_limits[h]

Checked(h, entry) ==
  [k \in DOMAIN rate_limits \cup {h} |-> IF k = h THEN entry ELSE rate_limits[k]]

Valid(h) == h \in DOMAIN keys /\ ~keys[h].revoked /\ ~keys[h].expired

\* authenticate; authenticate_with_permission is the same, and looks at the
\* permissions only when the request has been counted.
Authenticate(h) ==
  /\ Valid(h)
  /\ IF Entry(h).count >= keys[h].rate_limit
     THEN /\ rate_limits' = Checked(h, Entry(h))
          /\ UNCHANGED <<recent, ceiling>>
     ELSE /\ rate_limits' = Checked(h, [Entry(h) EXCEPT !.count = @ + 1])
          /\ recent' = [recent EXCEPT ![h] = [a \in Ages |-> @[a] + 1]]
          /\ ceiling' = [ceiling EXCEPT ![h] = Max({@, keys[h].rate_limit})]
  /\ UNCHANGED keys

\* The wall clock passes expires_at; is_expired.
Expire(h) ==
  /\ h \in DOMAIN keys /\ keys[h].expires
  /\ keys' = [keys EXCEPT ![h].expired = TRUE]
  /\ UNCHANGED <<rate_limits, recent, ceiling>>

Tick ==
  /\ rate_limits' = [h \in DOMAIN rate_limits |->
                       [rate_limits[h] EXCEPT !.age = Min({@ + 1, Window})]]
  /\ recent' = [h \in Hashes |-> [a \in Ages |-> IF a = 0 THEN 0 ELSE recent[h][a - 1]]]
  /\ UNCHANGED <<keys, ceiling>>

Next ==
  \/ Tick
  \/ \E h \in Hashes : RegisterKey(h) \/ RevokeKey(h) \/ Authenticate(h) \/ Expire(h)

-----------------------------------------------------------------------------
(***************************************************************************)
(* However a key is used, revoked and registered anew, no interval as long *)
(* as the window admits more than twice its largest limit (windows are     *)
(* fixed, so the end of one and the start of the next may both be full);   *)
(* and nobody is refused for requests older than the window, since a       *)
(* window's count is of the requests admitted in it (check_rate_limit).    *)
(***************************************************************************)
RateLimitKept ==
  /\ \A h \in Hashes : recent[h][Window - 1] <= 2 * ceiling[h]
  /\ \A h \in DOMAIN rate_limits :
       LET e == rate_limits[h] IN e.age < Window => e.count = recent[h][e.age]
===============================================================================
