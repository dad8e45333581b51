----------------------------- MODULE ServicesProofs -----------------------------
(***************************************************************************)
(* Theorems about the parts around the router, for every value of their    *)
(* constants: the priority queue, the distributed lock, the shared breaker *)
(* state and the recovery verifier, where they run beside the others.      *)
(***************************************************************************)
EXTENDS Services, FiniteSetTheorems, TLAPS

(* A step of all the parts is one of a part or leaves that part alone.       *)
LEMMA OneStepsAtATime ==
  [ServicesNext]_servicesVars =>
    /\ [Lock!Next]_lockVars
    /\ [Sync!Next]_syncVars
    /\ [Verifier!Next]_verifierVars
    /\ [Count!Next]_countVars
    /\ [Topic!Next]_topicVars
    /\ [Auth!Next]_authVars
    /\ [Injector!Next]_injectorVars
    /\ [Simulator!Next]_simulatorVars
    /\ [Probing!Next]_probingVars
    /\ [Endpoint!Next]_components
    /\ [Next]_queueVars
BY DEF ServicesNext, Only, servicesVars

(* What a step may do to the queue, apart from enqueue: entries only leave,  *)
(* and the sequence number restarts only with an empty heap.                 *)
LEMMA OnlyEnqueueAdds ==
  ASSUME [Next]_vars, \A p \in Priorities : ~Enqueue(p)
  PROVE  /\ heap' \subseteq heap
         /\ arrived' = arrived
         /\ sequence' = sequence \/ (heap' = {} /\ sequence' = 0)
<1>1. CASE Dequeue
  BY <1>1 DEF Dequeue
<1>2. CASE TryDequeueBusy
  BY <1>2 DEF TryDequeueBusy
<1>3. CASE Clear
  BY <1>3 DEF Clear
<1>4. CASE Drain
  BY <1>4 DEF Drain
<1>5. CASE UNCHANGED vars
  BY <1>5 DEF vars
<1> QED
  BY <1>1, <1>2, <1>3, <1>4, <1>5 DEF Next

(***************************************************************************)
(* The invariant: as long as an item may still arrive the next sequence    *)
(* number is above all those in the heap.  It never exceeds the number of  *)
(* items so far, so it wraps only when the last one has arrived.           *)
(***************************************************************************)
Entry == [priority : Priorities, sequence : Nat, item : Nat]

ItemsOnce == \A a, b \in heap : a.item = b.item => a = b

HeapInv ==
  /\ heap \subseteq Entry
  /\ sequence \in Nat
  /\ arrived \in 0 .. MaxItems
  /\ \A a \in heap : a.item <= arrived
  /\ arrived < MaxItems =>
       /\ sequence <= arrived
       /\ \A a \in heap : a.sequence < sequence
  /\ ArrivalOrder /\ ItemsOnce
  /\ IsFiniteSet(heap)

LEMMA HeapBegins == Init => HeapInv
BY QueueAssumption, FS_EmptySet DEF Init, HeapInv, ArrivalOrder, ItemsOnce

LEMMA HeapStep == HeapInv /\ [Next]_vars => HeapInv'
<1> SUFFICES ASSUME HeapInv, [Next]_vars PROVE HeapInv'
  OBVIOUS
<1>0. MaxItems \in Nat /\ Modulus \in Nat \ {0} /\ MaxItems <= Modulus
  BY QueueAssumption
<1>1. ASSUME NEW p \in Priorities, Enqueue(p) PROVE HeapInv'
  <2> DEFINE e == [priority |-> p, sequence |-> sequence, item |-> arrived + 1]
  <2>1. /\ arrived < MaxItems
        /\ arrived' = arrived + 1
        /\ heap' = heap \cup {e}
        /\ sequence' = (sequence + 1) % Modulus
    BY <1>1 DEF Enqueue
  <2>2. /\ e \in Entry
        /\ e.sequence = sequence /\ e.item = arrived + 1
    BY <2>1 DEF HeapInv, Entry
  <2>3. /\ sequence <= arrived
        /\ \A a \in heap : a.sequence < sequence /\ a.item <= arrived
        /\ \A a \in heap : a.sequence \in Nat /\ a.item \in Nat
        /\ sequence \in Nat /\ arrived \in Nat
    BY <1>0, <2>1 DEF HeapInv, Entry
  <2> HIDE DEF e
  <2>4. sequence' \in Nat
    BY <1>0, <2>1, <2>3
  <2>5. ASSUME arrived' < MaxItems PROVE sequence' = sequence + 1
    BY <1>0, <2>1, <2>3, <2>5
  <2>6. \A a \in heap' : a.item <= arrived'
    BY <2>1, <2>2, <2>3
  <2>7. ASSUME arrived' < MaxItems
        PROVE  sequence' <= arrived' /\ \A a \in heap' : a.sequence < sequence'
    BY <2>1, <2>2, <2>3, <2>5, <2>7
  <2>8. ArrivalOrder'
    <3> SUFFICES ASSUME NEW a \in heap', NEW b \in heap', a.item < b.item
                 PROVE  a.sequence < b.sequence
      BY DEF ArrivalOrder
    <3>1. CASE a \in heap /\ b \in heap
      BY <3>1 DEF HeapInv, ArrivalOrder
    <3>2. CASE a \in heap /\ b = e
      BY <2>2, <2>3, <3>2
    <3>3. CASE a = e
      BY <2>1, <2>2, <2>3, <3>3
    <3> QED
      BY <2>1, <3>1, <3>2, <3>3
  <2>9. heap' \subseteq Entry /\ IsFiniteSet(heap')
    BY <2>1, <2>2, FS_AddElement DEF HeapInv
  <2>10. arrived' \in 0 .. MaxItems
    BY <1>0, <2>1, <2>3
  <2>11. ItemsOnce'
    BY <2>1, <2>2, <2>3 DEF HeapInv, ItemsOnce
  <2> QED
    BY <2>4, <2>6, <2>7, <2>8, <2>9, <2>10, <2>11 DEF HeapInv
<1>2. CASE \A p \in Priorities : ~Enqueue(p)
  <2>1. /\ heap' \subseteq heap
        /\ arrived' = arrived
        /\ sequence' = sequence \/ (heap' = {} /\ sequence' = 0)
    BY <1>2, OnlyEnqueueAdds
  <2>2. ArrivalOrder' /\ ItemsOnce' /\ IsFiniteSet(heap')
    BY <2>1, FS_Subset DEF HeapInv, ArrivalOrder, ItemsOnce
  <2> QED
    BY <1>0, <2>1, <2>2 DEF HeapInv
<1> QED
  BY <1>1, <1>2

(* Whatever mixture of enqueue, dequeue, drain and clear has gone before, the *)
(* sequence numbers in the heap are in the order of arrival: Ord, which       *)
(* compares them, never lets a later item of a priority overtake.             *)
THEOREM ArrivalOrderKept == Spec => []ArrivalOrder
<1>1. Init => HeapInv
  BY HeapBegins
<1>2. HeapInv => ArrivalOrder
  BY DEF HeapInv
<1> QED
  BY <1>1, <1>2, HeapStep, PTL DEF Spec

-----------------------------------------------------------------------------
(* Refinement: entries come and go with their items, and of one priority the *)
(* entry with the least sequence number is that of the oldest item.          *)
LaneMap == [p \in Priorities |-> Lane(p)]

LEMMA LaneItems ==
  /\ \A p \in Priorities : LaneMap[p] = Lane(p)
  /\ \A p \in Priorities : \A i : i \in Lane(p) <=> \E a \in heap : a.priority = p /\ a.item = i
  /\ \A p \in Priorities : \A i : i \in Lane(p)' <=> \E a \in heap' : a.priority = p /\ a.item = i
BY DEF LaneMap, Lane

LEMMA EnqueuePuts ==
  ASSUME HeapInv, NEW p \in Priorities, Enqueue(p)
  PROVE  Contract!Put(p)
<1>1. /\ arrived < MaxItems /\ arrived' = arrived + 1 /\ answer' = <<>>
      /\ heap' = heap \cup {[priority |-> p, sequence |-> sequence, item |-> arrived + 1]}
  BY DEF Enqueue
<1>2. Lane(p)' = Lane(p) \cup {arrived + 1}
  <2> DEFINE e == [priority |-> p, sequence |-> sequence, item |-> arrived + 1]
  <2>1. e.priority = p /\ e.item = arrived + 1 /\ heap' = heap \cup {e}
    BY <1>1
  <2> HIDE DEF e
  <2> QED
    BY <2>1, LaneItems
<1>3. \A q \in Priorities \ {p} : Lane(q)' = Lane(q)
  BY <1>1 DEF Lane
<1>4. LaneMap' = [LaneMap EXCEPT ![p] = LaneMap[p] \cup {arrived + 1}]
  BY <1>2, <1>3 DEF LaneMap
<1> QED
  BY <1>1, <1>4 DEF Contract!Put, LaneMap

LEMMA DequeueTakes ==
  ASSUME HeapInv, NEW a \in Tops, heap' = heap \ {a}, answer' = <<a.item>>, arrived' = arrived
  PROVE  Contract!Take
<1> DEFINE p == a.priority
<1>1. /\ a \in heap /\ a \in Entry /\ p \in Priorities /\ a.item \in Nat
      /\ \A b \in heap : b \in Entry /\ ~Before(b, a)
  BY DEF Tops, HeapInv, Entry
<1>2. ASSUME NEW b \in heap
      PROVE  b.priority <= p /\ (b.priority = p => a.sequence <= b.sequence)
  BY <1>1 DEF Before, Entry, Priorities
<1>3. a.item \in Lane(p)
  BY <1>1, LaneItems
<1>4. ASSUME NEW i \in Lane(p) PROVE a.item <= i
  <2>1. PICK b \in heap : b.priority = p /\ b.item = i
    BY <1>1, <1>4, LaneItems
  <2>2. a.sequence <= b.sequence /\ a.sequence \in Nat /\ b.sequence \in Nat /\ b.item \in Nat
    BY <1>1, <1>2, <2>1 DEF Entry
  <2>3. ~(b.item < a.item)
    BY <1>1, <2>2 DEF HeapInv, ArrivalOrder
  <2> QED
    BY <1>1, <2>1, <2>2, <2>3
<1>5. ASSUME NEW q \in Priorities, Lane(q) # {} PROVE q <= p
  <2>1. PICK b \in heap : b.priority = q
    BY <1>5, LaneItems
  <2> QED
    BY <1>2, <2>1
<1>6. Lane(p)' = Lane(p) \ {a.item}
  <2>1. \A b \in heap : b.item = a.item => b = a
    BY <1>1 DEF HeapInv, ItemsOnce
  <2> QED
    BY <1>1, <2>1 DEF Lane
<1>7. \A q \in Priorities \ {p} : Lane(q)' = Lane(q)
  BY DEF Lane
<1> HIDE DEF p
<1>8. LaneMap' = [LaneMap EXCEPT ![p] = LaneMap[p] \ {a.item}]
  BY <1>1, <1>6, <1>7 DEF LaneMap
<1>9. \A q \in Priorities : LaneMap[q] = Lane(q)
  BY LaneItems
<1>10. /\ p \in {q \in Priorities : LaneMap[q] # {}}
       /\ \A q \in {r \in Priorities : LaneMap[r] # {}} : q <= p
       /\ a.item \in LaneMap[p] /\ \A i \in LaneMap[p] : a.item <= i
  BY <1>1, <1>3, <1>4, <1>5, <1>9
<1> QED
  BY <1>8, <1>10 DEF Contract!Take, Contract!Waiting, LaneMap

LEMMA EmptyLanes ==
  /\ heap = {} => \A p \in Priorities : Lane(p) = {}
  /\ heap' = {} => LaneMap' = [p \in Priorities |-> {}]
BY DEF Lane, LaneMap

LEMMA DrainTakesAll ==
  ASSUME HeapInv, Drain
  PROVE  Contract!TakeAll
<1>1. PICK order \in [1 .. Cardinality(heap) -> heap] :
        /\ ToSet(order) = heap
        /\ \A i, j \in DOMAIN order : i < j => order[i] # order[j] /\ ~Before(order[j], order[i])
        /\ answer' = [i \in DOMAIN order |-> order[i].item]
  BY DEF Drain
<1>2. heap' = {} /\ arrived' = arrived
  BY DEF Drain
<1>3. \A a \in heap : a \in Entry /\ a.item \in Nat /\ a.priority \in Priorities
  BY DEF HeapInv, Entry
<1>4. DOMAIN answer' = DOMAIN order /\ \A i \in DOMAIN order : order[i] \in heap
  BY <1>1
<1>5. \A i \in DOMAIN order : answer'[i] = order[i].item
  BY <1>1
<1>6. ASSUME NEW i \in DOMAIN order, NEW j \in DOMAIN order, i < j
      PROVE  \E p, q \in Priorities : /\ answer'[i] \in LaneMap[p] /\ answer'[j] \in LaneMap[q]
                                      /\ p > q \/ (p = q /\ answer'[i] < answer'[j])
  <2> DEFINE a == order[i]
             b == order[j]
  <2>1. /\ a \in heap /\ b \in heap /\ a # b /\ ~Before(b, a)
        /\ a \in Entry /\ b \in Entry
    BY <1>1, <1>3, <1>4, <1>6
  <2> HIDE DEF a, b
  <2>2. a.item \in LaneMap[a.priority] /\ b.item \in LaneMap[b.priority]
    BY <1>3, <2>1, LaneItems
  <2>3. a.item # b.item
    BY <2>1 DEF HeapInv, ItemsOnce
  <2>4. b.item < a.item => b.sequence < a.sequence
    BY <2>1 DEF HeapInv, ArrivalOrder
  <2>5. a.priority > b.priority \/ (a.priority = b.priority /\ a.item < b.item)
    BY <2>1, <2>3, <2>4 DEF Before, Entry, Priorities
  <2>6. answer'[i] = a.item /\ answer'[j] = b.item
    BY <1>5 DEF a, b
  <2> QED
    BY <1>3, <2>1, <2>2, <2>5, <2>6
<1>7. ToSet(answer') = {a.item : a \in heap}
  BY <1>1, <1>4, <1>5 DEF ToSet
<1>8. UNION {LaneMap[p] : p \in Priorities} = {a.item : a \in heap}
  BY <1>3, LaneItems
<1>9. answer' \in Seq(Nat)
  <2>1. Cardinality(heap) \in Nat
    BY FS_CardinalityType DEF HeapInv
  <2> DEFINE n == Cardinality(heap)
  <2> HIDE DEF n
  <2>2. answer' = [i \in 1 .. n |-> order[i].item] /\ \A i \in 1 .. n : order[i].item \in Nat
    BY <1>1, <1>3, <1>4 DEF n
  <2> QED
    BY <2>1, <2>2 DEF n
<1> QED
  BY <1>2, <1>4, <1>6, <1>7, <1>8, <1>9, EmptyLanes
  DEF Contract!TakeAll, Contract!Sooner, Contract!ToSet, ToSet, LaneMap

LEMMA QueueStepMaps ==
  ASSUME HeapInv, [Next]_vars
  PROVE  [Contract!Next]_(Contract!laneVars)
<1>1. ASSUME NEW p \in Priorities, Enqueue(p) PROVE Contract!Next
  BY <1>1, EnqueuePuts DEF Contract!Next
<1>2. CASE Dequeue
  <2>1. CASE heap = {} /\ answer' = <<>> /\ UNCHANGED <<heap, sequence, arrived>>
    <3>1. LaneMap' = LaneMap /\ {p \in Priorities : LaneMap[p] # {}} = {}
      BY <2>1, EmptyLanes, LaneItems DEF LaneMap, Lane
    <3> QED
      BY <2>1, <3>1 DEF Contract!Next, Contract!TakeNothing, Contract!Waiting, LaneMap
  <2>2. ASSUME NEW a \in Tops, heap' = heap \ {a}, answer' = <<a.item>>,
               UNCHANGED <<sequence, arrived>>
        PROVE  Contract!Next
    BY <2>2, DequeueTakes DEF Contract!Next
  <2> QED
    BY <1>2, <2>1, <2>2 DEF Dequeue
<1>3. CASE TryDequeueBusy
  <2>1. LaneMap' = LaneMap
    BY <1>3 DEF TryDequeueBusy, LaneMap, Lane
  <2> QED
    BY <1>3, <2>1 DEF TryDequeueBusy, Contract!Next, Contract!Busy, LaneMap
<1>4. CASE Clear
  BY <1>4, EmptyLanes DEF Clear, Contract!Next, Contract!Drop, LaneMap
<1>5. CASE Drain
  BY <1>5, DrainTakesAll DEF Contract!Next
<1>6. CASE UNCHANGED vars
  <2>1. LaneMap' = LaneMap
    BY <1>6 DEF vars, LaneMap, Lane
  <2> QED
    BY <1>6, <2>1 DEF vars, Contract!laneVars, LaneMap
<1> QED
  BY <1>1, <1>2, <1>3, <1>4, <1>5, <1>6 DEF Next

(***************************************************************************)
(* The heap with its sequence numbers implements a first-in-first-out lane *)
(* per priority, the highest that is not empty first, for as many items as *)
(* the width of the sequence number counts (enqueue, dequeue, drain).      *)
(***************************************************************************)
THEOREM QueueImplementsContract == ServicesSpec => ImplementsContract
<1>1. ServicesInit => HeapInv
  BY HeapBegins DEF ServicesInit
<1>2. HeapInv /\ [ServicesNext]_servicesVars => HeapInv'
  BY OneStepsAtATime, HeapStep DEF queueVars, vars
<1>3. ServicesInit => Contract!Init
  BY EmptyLanes DEF ServicesInit, Init, Contract!Init, Lane
<1>4. HeapInv /\ [ServicesNext]_servicesVars => [Contract!Next]_(Contract!laneVars)
  BY OneStepsAtATime, QueueStepMaps DEF queueVars, vars
<1> QED
  BY <1>1, <1>2, <1>3, <1>4, PTL DEF ServicesSpec, ImplementsContract, Contract!Spec

-----------------------------------------------------------------------------
(* Every entry is of an item that has arrived and carries a sequence number  *)
(* of the width, wherever the number has wrapped or restarted (TypeOK).      *)
THEOREM TypeCorrect == Spec => []TypeOK
<1>0. MaxItems \in Nat /\ Modulus \in Nat \ {0} /\ MaxItems <= Modulus
  BY QueueAssumption
<1>1. Init => TypeOK
  BY <1>0 DEF Init, TypeOK
<1>2. TypeOK /\ [Next]_vars => TypeOK'
  <2> SUFFICES ASSUME TypeOK, [Next]_vars PROVE TypeOK'
    OBVIOUS
  <2>1. ASSUME NEW p \in Priorities, Enqueue(p) PROVE TypeOK'
    <3>1. /\ arrived \in Nat /\ arrived < MaxItems /\ arrived' = arrived + 1
          /\ heap' = heap \cup {[priority |-> p, sequence |-> sequence, item |-> arrived + 1]}
          /\ sequence \in 0 .. Modulus - 1 /\ sequence' = (sequence + 1) % Modulus
      BY <1>0, <2>1 DEF Enqueue, TypeOK
    <3>2. sequence' \in 0 .. Modulus - 1
      BY <1>0, <3>1
    <3>3. 1 .. arrived \subseteq 1 .. arrived' /\ arrived + 1 \in 1 .. arrived'
      BY <3>1
    <3>4. heap' \subseteq [priority : Priorities, sequence : 0 .. Modulus - 1, item : 1 .. arrived']
      BY <3>1, <3>3 DEF TypeOK
    <3>5. arrived' \in 0 .. MaxItems
      BY <1>0, <3>1
    <3> QED
      BY <3>2, <3>4, <3>5 DEF TypeOK
  <2>2. CASE \A p \in Priorities : ~Enqueue(p)
    BY <1>0, <2>2, OnlyEnqueueAdds DEF TypeOK
  <2> QED
    BY <2>1, <2>2
<1> QED
  BY <1>1, <1>2, PTL DEF Spec

-----------------------------------------------------------------------------
Commands ==
  [ op : {"none", "acquire", "extend", "release"}, ttl : Nat, promise : Nat,
    state : {"idle", "sent", "done", "refused"} ]

LockTypes ==
  /\ key \subseteq [token : Clients, left : Nat \ {0}]
  /\ command \in [Clients -> Commands]
  /\ lease \in [Clients -> Nat]

\* The key, if there is one, is that of c for at least n more ticks.
Covers(held, c, n) == \E k \in held : k.token = c /\ k.left >= n

(***************************************************************************)
(* The invariant.  A lease, and the one a reply on its way will grant, is  *)
(* covered by the key; a command on its way to the server asks for no less *)
(* than its client will trust in, and a client that releases has stopped   *)
(* to work before the server can give the key to somebody else.            *)
(***************************************************************************)
AtMostOneKey == \A j, k \in key : j = k

LeasesCovered == \A c \in Clients : lease[c] > 0 => Covers(key, c, lease[c])

RepliesCovered ==
  \A c \in Clients :
    command[c].state = "done" /\ command[c].op # "release" /\ command[c].promise > 0
      => Covers(key, c, command[c].promise)

CommandsAskEnough ==
  \A c \in Clients :
    /\ command[c].state = "sent" =>
         /\ command[c].op # "none"
         /\ command[c].promise <= command[c].ttl
         /\ command[c].op # "release" => command[c].ttl > 0
         /\ command[c].op = "extend" => lease[c] <= command[c].ttl
    /\ command[c].op = "release" => lease[c] = 0

LockInv == LockTypes /\ AtMostOneKey /\ LeasesCovered /\ RepliesCovered /\ CommandsAskEnough

-----------------------------------------------------------------------------
LEMMA MinOfTwo ==
  ASSUME NEW a \in Nat, NEW b \in Nat
  PROVE  Lock!Min({a, b}) \in Nat /\ Lock!Min({a, b}) <= a /\ Lock!Min({a, b}) <= b
<1>1. \E m \in {a, b} : \A n \in {a, b} : m <= n
  <2>1. CASE a <= b
    BY <2>1
  <2>2. CASE ~(a <= b)
    BY <2>2
  <2> QED
    BY <2>1, <2>2
<1>2. Lock!Min({a, b}) \in {a, b} /\ \A n \in {a, b} : Lock!Min({a, b}) <= n
  BY <1>1 DEF Lock!Min
<1> QED
  BY <1>2

(* What a client sends is a command that asks enough, and its lease only     *)
(* shrinks.                                                                  *)
LEMMA SendStep ==
  ASSUME LockInv, NEW c \in Clients, NEW op \in {"acquire", "extend", "release"}, NEW asked \in Nat,
         Lock!Send(c, op, asked), NEW left \in Nat, lease' = [lease EXCEPT ![c] = left],
         left <= lease[c],
         op # "release" => asked > 0,
         op = "extend" => left <= asked,
         op = "release" => left = 0
  PROVE  LockInv'
<1> DEFINE new == [op |-> op, ttl |-> asked, promise |-> asked, state |-> "sent"]
<1>1. /\ key' = key
      /\ command' = [command EXCEPT ![c] = new]
  BY DEF Lock!Send
<1>2. /\ new \in Commands
      /\ new.op = op /\ new.ttl = asked /\ new.promise = asked /\ new.state = "sent"
  BY DEF Commands
<1> HIDE DEF new
<1>3. /\ command'[c] = new
      /\ \A d \in Clients \ {c} : command'[d] = command[d] /\ lease'[d] = lease[d]
      /\ lease'[c] = left
  BY <1>1 DEF LockInv, LockTypes
<1>4. LockTypes'
  BY <1>1, <1>2 DEF LockInv, LockTypes
<1>5. AtMostOneKey'
  BY <1>1 DEF LockInv, AtMostOneKey
<1>6. LeasesCovered'
  <2> SUFFICES ASSUME NEW d \in Clients, lease'[d] > 0 PROVE Covers(key', d, lease'[d])
    BY DEF LeasesCovered
  <2>1. lease'[d] <= lease[d] /\ lease[d] \in Nat /\ lease'[d] \in Nat
    BY <1>3, <1>4 DEF LockInv, LockTypes
  <2>2. PICK k \in key : k.token = d /\ k.left >= lease[d]
    BY <2>1 DEF LockInv, LeasesCovered, Covers
  <2>3. k.left \in Nat
    BY DEF LockInv, LockTypes
  <2> QED
    BY <1>1, <2>1, <2>2, <2>3 DEF Covers
<1>7. RepliesCovered'
  BY <1>1, <1>2, <1>3 DEF LockInv, RepliesCovered, Covers
<1>8. CommandsAskEnough'
  BY <1>2, <1>3 DEF LockInv, CommandsAskEnough
<1> QED
  BY <1>4, <1>5, <1>6, <1>7, <1>8 DEF LockInv

(* The server.  Whoever gets or keeps the key had it, or nobody did.         *)
LEMMA ExecuteStep ==
  ASSUME LockInv, NEW c \in Clients, Lock!Execute(c)
  PROVE  LockInv'
<1> DEFINE op == command[c].op
           ok == IF op = "acquire" THEN key = {} ELSE Lock!Owned(c)
<1>1. /\ command[c] \in Commands /\ command[c].state = "sent"
      /\ op \in {"acquire", "extend", "release"}
      /\ command[c].ttl \in Nat /\ command[c].promise \in Nat
      /\ command[c].promise <= command[c].ttl
      /\ op # "release" => command[c].ttl > 0
      /\ op = "extend" => lease[c] <= command[c].ttl
      /\ op = "release" => lease[c] = 0
  BY DEF Lock!Execute, LockInv, LockTypes, Commands, CommandsAskEnough
<1>2. /\ lease' = lease
      /\ command' = [command EXCEPT ![c].state = IF ok THEN "done" ELSE "refused"]
  BY DEF Lock!Execute
<1>3. /\ command'[c].op = op /\ command'[c].ttl = command[c].ttl
      /\ command'[c].promise = command[c].promise
      /\ command'[c].state = IF ok THEN "done" ELSE "refused"
      /\ command'[c] \in Commands
      /\ \A d \in Clients \ {c} : command'[d] = command[d]
  BY <1>1, <1>2 DEF LockInv, LockTypes, Commands
<1>4. command' \in [Clients -> Commands] /\ lease' \in [Clients -> Nat]
  BY <1>2, <1>3 DEF LockInv, LockTypes
<1>5. CommandsAskEnough'
  BY <1>2, <1>3 DEF LockInv, CommandsAskEnough
<1>6. CASE ~ok
  <2>1. key' = key /\ command'[c].state = "refused"
    BY <1>3, <1>6 DEF Lock!Execute
  <2>2. LockTypes' /\ AtMostOneKey' /\ LeasesCovered'
    BY <1>2, <1>4, <2>1 DEF LockInv, LockTypes, AtMostOneKey, LeasesCovered, Covers
  <2>3. RepliesCovered'
    BY <1>3, <2>1 DEF LockInv, RepliesCovered, Covers
  <2> QED
    BY <1>5, <2>2, <2>3 DEF LockInv
\* Nobody but c works, or will after a reply, unless the server refuses.
<1>7. ASSUME ok, NEW d \in Clients \ {c}
      PROVE  ~\E k \in key : k.token = d
  BY <1>1, <1>7 DEF Lock!Owned, LockInv, AtMostOneKey
<1>8. ASSUME ok, NEW d \in Clients \ {c}
      PROVE  /\ ~(lease[d] > 0)
             /\ ~(command[d].state = "done" /\ command[d].op # "release" /\ command[d].promise > 0)
  BY <1>7, <1>8 DEF LockInv, LeasesCovered, RepliesCovered, Covers
<1>9. CASE ok /\ op = "release"
  <2>1. key' = {}
    BY <1>9 DEF Lock!Execute
  <2>2. LockTypes' /\ AtMostOneKey'
    BY <1>4, <2>1 DEF LockTypes, AtMostOneKey
  <2>3. LeasesCovered'
    BY <1>1, <1>2, <1>8, <1>9 DEF LeasesCovered, LockInv, LockTypes
  <2>4. RepliesCovered'
    BY <1>3, <1>8, <1>9 DEF RepliesCovered
  <2> QED
    BY <1>5, <2>2, <2>3, <2>4 DEF LockInv
<1>10. CASE ok /\ op # "release"
  <2>1. PICK n \in key' : n.token = c /\ n.left = command[c].ttl /\ key' = {n}
    <3>1. CASE op = "acquire"
      BY <1>10, <3>1 DEF Lock!Execute
    <3>2. CASE op = "extend"
      <4>1. PICK k \in key : k.token = c
        BY <1>10, <3>2 DEF Lock!Owned
      <4>2. key = {k} /\ k \in [token : Clients, left : Nat \ {0}]
        BY <4>1 DEF LockInv, AtMostOneKey, LockTypes
      <4>3. key' = {[k EXCEPT !.left = command[c].ttl]}
        BY <1>10, <3>2, <4>2 DEF Lock!Execute
      <4> QED
        BY <4>1, <4>2, <4>3
    <3> QED
      BY <1>1, <1>10, <3>1, <3>2
  <2>2. n \in [token : Clients, left : Nat \ {0}]
    <3>1. CASE op = "acquire"
      <4>1. key' = {[token |-> c, left |-> command[c].ttl]}
        BY <1>10, <3>1 DEF Lock!Execute
      <4> QED
        BY <1>1, <1>10, <2>1, <4>1
    <3>2. CASE op = "extend"
      <4>1. PICK k \in key : n = [k EXCEPT !.left = command[c].ttl]
        BY <1>10, <2>1, <3>2 DEF Lock!Execute
      <4>2. k \in [token : Clients, left : Nat \ {0}] /\ command[c].ttl \in Nat \ {0}
        BY <1>1, <1>10 DEF LockInv, LockTypes
      <4> QED
        BY <4>1, <4>2
    <3> QED
      BY <1>1, <1>10, <3>1, <3>2
  <2>3. LockTypes' /\ AtMostOneKey'
    BY <1>4, <2>1, <2>2 DEF LockTypes, AtMostOneKey
  \* An acquire that succeeds finds no key, so its client has no lease either.
  <2>4. lease[c] <= command[c].ttl
    <3>1. CASE op = "acquire"
      BY <1>1, <1>10, <3>1 DEF LockInv, LeasesCovered, Covers, LockTypes
    <3> QED
      BY <1>1, <1>10, <3>1
  <2>5. LeasesCovered'
    BY <1>2, <1>8, <1>10, <2>1, <2>4 DEF LeasesCovered, Covers
  <2>6. RepliesCovered'
    BY <1>1, <1>3, <1>8, <1>10, <2>1 DEF RepliesCovered, Covers
  <2> QED
    BY <1>5, <2>3, <2>5, <2>6 DEF LockInv
<1> QED
  BY <1>6, <1>9, <1>10

(* A call that returns, with what it was granted or without.                 *)
LEMMA ReturnStep ==
  ASSUME LockInv, NEW c \in Clients, Lock!Reply(c) \/ Lock!Fail(c)
  PROVE  LockInv'
<1>1. key' = key /\ command' = [command EXCEPT ![c] = Lock!NoCommand] /\ command[c].state # "idle"
  BY DEF Lock!Reply, Lock!Fail
<1>2. Lock!NoCommand \in Commands /\ Lock!NoCommand.state = "idle" /\ Lock!NoCommand.op = "none"
  BY DEF Lock!NoCommand, Commands
<1>3. command'[c] = Lock!NoCommand /\ \A d \in Clients \ {c} : command'[d] = command[d]
  BY <1>1 DEF LockInv, LockTypes
<1>4. /\ lease' \in [Clients -> Nat]
      /\ \A d \in Clients \ {c} : lease'[d] = lease[d]
      /\ \/ lease' = lease
         \/ /\ command[c].state = "done" /\ command[c].op # "release"
            /\ lease'[c] = command[c].promise
  <2>1. command[c].promise \in Nat
    BY DEF LockInv, LockTypes, Commands
  <2> QED
    BY <2>1 DEF Lock!Reply, Lock!Fail, LockInv, LockTypes
<1>5. LockTypes' /\ AtMostOneKey'
  BY <1>1, <1>2, <1>4 DEF LockInv, LockTypes, AtMostOneKey
<1>6. LeasesCovered'
  BY <1>1, <1>4 DEF LockInv, LeasesCovered, RepliesCovered, Covers
<1>7. RepliesCovered'
  BY <1>1, <1>2, <1>3 DEF LockInv, RepliesCovered, Covers
<1>8. CommandsAskEnough'
  BY <1>2, <1>3, <1>4 DEF LockInv, CommandsAskEnough
<1> QED
  BY <1>5, <1>6, <1>7, <1>8 DEF LockInv

(* Time passes for the key, the leases and the promises alike.               *)
LEMMA LockTickStep ==
  ASSUME LockInv, Lock!Tick
  PROVE  LockInv'
<1>1. \A n \in Nat : Lock!Less(n) \in Nat /\ Lock!Less(n) <= n /\ (Lock!Less(n) > 0 => n > 1 /\ Lock!Less(n) = n - 1)
  BY DEF Lock!Less
<1>2. /\ key' = {[k EXCEPT !.left = Lock!Less(k.left)] : k \in {k \in key : k.left > 1}}
      /\ command' = [c \in Clients |-> [command[c] EXCEPT !.promise = Lock!Less(command[c].promise)]]
      /\ lease' = [c \in Clients |-> Lock!Less(lease[c])]
  BY DEF Lock!Tick
<1>3. \A k \in key : k \in [token : Clients, left : Nat \ {0}]
  BY DEF LockInv, LockTypes
<1>4. ASSUME NEW k \in key, k.left > 1
      PROVE  \E m \in key' : m.token = k.token /\ m.left = k.left - 1
  <2> DEFINE m == [k EXCEPT !.left = Lock!Less(k.left)]
  <2>1. m \in key'
    BY <1>2, <1>4
  <2>2. m.token = k.token /\ m.left = k.left - 1
    BY <1>3, <1>4 DEF Lock!Less
  <2> QED
    BY <2>1, <2>2
<1>5. ASSUME NEW c \in Clients
      PROVE  /\ command[c] \in Commands /\ command[c].promise \in Nat
             /\ command'[c] \in Commands
             /\ command'[c].op = command[c].op /\ command'[c].state = command[c].state
             /\ command'[c].ttl = command[c].ttl /\ command'[c].promise = Lock!Less(command[c].promise)
             /\ lease[c] \in Nat /\ lease'[c] = Lock!Less(lease[c])
  <2>1. command[c] \in Commands /\ lease[c] \in Nat
    BY DEF LockInv, LockTypes
  <2>2. command'[c] = [command[c] EXCEPT !.promise = Lock!Less(command[c].promise)]
    BY <1>2
  <2>3. Lock!Less(command[c].promise) \in Nat
    BY <1>1, <2>1 DEF Commands
  <2> QED
    BY <1>2, <2>1, <2>2, <2>3 DEF Commands
<1>6. LockTypes'
  <2>1. key' \subseteq [token : Clients, left : Nat \ {0}]
    <3> SUFFICES ASSUME NEW k \in key, k.left > 1
                 PROVE  [k EXCEPT !.left = Lock!Less(k.left)] \in [token : Clients, left : Nat \ {0}]
      BY <1>2
    <3> QED
      BY <1>3 DEF Lock!Less
  <2>2. command' \in [Clients -> Commands]
    BY <1>2, <1>5
  <2>3. lease' \in [Clients -> Nat]
    BY <1>1, <1>2, <1>5
  <2> QED
    BY <2>1, <2>2, <2>3 DEF LockTypes
<1>7. AtMostOneKey'
  BY <1>2 DEF LockInv, AtMostOneKey
<1>8. \A c \in Clients, n \in Nat :
        Lock!Less(n) > 0 /\ Covers(key, c, n) => Covers(key', c, Lock!Less(n))
  <2> SUFFICES ASSUME NEW c \in Clients, NEW n \in Nat, Lock!Less(n) > 0, Covers(key, c, n)
               PROVE  Covers(key', c, Lock!Less(n))
    OBVIOUS
  <2>1. PICK k \in key : k.token = c /\ k.left >= n
    BY DEF Covers
  <2>2. k.left \in Nat /\ k.left > 1 /\ Lock!Less(n) = n - 1
    BY <1>1, <1>3, <2>1
  <2> QED
    BY <1>4, <2>1, <2>2 DEF Covers
<1>9. LeasesCovered'
  <2> SUFFICES ASSUME NEW c \in Clients, lease'[c] > 0 PROVE Covers(key', c, lease'[c])
    BY DEF LeasesCovered
  <2>1. lease[c] \in Nat /\ lease'[c] = Lock!Less(lease[c]) /\ lease[c] > 0
    BY <1>1, <1>5
  <2>2. Covers(key, c, lease[c])
    BY <2>1 DEF LockInv, LeasesCovered
  <2>3. Covers(key', c, Lock!Less(lease[c]))
    BY <1>8, <2>1, <2>2
  <2> QED
    BY <2>1, <2>3 DEF Covers
<1>10. RepliesCovered'
  <2> SUFFICES ASSUME NEW c \in Clients, command'[c].state = "done",
                      command'[c].op # "release", command'[c].promise > 0
               PROVE  Covers(key', c, command'[c].promise)
    BY DEF RepliesCovered
  <2>1. /\ command[c].promise \in Nat /\ command'[c].promise = Lock!Less(command[c].promise)
        /\ command[c].promise > 0
    BY <1>1, <1>5
  <2>2. Covers(key, c, command[c].promise)
    BY <1>5, <2>1 DEF LockInv, RepliesCovered
  <2>3. Covers(key', c, Lock!Less(command[c].promise))
    BY <1>8, <2>1, <2>2
  <2> QED
    BY <2>1, <2>3 DEF Covers
<1>11. CommandsAskEnough'
  <2> SUFFICES ASSUME NEW c \in Clients
               PROVE  /\ command'[c].state = "sent" =>
                           /\ command'[c].op # "none"
                           /\ command'[c].promise <= command'[c].ttl
                           /\ command'[c].op # "release" => command'[c].ttl > 0
                           /\ command'[c].op = "extend" => lease'[c] <= command'[c].ttl
                      /\ command'[c].op = "release" => lease'[c] = 0
    BY DEF CommandsAskEnough
  <2>1. command[c].ttl \in Nat
    BY <1>5 DEF Commands
  <2>2. Lock!Less(0) = 0
    BY DEF Lock!Less
  <2> QED
    BY <1>1, <1>5, <2>1, <2>2 DEF LockInv, CommandsAskEnough
<1> QED
  BY <1>6, <1>7, <1>9, <1>10, <1>11 DEF LockInv

-----------------------------------------------------------------------------
LEMMA LockStep ==
  ASSUME Ttl \in Nat \ {0}, Additional \subseteq Nat, LockInv, [Lock!Next]_lockVars
  PROVE  LockInv'
<1>0. \A c \in Clients : lease[c] \in Nat
  BY DEF LockInv, LockTypes
<1>1. ASSUME NEW c \in Clients, Lock!Acquire(c) PROVE LockInv'
  <2>1. lease' = [lease EXCEPT ![c] = lease[c]]
    BY <1>1 DEF Lock!Acquire, LockInv, LockTypes
  <2>2. Lock!Send(c, "acquire", Ttl) /\ Ttl \in Nat /\ Ttl > 0
    BY <1>1 DEF Lock!Acquire
  <2>3. lease[c] \in Nat /\ lease[c] <= lease[c]
    BY <1>0
  <2> QED
    BY <2>1, <2>2, <2>3, SendStep
<1>2. ASSUME NEW c \in Clients, Lock!Extend(c) PROVE LockInv'
  <2>1. PICK a \in Additional :
          /\ Lock!Send(c, "extend", Ttl + a)
          /\ lease' = [lease EXCEPT ![c] = Lock!Min({lease[c], Ttl + a})]
    BY <1>2 DEF Lock!Extend
  <2>2. Ttl + a \in Nat /\ Ttl + a > 0
    OBVIOUS
  <2>3. /\ Lock!Min({lease[c], Ttl + a}) \in Nat
        /\ Lock!Min({lease[c], Ttl + a}) <= lease[c] /\ Lock!Min({lease[c], Ttl + a}) <= Ttl + a
    BY <1>0, <2>2, MinOfTwo
  <2> QED
    BY <2>1, <2>2, <2>3, SendStep
<1>3. ASSUME NEW c \in Clients, Lock!Release(c) PROVE LockInv'
  <2>1. Lock!Send(c, "release", 0) /\ lease' = [lease EXCEPT ![c] = 0]
    BY <1>3 DEF Lock!Release
  <2>2. 0 <= lease[c]
    BY <1>0
  <2> QED
    BY <2>1, <2>2, SendStep
<1>4. ASSUME NEW c \in Clients, Lock!Execute(c) PROVE LockInv'
  BY <1>4, ExecuteStep
<1>5. ASSUME NEW c \in Clients, Lock!Reply(c) \/ Lock!Fail(c) PROVE LockInv'
  BY <1>5, ReturnStep
<1>6. CASE Lock!Tick
  BY <1>6, LockTickStep
<1>7. CASE UNCHANGED lockVars
  BY <1>7 DEF lockVars, LockInv, LockTypes, AtMostOneKey, LeasesCovered, RepliesCovered, CommandsAskEnough, Covers
<1> QED
  BY <1>1, <1>2, <1>3, <1>4, <1>5, <1>6, <1>7 DEF Lock!Next

(***************************************************************************)
(* No two clients work under the distributed lock at a time, however many  *)
(* there are and whatever commands and replies are lost or late, as long   *)
(* as the clocks agree on how fast time passes (acquire, extend, release). *)
(***************************************************************************)
THEOREM OneLeaseHolder == ServicesSpec => []LeasesDisjoint
<1>1. ServicesInit => LockInv
  BY DEF ServicesInit, Lock!Init, LockInv, LockTypes, Commands, Lock!NoCommand, AtMostOneKey,
         LeasesCovered, RepliesCovered, CommandsAskEnough
<1>2. LockInv /\ [ServicesNext]_servicesVars => LockInv'
  BY OneStepsAtATime, LockStep, TimeAssumption
<1>3. LockInv => LeasesDisjoint
  BY DEF LockInv, LockTypes, AtMostOneKey, LeasesCovered, Covers, LeasesDisjoint, Lock!LeasesDisjoint
<1> QED
  BY <1>1, <1>2, <1>3, PTL DEF ServicesSpec

-----------------------------------------------------------------------------
SyncTypes ==
  /\ published \in Nat
  /\ cb_state \subseteq 1 .. published
  /\ storing \in [Clients -> SUBSET (1 .. published)]
  /\ \A c \in Clients : \A s, u \in storing[c] : s = u

(***************************************************************************)
(* The invariant.  An older state that is still to be stored was so when   *)
(* the last one was published, which is then among those that overlapped;  *)
(* so only a state that overlapped can be replaced by an older one.        *)
(***************************************************************************)
OlderOverlapped ==
  \A c \in Clients : \A s \in storing[c] : s # published => published \in overlapped

LastKnown ==
  published > 0 =>
    cb_state = {published} \/ published \in failed \cup overlapped \cup Sync!Underway

SyncInv == SyncTypes /\ OlderOverlapped /\ LastKnown

LEMMA SyncStep ==
  ASSUME SyncInv, [Sync!Next]_syncVars
  PROVE  SyncInv'
<1>1. ASSUME NEW c \in Clients, Sync!Publish(c) PROVE SyncInv'
  <2>1. /\ published \in Nat /\ published' = published + 1
        /\ storing' = [storing EXCEPT ![c] = {published'}]
        /\ cb_state' = cb_state /\ failed' = failed
        /\ overlapped' = overlapped \cup (IF Sync!Underway = {} THEN {} ELSE Sync!Underway \cup {published'})
    BY <1>1 DEF Sync!Publish, SyncInv, SyncTypes
  <2>2. 1 .. published \subseteq 1 .. published' /\ published' \in 1 .. published'
    BY <2>1
  <2>3. /\ storing'[c] = {published'}
        /\ \A d \in Clients \ {c} : storing'[d] = storing[d]
    BY <2>1 DEF SyncInv, SyncTypes
  <2>4. SyncTypes'
    <3>1. storing' \in [Clients -> SUBSET (1 .. published')]
      BY <2>1, <2>2 DEF SyncInv, SyncTypes
    <3>2. \A d \in Clients : \A s, u \in storing'[d] : s = u
      BY <2>3 DEF SyncInv, SyncTypes
    <3> QED
      BY <2>1, <2>2, <3>1, <3>2 DEF SyncInv, SyncTypes
  <2>5. OlderOverlapped'
    <3> SUFFICES ASSUME NEW d \in Clients, NEW s \in storing'[d], s # published'
                 PROVE  published' \in overlapped'
      BY DEF OlderOverlapped
    <3>1. s \in storing[d]
      BY <2>3
    <3>2. s \in Sync!Underway
      BY <3>1 DEF Sync!Underway
    <3> QED
      BY <2>1, <3>2
  <2>6. published' \in Sync!Underway'
    BY <2>3 DEF Sync!Underway
  <2> QED
    BY <2>4, <2>5, <2>6 DEF SyncInv, LastKnown
<1>2. ASSUME NEW c \in Clients, Sync!Store(c) PROVE SyncInv'
  <2>1. PICK state \in storing[c] : cb_state' = {state}
    BY <1>2 DEF Sync!Store, Sync!Kept
  <2>2. /\ storing' = [storing EXCEPT ![c] = {}]
        /\ published' = published /\ failed' = failed /\ overlapped' = overlapped
    BY <1>2 DEF Sync!Store
  <2>3. storing'[c] = {} /\ \A d \in Clients \ {c} : storing'[d] = storing[d]
    BY <2>2 DEF SyncInv, SyncTypes
  <2>4. SyncTypes'
    <3>1. storing' \in [Clients -> SUBSET (1 .. published')]
      BY <2>2 DEF SyncInv, SyncTypes
    <3>2. cb_state' \subseteq 1 .. published'
      BY <2>1, <2>2 DEF SyncInv, SyncTypes
    <3> QED
      BY <2>2, <2>3, <3>1, <3>2 DEF SyncInv, SyncTypes
  <2>5. OlderOverlapped'
    BY <2>2, <2>3 DEF SyncInv, OlderOverlapped
  <2>6. LastKnown'
    BY <2>1, <2>2 DEF SyncInv, OlderOverlapped, LastKnown
  <2> QED
    BY <2>4, <2>5, <2>6 DEF SyncInv
<1>3. ASSUME NEW c \in Clients, Sync!Fail(c) PROVE SyncInv'
  <2>1. /\ storing' = [storing EXCEPT ![c] = {}]
        /\ failed' = failed \cup storing[c]
        /\ published' = published /\ cb_state' = cb_state /\ overlapped' = overlapped
    BY <1>3 DEF Sync!Fail
  <2>2. storing'[c] = {} /\ \A d \in Clients \ {c} : storing'[d] = storing[d]
    BY <2>1 DEF SyncInv, SyncTypes
  <2>3. SyncTypes'
    <3>1. storing' \in [Clients -> SUBSET (1 .. published')]
      BY <2>1 DEF SyncInv, SyncTypes
    <3> QED
      BY <2>1, <2>2, <3>1 DEF SyncInv, SyncTypes
  <2>4. OlderOverlapped'
    BY <2>1, <2>2 DEF SyncInv, OlderOverlapped
  <2>5. published \in Sync!Underway => published \in failed' \cup Sync!Underway'
    BY <2>1, <2>2 DEF Sync!Underway
  <2>6. LastKnown'
    BY <2>1, <2>5 DEF SyncInv, LastKnown
  <2> QED
    BY <2>3, <2>4, <2>6 DEF SyncInv
<1>4. CASE UNCHANGED syncVars
  BY <1>4 DEF syncVars, SyncInv, SyncTypes, OlderOverlapped, LastKnown, Sync!Underway
<1> QED
  BY <1>1, <1>2, <1>3, <1>4 DEF Sync!Next

(***************************************************************************)
(* Between publications the stored breaker state is the one announced      *)
(* last, unless that one could not be stored or was published while        *)
(* another was under way: the order of the two commands of an instance,    *)
(* and of those of different instances, does no other harm                 *)
(* (publish_circuit_breaker_state).                                        *)
(***************************************************************************)
THEOREM SharedStateTrusted == ServicesSpec => []StoreFollowsPublish
<1>1. ServicesInit => SyncInv
  BY DEF ServicesInit, Sync!Init, SyncInv, SyncTypes, OlderOverlapped, LastKnown
<1>2. SyncInv /\ [ServicesNext]_servicesVars => SyncInv'
  BY OneStepsAtATime, SyncStep
<1>3. SyncInv => StoreFollowsPublish
  BY DEF SyncInv, SyncTypes, LastKnown, StoreFollowsPublish, Sync!StoreFollowsPublish
<1> QED
  BY <1>1, <1>2, <1>3, PTL DEF ServicesSpec

-----------------------------------------------------------------------------
Metrics ==
  [ begun : BOOLEAN, age : Nat, result : Verifier!RecoveryResult,
    failing : [requests : Nat, successful : Nat], recovering : [requests : Nat, successful : Nat] ]

VerifierTypes ==
  /\ DOMAIN recovery \subseteq Targets
  /\ recovery \in [DOMAIN recovery -> Metrics]
  /\ verdict \in [Targets -> Verifier!RecoveryResult \cup {"none"}]

Verdicts == {"Success", "PartialRecovery", "Failed"}

(***************************************************************************)
(* The invariant.  A verdict is kept as the result, which is what stops    *)
(* record_request from counting; and only the timeout makes a recovery     *)
(* fail.                                                                   *)
(***************************************************************************)
VerdictKept ==
  \A t \in Targets : verdict[t] \in Verdicts =>
    /\ t \in DOMAIN recovery
    /\ recovery[t].begun
    /\ recovery[t].result = verdict[t]
    /\ verdict[t] = "Failed" => recovery[t].age > Timeout

VerifierInv == VerifierTypes /\ VerdictKept /\ Verifier!VerdictStable

-----------------------------------------------------------------------------
(* What a step that leaves a recovery alone, or only lets it grow older or   *)
(* marks it with a result, makes verify_recovery say of it.                  *)
LEMMA VerdictAfter ==
  ASSUME Timeout \in Nat, VerifierTypes, VerifierTypes', threshold' = threshold,
         NEW t \in DOMAIN recovery, t \in DOMAIN recovery', recovery[t].begun,
         recovery'[t].begun = recovery[t].begun,
         recovery'[t].recovering = recovery[t].recovering,
         recovery'[t].age >= recovery[t].age
  PROVE  Verifier!Verdict(recovery[t])' =
           IF recovery'[t].age > Timeout THEN "Failed" ELSE Verifier!Verdict(recovery[t])
<1>1. recovery[t].age \in Nat /\ recovery'[t].age \in Nat
  BY DEF VerifierTypes, Metrics
<1>2. CASE recovery'[t].age > Timeout
  BY <1>1, <1>2 DEF Verifier!Verdict
<1>3. CASE ~(recovery'[t].age > Timeout)
  <2>1. ~(recovery[t].age > Timeout) /\ recovery[t].age <= Timeout /\ recovery'[t].age <= Timeout
    BY <1>1, <1>3
  <2> QED
    BY <1>3, <2>1 DEF Verifier!Verdict
<1> QED
  BY <1>2, <1>3

(* The same, of a verdict that stands.                                       *)
LEMMA Lasts ==
  ASSUME Timeout \in Nat, VerifierInv, VerifierTypes', threshold' = threshold,
         NEW t \in Targets, verdict'[t] = verdict[t], verdict[t] \in Verdicts,
         t \in DOMAIN recovery', recovery'[t].begun = recovery[t].begun,
         recovery'[t].recovering = recovery[t].recovering,
         recovery'[t].result = recovery[t].result,
         recovery'[t].age >= recovery[t].age
  PROVE  /\ recovery'[t].begun /\ recovery'[t].result = verdict'[t]
         /\ verdict'[t] = "Failed" => recovery'[t].age > Timeout
         /\ Verifier!Verdict(recovery[t])' = IF recovery'[t].age > Timeout THEN "Failed" ELSE verdict'[t]
<1>1. /\ t \in DOMAIN recovery /\ recovery[t].begun /\ recovery[t].result = verdict[t]
      /\ verdict[t] = "Failed" => recovery[t].age > Timeout
  BY DEF VerifierInv, VerdictKept
<1>2. recovery[t].age \in Nat /\ recovery'[t].age \in Nat
  BY <1>1 DEF VerifierInv, VerifierTypes, Metrics
<1>3. Verifier!Verdict(recovery[t]) = IF recovery[t].age > Timeout THEN "Failed" ELSE verdict[t]
  BY DEF VerifierInv, Verifier!VerdictStable, Verdicts
<1>4. Verifier!Verdict(recovery[t])' = IF recovery'[t].age > Timeout THEN "Failed" ELSE Verifier!Verdict(recovery[t])
  BY <1>1, VerdictAfter DEF VerifierInv
<1> QED
  BY <1>1, <1>2, <1>3, <1>4

(* So it is enough that a step forgets the verdict, or lets it stand.        *)
LEMMA VerifierStep ==
  ASSUME Timeout \in Nat, VerifierInv, VerifierTypes', threshold' = threshold,
         \A t \in Targets :
           verdict'[t] \in Verdicts =>
             /\ verdict'[t] = verdict[t] /\ t \in DOMAIN recovery'
             /\ recovery'[t].begun = recovery[t].begun
             /\ recovery'[t].recovering = recovery[t].recovering
             /\ recovery'[t].result = recovery[t].result
             /\ recovery'[t].age >= recovery[t].age
  PROVE  VerifierInv'
<1>1. ASSUME NEW t \in Targets, verdict'[t] \in Verdicts
      PROVE  /\ t \in DOMAIN recovery' /\ recovery'[t].begun /\ recovery'[t].result = verdict'[t]
             /\ verdict'[t] = "Failed" => recovery'[t].age > Timeout
             /\ Verifier!Verdict(recovery[t])' = IF recovery'[t].age > Timeout THEN "Failed" ELSE verdict'[t]
  BY <1>1, Lasts
<1>2. VerdictKept'
  BY <1>1 DEF VerdictKept
<1>3. Verifier!VerdictStable'
  BY <1>1 DEF Verifier!VerdictStable, Verdicts
<1> QED
  BY <1>2, <1>3 DEF VerifierInv

-----------------------------------------------------------------------------
LEMMA VerifyStep ==
  ASSUME Timeout \in Nat, VerifierInv, NEW t \in Targets, Verifier!VerifyRecovery(t)
  PROVE  VerifierInv'
<1> DEFINE now == Verifier!Verdict(recovery[t])
           kept == IF now \in {"NotStarted", "InProgress"} THEN recovery[t].result ELSE now
<1>1. /\ t \in DOMAIN recovery /\ threshold' = threshold
      /\ recovery' = [recovery EXCEPT ![t].result = kept]
      /\ verdict' = [verdict EXCEPT ![t] = now]
  BY DEF Verifier!VerifyRecovery
<1>2. now \in Verifier!RecoveryResult
  BY DEF Verifier!Verdict, Verifier!RecoveryResult
<1>3. recovery[t] \in Metrics /\ kept \in Verifier!RecoveryResult
  BY <1>1, <1>2 DEF VerifierInv, VerifierTypes, Metrics
<1>4. now \in Verdicts => recovery[t].begun /\ (now = "Failed" <=> recovery[t].age > Timeout)
  BY <1>3 DEF Verifier!Verdict, Verdicts, Metrics
<1> HIDE DEF now, kept
<1>5. /\ DOMAIN recovery' = DOMAIN recovery
      /\ recovery'[t] = [recovery[t] EXCEPT !.result = kept]
      /\ \A u \in DOMAIN recovery \ {t} : recovery'[u] = recovery[u]
      /\ verdict'[t] = now /\ \A u \in Targets \ {t} : verdict'[u] = verdict[u]
  BY <1>1 DEF VerifierInv, VerifierTypes
<1>6. /\ recovery'[t] \in Metrics /\ recovery'[t].result = kept
      /\ recovery'[t].begun = recovery[t].begun /\ recovery'[t].age = recovery[t].age
      /\ recovery'[t].recovering = recovery[t].recovering /\ recovery[t].age \in Nat
  BY <1>3, <1>5 DEF Metrics
<1>7. VerifierTypes'
  BY <1>1, <1>2, <1>5, <1>6 DEF VerifierInv, VerifierTypes
<1>8. ASSUME NEW u \in Targets, verdict'[u] \in Verdicts
      PROVE  /\ u \in DOMAIN recovery' /\ recovery'[u].begun /\ recovery'[u].result = verdict'[u]
             /\ verdict'[u] = "Failed" => recovery'[u].age > Timeout
             /\ Verifier!Verdict(recovery[u])' = IF recovery'[u].age > Timeout THEN "Failed" ELSE verdict'[u]
  <2>1. CASE u = t
    <3>1. Verifier!Verdict(recovery[t])' = IF recovery'[t].age > Timeout THEN "Failed" ELSE now
      BY <1>1, <1>4, <1>5, <1>6, <1>7, <1>8, <2>1, VerdictAfter DEF VerifierInv, now
    <3>2. kept = now
      BY <1>5, <1>8, <2>1 DEF kept, Verdicts
    <3> QED
      BY <1>1, <1>4, <1>5, <1>6, <1>8, <2>1, <3>1, <3>2
  <2>2. CASE u # t
    <3>1. verdict[u] \in Verdicts /\ u \in DOMAIN recovery /\ recovery[u].age \in Nat
      BY <1>5, <1>8, <2>2 DEF VerifierInv, VerdictKept, VerifierTypes, Metrics
    <3> QED
      BY <1>1, <1>5, <1>7, <2>2, <3>1, Lasts
  <2> QED
    BY <2>1, <2>2
<1>9. VerdictKept'
  BY <1>8 DEF VerdictKept
<1>10. Verifier!VerdictStable'
  BY <1>8 DEF Verifier!VerdictStable, Verdicts
<1> QED
  BY <1>7, <1>9, <1>10 DEF VerifierInv

(* A step that changes the metrics of one target, whose verdict is forgotten *)
(* or was none.                                                              *)
LEMMA OneTargetStep ==
  ASSUME Timeout \in Nat, VerifierInv, threshold' = threshold, NEW t \in Targets,
         DOMAIN recovery' = DOMAIN recovery \cup {t},
         recovery' \in [DOMAIN recovery' -> Metrics],
         \A u \in DOMAIN recovery \ {t} : recovery'[u] = recovery[u],
         verdict' = [verdict EXCEPT ![t] = "none"] \/ (verdict' = verdict /\ verdict[t] \notin Verdicts)
  PROVE  VerifierInv'
<1>1. /\ verdict'[t] \notin Verdicts /\ \A u \in Targets \ {t} : verdict'[u] = verdict[u]
      /\ verdict' \in [Targets -> Verifier!RecoveryResult \cup {"none"}]
  BY DEF VerifierInv, VerifierTypes, Verdicts
<1>2. VerifierTypes'
  BY <1>1 DEF VerifierInv, VerifierTypes
<1>3. ASSUME NEW u \in Targets, verdict'[u] \in Verdicts
      PROVE  /\ verdict'[u] = verdict[u] /\ u \in DOMAIN recovery'
             /\ recovery'[u] = recovery[u] /\ recovery[u].age \in Nat
  BY <1>1, <1>3 DEF VerifierInv, VerdictKept, VerifierTypes, Metrics
<1>4. \A u \in Targets : verdict'[u] \in Verdicts =>
        /\ verdict'[u] = verdict[u] /\ u \in DOMAIN recovery'
        /\ recovery'[u].begun = recovery[u].begun
        /\ recovery'[u].recovering = recovery[u].recovering
        /\ recovery'[u].result = recovery[u].result
        /\ recovery'[u].age >= recovery[u].age
  BY <1>3
<1> QED
  BY <1>2, <1>4, VerifierStep

LEMMA RecordStep ==
  ASSUME Timeout \in Nat, VerifierInv, NEW t \in Targets, Verifier!RecordRequest(t)
  PROVE  VerifierInv'
<1>1. /\ t \in DOMAIN recovery /\ Verifier!Counts(recovery[t]) /\ recovery[t] \in Metrics
      /\ threshold' = threshold /\ verdict' = verdict
  BY DEF Verifier!RecordRequest, VerifierInv, VerifierTypes
<1>2. verdict[t] \notin Verdicts
  BY <1>1 DEF Verifier!Counts, VerifierInv, VerdictKept, Verdicts
<1>3. \A n \in [requests : Nat, successful : Nat], success \in BOOLEAN :
        Verifier!Counted(n, success) \in [requests : Nat, successful : Nat]
  BY DEF Verifier!Counted
<1>4. PICK m \in Metrics : recovery' = [recovery EXCEPT ![t] = m]
  <2>1. PICK success \in BOOLEAN :
          \/ recovery' = [recovery EXCEPT ![t].failing = Verifier!Counted(recovery[t].failing, success)]
          \/ recovery' = [recovery EXCEPT ![t].recovering = Verifier!Counted(recovery[t].recovering, success)]
    BY DEF Verifier!RecordRequest
  <2>2. CASE recovery' = [recovery EXCEPT ![t].failing = Verifier!Counted(recovery[t].failing, success)]
    <3>1. [recovery[t] EXCEPT !.failing = Verifier!Counted(recovery[t].failing, success)] \in Metrics
      BY <1>1, <1>3 DEF Metrics
    <3> QED
      BY <2>2, <3>1
  <2>3. CASE recovery' = [recovery EXCEPT ![t].recovering = Verifier!Counted(recovery[t].recovering, success)]
    <3>1. [recovery[t] EXCEPT !.recovering = Verifier!Counted(recovery[t].recovering, success)] \in Metrics
      BY <1>1, <1>3 DEF Metrics
    <3> QED
      BY <2>3, <3>1
  <2> QED
    BY <2>1, <2>2, <2>3
<1>5. /\ DOMAIN recovery' = DOMAIN recovery \cup {t} /\ recovery' \in [DOMAIN recovery' -> Metrics]
      /\ \A u \in DOMAIN recovery \ {t} : recovery'[u] = recovery[u]
  BY <1>1, <1>4 DEF VerifierInv, VerifierTypes
<1> QED
  BY <1>1, <1>2, <1>5, OneTargetStep

(* Starting and completing forget the verdict.                               *)
LEMMA ReopenStep ==
  ASSUME Timeout \in Nat, VerifierInv, NEW t \in Targets,
         Verifier!StartFailureTracking(t) \/ Verifier!StartRecovery(t) \/ Verifier!CompleteRecovery(t)
  PROVE  VerifierInv'
<1>1. threshold' = threshold /\ verdict' = [verdict EXCEPT ![t] = "none"]
  BY DEF Verifier!StartFailureTracking, Verifier!StartRecovery, Verifier!CompleteRecovery, Verifier!Forget
<1>2. /\ DOMAIN recovery' = DOMAIN recovery \cup {t} /\ recovery' \in [DOMAIN recovery' -> Metrics]
      /\ \A u \in DOMAIN recovery \ {t} : recovery'[u] = recovery[u]
  <2>1. CASE Verifier!StartFailureTracking(t)
    <3>1. Verifier!NewMetrics \in Metrics
      BY DEF Verifier!NewMetrics, Metrics, Verifier!RecoveryResult
    <3>2. recovery' = [u \in DOMAIN recovery \cup {t} |-> IF u = t THEN Verifier!NewMetrics ELSE recovery[u]]
      BY <2>1 DEF Verifier!StartFailureTracking
    <3> QED
      BY <3>1, <3>2 DEF VerifierInv, VerifierTypes
  <2>2. CASE Verifier!StartRecovery(t) \/ Verifier!CompleteRecovery(t)
    <3>1. t \in DOMAIN recovery /\ recovery[t] \in Metrics
      BY <2>2 DEF Verifier!StartRecovery, Verifier!CompleteRecovery, VerifierInv, VerifierTypes
    <3>2. PICK m \in Metrics : recovery' = [recovery EXCEPT ![t] = m]
      <4>1. CASE Verifier!StartRecovery(t)
        <5>1. [recovery[t] EXCEPT !.begun = TRUE, !.age = 0, !.result = "InProgress"] \in Metrics
          BY <3>1 DEF Metrics, Verifier!RecoveryResult
        <5>2. recovery' = [recovery EXCEPT ![t] = [recovery[t] EXCEPT !.begun = TRUE, !.age = 0, !.result = "InProgress"]]
          BY <3>1, <4>1 DEF Verifier!StartRecovery
        <5> QED
          BY <5>1, <5>2
      <4>2. CASE Verifier!CompleteRecovery(t)
        <5>1. PICK result \in Verifier!RecoveryResult : recovery' = [recovery EXCEPT ![t].result = result]
          BY <4>2 DEF Verifier!CompleteRecovery
        <5>2. [recovery[t] EXCEPT !.result = result] \in Metrics
          BY <3>1 DEF Metrics
        <5> QED
          BY <5>1, <5>2
      <4> QED
        BY <2>2, <4>1, <4>2
    <3> QED
      BY <3>1, <3>2 DEF VerifierInv, VerifierTypes
  <2> QED
    BY <2>1, <2>2
<1> QED
  BY <1>1, <1>2, OneTargetStep

LEMMA ClearStep ==
  ASSUME Timeout \in Nat, VerifierInv, NEW gone \in SUBSET Targets, Verifier!Clear(gone)
  PROVE  VerifierInv'
<1>1. /\ threshold' = threshold
      /\ recovery' = [u \in DOMAIN recovery \ gone |-> recovery[u]]
      /\ verdict' = [u \in Targets |-> IF u \in gone THEN "none" ELSE verdict[u]]
  BY DEF Verifier!Clear
<1>2. VerifierTypes'
  BY <1>1 DEF VerifierInv, VerifierTypes
<1>3. \A u \in Targets : verdict'[u] \in Verdicts =>
        /\ verdict'[u] = verdict[u] /\ u \in DOMAIN recovery'
        /\ recovery'[u] = recovery[u] /\ recovery[u].age \in Nat
  BY <1>1 DEF VerifierInv, VerdictKept, VerifierTypes, Metrics, Verdicts
<1>4. \A u \in Targets : verdict'[u] \in Verdicts =>
        /\ verdict'[u] = verdict[u] /\ u \in DOMAIN recovery'
        /\ recovery'[u].begun = recovery[u].begun
        /\ recovery'[u].recovering = recovery[u].recovering
        /\ recovery'[u].result = recovery[u].result
        /\ recovery'[u].age >= recovery[u].age
  BY <1>3
<1> QED
  BY <1>1, <1>2, <1>4, VerifierStep

LEMMA VerifierTickStep ==
  ASSUME Timeout \in Nat, VerifierInv, Verifier!Tick
  PROVE  VerifierInv'
<1> DEFINE Older(u) ==
             [recovery[u] EXCEPT !.age = IF recovery[u].begun /\ recovery[u].age <= Timeout
                                         THEN recovery[u].age + 1 ELSE recovery[u].age]
<1>1. /\ threshold' = threshold /\ verdict' = verdict
      /\ recovery' = [u \in DOMAIN recovery |-> Older(u)]
  BY DEF Verifier!Tick
<1>2. ASSUME NEW u \in DOMAIN recovery
      PROVE  /\ Older(u) \in Metrics /\ Older(u).age >= recovery[u].age
             /\ Older(u).begun = recovery[u].begun /\ Older(u).result = recovery[u].result
             /\ Older(u).recovering = recovery[u].recovering
  <2>1. recovery[u] \in Metrics
    BY DEF VerifierInv, VerifierTypes
  <2> QED
    BY <2>1 DEF Metrics
<1> HIDE DEF Older
<1>3. VerifierTypes'
  BY <1>1, <1>2 DEF VerifierInv, VerifierTypes
<1>4. \A u \in Targets : verdict'[u] \in Verdicts =>
        /\ verdict'[u] = verdict[u] /\ u \in DOMAIN recovery'
        /\ recovery'[u].begun = recovery[u].begun
        /\ recovery'[u].recovering = recovery[u].recovering
        /\ recovery'[u].result = recovery[u].result
        /\ recovery'[u].age >= recovery[u].age
  BY <1>1, <1>2 DEF VerifierInv, VerdictKept
<1> QED
  BY <1>1, <1>3, <1>4, VerifierStep

LEMMA VerifierNextStep ==
  ASSUME Timeout \in Nat, VerifierInv, [Verifier!Next]_verifierVars
  PROVE  VerifierInv'
<1>1. ASSUME NEW t \in Targets, Verifier!StartFailureTracking(t) \/ Verifier!StartRecovery(t) \/ Verifier!CompleteRecovery(t)
      PROVE  VerifierInv'
  BY <1>1, ReopenStep
<1>2. ASSUME NEW t \in Targets, Verifier!RecordRequest(t) PROVE VerifierInv'
  BY <1>2, RecordStep
<1>3. ASSUME NEW t \in Targets, Verifier!VerifyRecovery(t) PROVE VerifierInv'
  BY <1>3, VerifyStep
<1>4. ASSUME NEW t \in Targets, Verifier!Clear({t}) PROVE VerifierInv'
  <2>1. {t} \in SUBSET Targets
    OBVIOUS
  <2> QED
    BY <1>4, <2>1, ClearStep
<1>5. CASE Verifier!Clear(Targets)
  <2>1. Targets \in SUBSET Targets
    OBVIOUS
  <2> QED
    BY <1>5, <2>1, ClearStep
<1>6. CASE Verifier!Tick
  BY <1>6, VerifierTickStep
<1>7. CASE UNCHANGED verifierVars
  BY <1>7 DEF verifierVars, VerifierInv, VerifierTypes, VerdictKept, Verifier!VerdictStable, Verifier!Verdict
<1> QED
  BY <1>1, <1>2, <1>3, <1>4, <1>5, <1>6, <1>7 DEF Verifier!Next

(***************************************************************************)
(* A verdict on a recovery stands until its timeout, however many requests *)
(* are recorded in the meantime, and turns into a failure then, whatever   *)
(* the threshold: only start, complete and clear undo it (record_request,  *)
(* verify_recovery).                                                       *)
(***************************************************************************)
THEOREM VerdictsStand == ServicesSpec => []VerdictStable
<1>1. ServicesInit => VerifierInv
  BY DEF ServicesInit, Verifier!Init, VerifierInv, VerifierTypes, VerdictKept,
         Verifier!VerdictStable, Verdicts
<1>2. VerifierInv /\ [ServicesNext]_servicesVars => VerifierInv'
  BY OneStepsAtATime, VerifierNextStep, TimeAssumption
<1>3. VerifierInv => VerdictStable
  BY DEF VerifierInv, VerdictStable
<1> QED
  BY <1>1, <1>2, <1>3, PTL DEF ServicesSpec

-----------------------------------------------------------------------------
(***************************************************************************)
(* The invariant of the counter.  The key, if there is one, ends at most   *)
(* once, and what CountersExpire says of it.                               *)
(***************************************************************************)
CounterTypes ==
  /\ ttl \in Ttls
  /\ counter \subseteq [value : Int, left : SUBSET Nat]
  /\ \A j, k \in counter : j = k
  /\ \A k \in counter : \A m, n \in k.left : m = n

CounterInv == CounterTypes /\ CountersExpire

(* INCRBY and DECRBY keep the end of a key that is there, and make one       *)
(* without.                                                                  *)
LEMMA AddedKey ==
  ASSUME CounterTypes, NEW n \in Int, counter' = Count!Added(n), ttl' = ttl
  PROVE  /\ CounterTypes'
         /\ \A k \in counter' :
              \/ counter = {} /\ k.left = {}
              \/ \E j \in counter : k.left = j.left
<1>1. CASE counter = {}
  <2>1. counter' = {[value |-> 0 + n, left |-> {}]}
    BY <1>1 DEF Count!Added, Count!Value
  <2> QED
    BY <1>1, <2>1 DEF CounterTypes
<1>2. CASE counter # {}
  <2> DEFINE j == CHOOSE k \in counter : TRUE
  <2>1. j \in counter
    BY <1>2
  <2>2. counter' = {[value |-> j.value + n, left |-> j.left]}
    BY <1>2 DEF Count!Added, Count!Value
  <2>3. j.value \in Int /\ j.left \in SUBSET Nat
    BY <2>1 DEF CounterTypes
  <2> HIDE DEF j
  <2>4. j.value + n \in Int
    BY <2>3
  <2> QED
    BY <2>1, <2>2, <2>3, <2>4 DEF CounterTypes
<1> QED
  BY <1>1, <1>2

LEMMA CounterStep ==
  ASSUME CounterInv, [Count!Next]_countVars
  PROVE  CounterInv'
<1>0. ttl \subseteq Nat /\ \A m, n \in ttl : m = n
  BY TimeAssumption DEF CounterInv, CounterTypes
<1>1. ASSUME NEW c \in Clients, Count!IncrementBy(c) PROVE CounterInv'
  <2>1. PICK n \in {1, 2} : counter' = Count!Added(n)
    BY <1>1 DEF Count!IncrementBy
  <2>2. /\ ttl' = ttl /\ excused' = excused
        /\ expiring' = expiring \cup (IF ttl = {} THEN {} ELSE {c})
    BY <1>1 DEF Count!IncrementBy
  <2>3. /\ CounterTypes'
        /\ \A k \in counter' : \/ counter = {} /\ k.left = {}
                               \/ \E j \in counter : k.left = j.left
    BY <2>1, <2>2, AddedKey DEF CounterInv
  <2>4. CountersExpire'
    BY <2>2, <2>3 DEF CounterInv, CountersExpire, Count!CountersExpire
  <2> QED
    BY <2>3, <2>4 DEF CounterInv
<1>2. ASSUME NEW c \in Clients, Count!Expire(c) PROVE CounterInv'
  <2>1. PICK t \in ttl : counter' = Count!Ending(t)
    BY <1>2 DEF Count!Expire
  <2>2. ttl' = ttl
    BY <1>2 DEF Count!Expire
  <2>3. \A k \in counter' : /\ k \in [value : Int, left : SUBSET Nat]
                           /\ k.left = {t} /\ 0 < t
                           /\ \E j \in counter : k = [j EXCEPT !.left = {t}]
    BY <1>0, <2>1 DEF Count!Ending, CounterInv, CounterTypes
  <2>4. CounterTypes'
    BY <2>2, <2>3 DEF CounterInv, CounterTypes
  <2>5. CountersExpire'
    BY <1>0, <2>2, <2>3 DEF CountersExpire, Count!CountersExpire
  <2> QED
    BY <2>4, <2>5 DEF CounterInv
<1>3. ASSUME NEW c \in Clients, Count!Fail(c) PROVE CounterInv'
  <2>1. /\ ttl' = ttl /\ counter' = counter
        /\ counter # {} => excused' # {}
    BY <1>3 DEF Count!Fail
  <2> QED
    BY <2>1 DEF CounterInv, CounterTypes, CountersExpire, Count!CountersExpire
<1>4. CASE Count!DecrementBy
  <2>1. /\ ttl' = ttl /\ expiring' = expiring
        /\ counter' = Count!Added(-1)
        /\ excused' = excused \cup (IF counter = {} THEN {"made by decrement_by"} ELSE {})
    BY <1>4 DEF Count!DecrementBy
  <2>2. -1 \in Int
    OBVIOUS
  <2>3. /\ CounterTypes'
        /\ \A k \in counter' : \/ counter = {} /\ k.left = {}
                               \/ \E j \in counter : k.left = j.left
    BY <2>1, <2>2, AddedKey DEF CounterInv
  <2>4. CountersExpire'
    BY <2>1, <2>3 DEF CounterInv, CountersExpire, Count!CountersExpire
  <2> QED
    BY <2>3, <2>4 DEF CounterInv
<1>5. CASE Count!Assign
  <2>1. PICK n \in {0, 1} : counter' = {[value |-> n, left |-> ttl]}
    BY <1>5 DEF Count!Assign, Count!Stored
  <2>2. ttl' = ttl /\ ttl # {0}
    BY <1>5 DEF Count!Assign
  <2>3. \A m \in ttl : 0 < m
    <3> SUFFICES ASSUME NEW m \in ttl PROVE 0 < m
      OBVIOUS
    <3>1. m \in Nat /\ ttl = {m}
      BY <1>0
    <3>2. m # 0
      BY <2>2, <3>1
    <3> QED
      BY <3>1, <3>2
  <2>4. CounterTypes'
    BY <1>0, <2>1, <2>2 DEF CounterInv, CounterTypes
  <2>5. /\ \A k \in counter' : k.left = ttl
        /\ \A m, t \in ttl : 0 < m /\ m <= t
    BY <1>0, <2>1, <2>3
  <2>6. CountersExpire'
    BY <2>2, <2>5 DEF CountersExpire, Count!CountersExpire
  <2> QED
    BY <2>4, <2>6 DEF CounterInv
<1>6. CASE Count!Reset
  BY <1>6 DEF Count!Reset, CounterInv, CounterTypes, CountersExpire, Count!CountersExpire
<1>7. CASE Count!Tick
  <2> DEFINE Older(k) == [k EXCEPT !.left = {n - 1 : n \in k.left}]
  <2>1. /\ ttl' = ttl /\ expiring' = expiring
        /\ counter' = {Older(k) : k \in {k \in counter : k.left # {1}}}
        /\ counter' # {} => excused' = excused
    BY <1>7 DEF Count!Tick
  <2>2. ASSUME NEW j \in counter, j.left # {1}
        PROVE  /\ Older(j) \in [value : Int, left : SUBSET Nat]
               /\ Older(j).left = {} <=> j.left = {}
               /\ \A m, n \in Older(j).left : m = n
               /\ \A n \in Older(j).left, t \in ttl : 0 < n /\ n <= t
    <3>1. /\ j.value \in Int /\ j.left \in SUBSET Nat
          /\ j = [value |-> j.value, left |-> j.left]
          /\ \A m, n \in j.left : m = n
          /\ ttl = {} => j.left = {}
          /\ \A n \in j.left, t \in ttl : 0 < n /\ n <= t
      BY DEF CounterInv, CounterTypes, CountersExpire, Count!CountersExpire
    <3>2. Older(j) = [value |-> j.value, left |-> {n - 1 : n \in j.left}]
      BY <3>1
    <3>3. \A n \in j.left : n \in Nat /\ 0 < n /\ n # 1
      BY <1>0, <2>2, <3>1
    <3>4. \A n \in j.left : n - 1 \in Nat /\ 0 < n - 1 /\ \A t \in ttl : n - 1 <= t
      BY <1>0, <3>1, <3>3
    <3> QED
      BY <3>1, <3>2, <3>4
  <2> HIDE DEF Older
  <2>3. CounterTypes'
    BY <2>1, <2>2 DEF CounterInv, CounterTypes
  <2>4. CountersExpire'
    BY <2>1, <2>2 DEF CounterInv, CountersExpire, Count!CountersExpire
  <2> QED
    BY <2>3, <2>4 DEF CounterInv
<1>8. CASE UNCHANGED countVars
  BY <1>8 DEF countVars, CounterInv, CounterTypes, CountersExpire, Count!CountersExpire
<1> QED
  BY <1>1, <1>2, <1>3, <1>4, <1>5, <1>6, <1>7, <1>8 DEF Count!Next

(***************************************************************************)
(* A counter with a time to live comes to an end at most that far away,    *)
(* whoever counts, wherever the connection breaks between its two          *)
(* commands, unless an expiry of an increment is still to come or has      *)
(* failed, or a decrement made the key (increment_by, decrement_by, set).  *)
(***************************************************************************)
THEOREM CountersEnd == ServicesSpec => []CountersExpire
<1>1. ServicesInit => CounterInv
  BY DEF ServicesInit, Count!Init, CounterInv, CounterTypes, CountersExpire, Count!CountersExpire
<1>2. CounterInv /\ [ServicesNext]_servicesVars => CounterInv'
  BY OneStepsAtATime, CounterStep
<1>3. CounterInv => CountersExpire
  BY DEF CounterInv
<1> QED
  BY <1>1, <1>2, <1>3, PTL DEF ServicesSpec
-----------------------------------------------------------------------------
Keys == [rate_limit : Nat, expires : BOOLEAN, expired : BOOLEAN, revoked : BOOLEAN,
         may_route : BOOLEAN]

AuthTypes ==
  /\ keys \in [DOMAIN keys -> Keys]
  /\ DOMAIN rate_limits \subseteq Hashes
  /\ rate_limits \in [DOMAIN rate_limits -> [count : Nat, age : 0 .. Window]]
  /\ recent \in [Hashes -> [Auth!Ages -> Nat]]
  /\ ceiling \in [Hashes -> Nat]

(***************************************************************************)
(* The invariant of authentication.  In a window that is not over its      *)
(* count is of the requests admitted in it, and what was admitted before,  *)
(* but no longer ago than a window lasts, was so in one window.  When a    *)
(* window is over, nothing is admitted until the next begins.              *)
(***************************************************************************)
RecentGrows ==
  \A h \in Hashes : \A a, b \in Auth!Ages : a <= b => recent[h][a] <= recent[h][b]

FirstWindow ==
  \A h \in Hashes \ DOMAIN rate_limits : \A a \in Auth!Ages : recent[h][a] = 0

OpenWindow ==
  \A h \in DOMAIN rate_limits :
    /\ rate_limits[h].count <= ceiling[h]
    /\ rate_limits[h].age < Window =>
         /\ rate_limits[h].count = recent[h][rate_limits[h].age]
         /\ recent[h][Window - 1] <= rate_limits[h].count + ceiling[h]

ClosedWindow ==
  \A h \in DOMAIN rate_limits :
    rate_limits[h].age = Window =>
      recent[h][0] = 0 /\ recent[h][Window - 1] <= ceiling[h]

AuthInv == AuthTypes /\ RecentGrows /\ FirstWindow /\ OpenWindow /\ ClosedWindow

LEMMA AgesBounds ==
  /\ Window \in Nat /\ Window > 0
  /\ Auth!Ages \subseteq Nat
  /\ 0 \in Auth!Ages /\ Window - 1 \in Auth!Ages
  /\ \A a : a \in Auth!Ages <=> a \in Nat /\ a < Window
BY AuthAssumption DEF Auth!Ages

(* A key that is registered, revoked or expires changes no window.           *)
LEMMA KeyStep ==
  ASSUME AuthInv, keys' \in [DOMAIN keys' -> Keys],
         UNCHANGED <<rate_limits, recent, ceiling>>
  PROVE  AuthInv'
BY DEF AuthInv, AuthTypes, RecentGrows, FirstWindow, OpenWindow, ClosedWindow

(* Max and Min of the community modules, of two numbers.                     *)
LEMMA LargerOfTwo ==
  ASSUME NEW a \in Nat, NEW b \in Nat
  PROVE  Auth!Max({a, b}) \in Nat /\ Auth!Max({a, b}) >= a /\ Auth!Max({a, b}) >= b
<1>1. \E m \in {a, b} : \A n \in {a, b} : m >= n
  <2>1. CASE a >= b
    BY <2>1
  <2>2. CASE ~(a >= b)
    BY <2>2
  <2> QED
    BY <2>1, <2>2
<1>2. Auth!Max({a, b}) \in {a, b} /\ \A n \in {a, b} : Auth!Max({a, b}) >= n
  BY <1>1 DEF Auth!Max
<1> QED
  BY <1>2

LEMMA SmallerOfTwo ==
  ASSUME NEW a \in Nat, NEW b \in Nat
  PROVE  Auth!Min({a, b}) \in {a, b} /\ Auth!Min({a, b}) <= a /\ Auth!Min({a, b}) <= b
<1>1. \E m \in {a, b} : \A n \in {a, b} : m <= n
  <2>1. CASE a <= b
    BY <2>1
  <2>2. CASE ~(a <= b)
    BY <2>2
  <2> QED
    BY <2>1, <2>2
<1>2. Auth!Min({a, b}) \in {a, b} /\ \A n \in {a, b} : Auth!Min({a, b}) <= n
  BY <1>1 DEF Auth!Min
<1> QED
  BY <1>2

(* What check_rate_limit starts from: a count below what the window admits,  *)
(* and at most one window's worth of requests before it.                     *)
LEMMA EntryBegins ==
  ASSUME AuthInv, NEW h \in Hashes
  PROVE  LET e == Auth!Entry(h)
         IN  /\ e \in [count : Nat, age : Auth!Ages]
             /\ e.count = recent[h][e.age]
             /\ e.count <= ceiling[h]
             /\ recent[h][Window - 1] <= e.count + ceiling[h]
<1> USE AgesBounds
<1>0. /\ ceiling[h] \in Nat
      /\ \A a \in Auth!Ages : recent[h][a] \in Nat
  BY DEF AuthInv, AuthTypes
<1>1. CASE h \notin DOMAIN rate_limits
  <2>1. Auth!Entry(h) = [count |-> 0, age |-> 0]
    BY <1>1 DEF Auth!Entry
  <2>2. recent[h][0] = 0 /\ recent[h][Window - 1] = 0
    BY <1>1 DEF AuthInv, FirstWindow
  <2> QED
    BY <1>0, <2>1, <2>2
<1>2. CASE h \in DOMAIN rate_limits /\ rate_limits[h].age >= Window
  <2>1. Auth!Entry(h) = [count |-> 0, age |-> 0]
    BY <1>2 DEF Auth!Entry
  <2>2. rate_limits[h].age = Window
    BY <1>2 DEF AuthInv, AuthTypes
  <2>3. recent[h][0] = 0 /\ recent[h][Window - 1] <= ceiling[h]
    BY <1>2, <2>2 DEF AuthInv, ClosedWindow
  <2> QED
    BY <1>0, <2>1, <2>3
<1>3. CASE h \in DOMAIN rate_limits /\ ~(rate_limits[h].age >= Window)
  <2>1. Auth!Entry(h) = rate_limits[h]
    BY <1>3 DEF Auth!Entry
  <2>2. /\ rate_limits[h] \in [count : Nat, age : 0 .. Window]
        /\ rate_limits[h].age \in Auth!Ages
    BY <1>3 DEF AuthInv, AuthTypes
  <2>3. rate_limits[h].age < Window
    BY <2>2
  <2> QED
    BY <1>0, <1>3, <2>1, <2>2, <2>3 DEF AuthInv, OpenWindow
<1> QED
  BY <1>1, <1>2, <1>3

LEMMA AuthenticateStep ==
  ASSUME AuthInv, NEW h \in Hashes, Auth!Authenticate(h)
  PROVE  AuthInv'
<1> USE AgesBounds
<1> DEFINE e == Auth!Entry(h)
           limit == keys[h].rate_limit
<1>1. /\ e \in [count : Nat, age : Auth!Ages]
      /\ e.count = recent[h][e.age] /\ e.count <= ceiling[h]
      /\ recent[h][Window - 1] <= e.count + ceiling[h]
  BY EntryBegins
<1>2. keys' = keys /\ limit \in Nat
  BY DEF Auth!Authenticate, Auth!Valid, AuthInv, AuthTypes, Keys
<1>3. /\ e.count \in Nat /\ e.age \in Auth!Ages /\ e.age \in 0 .. Window /\ e.age < Window
      /\ ceiling[h] \in Nat
      /\ \A a \in Auth!Ages : recent[h][a] \in Nat
  BY <1>1 DEF AuthInv, AuthTypes
<1>4. CASE e.count >= limit
  <2>1. /\ rate_limits' = Auth!Checked(h, e)
        /\ recent' = recent /\ ceiling' = ceiling
    BY <1>4 DEF Auth!Authenticate
  <2> HIDE DEF e, limit
  <2>2. /\ DOMAIN rate_limits' = DOMAIN rate_limits \cup {h}
        /\ rate_limits'[h] = e
        /\ \A k \in DOMAIN rate_limits \ {h} : rate_limits'[k] = rate_limits[k]
        /\ rate_limits' \in [DOMAIN rate_limits' -> [count : Nat, age : 0 .. Window]]
    BY <1>1, <2>1 DEF Auth!Checked, AuthInv, AuthTypes
  <2>3. AuthTypes'
    BY <1>2, <2>1, <2>2 DEF AuthInv, AuthTypes
  <2>4. RecentGrows' /\ FirstWindow'
    BY <2>1, <2>2 DEF AuthInv, RecentGrows, FirstWindow
  <2>5. OpenWindow' /\ ClosedWindow'
    BY <1>1, <1>3, <2>1, <2>2 DEF AuthInv, OpenWindow, ClosedWindow
  <2> QED
    BY <2>3, <2>4, <2>5 DEF AuthInv
<1>5. CASE ~(e.count >= limit)
  <2> DEFINE f == [e EXCEPT !.count = @ + 1]
             more == [a \in Auth!Ages |-> recent[h][a] + 1]
             top == Auth!Max({ceiling[h], limit})
  <2>1. /\ rate_limits' = Auth!Checked(h, f)
        /\ recent' = [recent EXCEPT ![h] = more]
        /\ ceiling' = [ceiling EXCEPT ![h] = top]
    BY <1>5 DEF Auth!Authenticate
  <2>2. top \in Nat /\ top >= ceiling[h] /\ top >= limit
    BY <1>2, <1>3, LargerOfTwo
  <2>3. /\ f \in [count : Nat, age : 0 .. Window]
        /\ f.count = e.count + 1 /\ f.age = e.age
    BY <1>1, <1>3
  <2>4. /\ more \in [Auth!Ages -> Nat]
        /\ \A a \in Auth!Ages : more[a] = recent[h][a] + 1
    BY <1>3
  <2> HIDE DEF e, limit, f, more, top
  <2>5. /\ DOMAIN rate_limits' = DOMAIN rate_limits \cup {h}
        /\ rate_limits'[h] = f
        /\ \A k \in DOMAIN rate_limits \ {h} : rate_limits'[k] = rate_limits[k]
        /\ rate_limits' \in [DOMAIN rate_limits' -> [count : Nat, age : 0 .. Window]]
    BY <2>1, <2>3 DEF Auth!Checked, AuthInv, AuthTypes
  <2>6. /\ recent'[h] = more /\ ceiling'[h] = top
        /\ \A k \in Hashes \ {h} : recent'[k] = recent[k] /\ ceiling'[k] = ceiling[k]
    BY <2>1 DEF AuthInv, AuthTypes
  <2>7. AuthTypes'
    BY <1>2, <2>1, <2>2, <2>4, <2>5 DEF AuthInv, AuthTypes
  <2>8. RecentGrows'
    <3> SUFFICES ASSUME NEW k \in Hashes, NEW a \in Auth!Ages, NEW b \in Auth!Ages, a <= b
                 PROVE  recent'[k][a] <= recent'[k][b]
      BY DEF RecentGrows, Auth!Ages
    <3>1. recent[k][a] <= recent[k][b]
      BY DEF AuthInv, RecentGrows
    <3>2. CASE k = h
      BY <1>3, <2>4, <2>6, <3>1, <3>2
    <3> QED
      BY <2>6, <3>1, <3>2
  <2>9. FirstWindow'
    BY <2>5, <2>6 DEF AuthInv, FirstWindow, Auth!Ages
  <2>10. e.count + 1 <= limit
    BY <1>2, <1>3, <1>5
  <2>11. /\ f.count <= top
         /\ f.count = recent'[h][f.age]
         /\ recent'[h][Window - 1] <= f.count + top
    BY <1>1, <1>2, <1>3, <2>2, <2>3, <2>4, <2>6, <2>10
  <2>12. f.age < Window /\ f.age # Window
    BY <1>3, <2>3
  <2>13. \A k \in DOMAIN rate_limits' :
           \/ k = h
           \/ /\ k \in DOMAIN rate_limits
              /\ rate_limits'[k] = rate_limits[k]
              /\ recent'[k] = recent[k] /\ ceiling'[k] = ceiling[k]
    BY <2>5, <2>6 DEF AuthInv, AuthTypes
  <2>14. OpenWindow'
    BY <2>5, <2>6, <2>11, <2>13 DEF AuthInv, OpenWindow
  <2>15. ClosedWindow'
    BY <2>5, <2>12, <2>13 DEF AuthInv, ClosedWindow
  <2> QED
    BY <2>7, <2>8, <2>9, <2>14, <2>15 DEF AuthInv
<1> QED
  BY <1>4, <1>5

LEMMA AuthTickStep ==
  ASSUME AuthInv, Auth!Tick
  PROVE  AuthInv'
<1> USE AgesBounds
<1>1. /\ rate_limits' = [h \in DOMAIN rate_limits |->
           [rate_limits[h] EXCEPT !.age = Auth!Min({rate_limits[h].age + 1, Window})]]
      /\ recent' = [h \in Hashes |-> [a \in Auth!Ages |-> IF a = 0 THEN 0 ELSE recent[h][a - 1]]]
      /\ keys' = keys /\ ceiling' = ceiling
  BY DEF Auth!Tick
<1>2. DOMAIN rate_limits' = DOMAIN rate_limits
  BY <1>1
<1>3. ASSUME NEW h \in DOMAIN rate_limits
      PROVE  /\ rate_limits'[h] \in [count : Nat, age : 0 .. Window]
             /\ rate_limits'[h].count = rate_limits[h].count
             /\ rate_limits[h].age \in 0 .. Window
             /\ rate_limits[h].age < Window => rate_limits'[h].age = rate_limits[h].age + 1
             /\ rate_limits[h].age = Window => rate_limits'[h].age = Window
  <2> DEFINE n == Auth!Min({rate_limits[h].age + 1, Window})
  <2>1. rate_limits[h] \in [count : Nat, age : 0 .. Window]
    BY DEF AuthInv, AuthTypes
  <2>2. /\ n \in 0 .. Window
        /\ rate_limits[h].age < Window => n = rate_limits[h].age + 1
        /\ rate_limits[h].age = Window => n = Window
    <3>1. rate_limits[h].age + 1 \in Nat
      BY <2>1
    <3>2. n \in {rate_limits[h].age + 1, Window} /\ n <= rate_limits[h].age + 1 /\ n <= Window
      BY <3>1, SmallerOfTwo
    <3> QED
      BY <2>1, <3>2
  <2>3. rate_limits'[h] = [rate_limits[h] EXCEPT !.age = n]
    BY <1>1
  <2> HIDE DEF n
  <2> QED
    BY <2>1, <2>2, <2>3
<1>4. ASSUME NEW h \in Hashes
      PROVE  /\ recent'[h] \in [Auth!Ages -> Nat]
             /\ recent'[h][0] = 0
             /\ \A a \in Auth!Ages \ {0} : a - 1 \in Auth!Ages /\ recent'[h][a] = recent[h][a - 1]
             /\ \A a \in Auth!Ages : recent'[h][a] <= recent[h][a]
             /\ \A a \in Auth!Ages : recent[h][a] \in Nat /\ recent'[h][a] \in Nat
  <2>1. \A a \in Auth!Ages : recent[h][a] \in Nat
    BY DEF AuthInv, AuthTypes
  <2>2. recent'[h] = [a \in Auth!Ages |-> IF a = 0 THEN 0 ELSE recent[h][a - 1]]
    BY <1>1
  <2>3. \A a \in Auth!Ages \ {0} : a - 1 \in Auth!Ages
    OBVIOUS
  <2>4. \A a \in Auth!Ages \ {0} : recent[h][a - 1] <= recent[h][a]
    BY <2>3 DEF AuthInv, RecentGrows
  <2> QED
    BY <2>1, <2>2, <2>3, <2>4
<1>5. AuthTypes'
  <2>1. rate_limits' \in [DOMAIN rate_limits' -> [count : Nat, age : 0 .. Window]]
    BY <1>1, <1>2, <1>3
  <2>2. recent' \in [Hashes -> [Auth!Ages -> Nat]]
    BY <1>1, <1>4
  <2> QED
    BY <1>1, <1>2, <2>1, <2>2 DEF AuthInv, AuthTypes
<1>6. RecentGrows'
  <2> SUFFICES ASSUME NEW h \in Hashes, NEW a \in Auth!Ages, NEW b \in Auth!Ages, a <= b
               PROVE  recent'[h][a] <= recent'[h][b]
    BY DEF RecentGrows, Auth!Ages
  <2>1. CASE a = 0
    BY <1>4, <2>1
  <2>2. CASE a # 0
    <3>1. b # 0 /\ a - 1 <= b - 1
      BY <2>2
    <3>2. a - 1 \in Auth!Ages /\ b - 1 \in Auth!Ages
      BY <1>4, <2>2, <3>1
    <3>3. recent[h][a - 1] <= recent[h][b - 1]
      BY <3>1, <3>2 DEF AuthInv, RecentGrows
    <3> QED
      BY <1>4, <2>2, <3>1, <3>3
  <2> QED
    BY <2>1, <2>2
<1>7. FirstWindow'
  <2> SUFFICES ASSUME NEW h \in Hashes \ DOMAIN rate_limits, NEW a \in Auth!Ages
               PROVE  recent'[h][a] = 0
    BY <1>2 DEF FirstWindow, Auth!Ages
  <2> QED
    BY <1>4 DEF AuthInv, FirstWindow
<1>8. ASSUME NEW h \in DOMAIN rate_limits
      PROVE  /\ rate_limits'[h].count <= ceiling'[h]
             /\ rate_limits'[h].age < Window =>
                  /\ rate_limits'[h].count = recent'[h][rate_limits'[h].age]
                  /\ recent'[h][Window - 1] <= rate_limits'[h].count + ceiling'[h]
             /\ rate_limits'[h].age = Window =>
                  recent'[h][0] = 0 /\ recent'[h][Window - 1] <= ceiling'[h]
  <2> DEFINE g == rate_limits[h].age
  <2>1. /\ h \in Hashes /\ ceiling'[h] = ceiling[h] /\ ceiling[h] \in Nat
        /\ rate_limits[h].count \in Nat /\ rate_limits[h].count <= ceiling[h]
        /\ g \in 0 .. Window
        /\ recent'[h][Window - 1] <= recent[h][Window - 1]
        /\ recent[h][Window - 1] \in Nat /\ recent'[h][Window - 1] \in Nat
    BY <1>1, <1>3, <1>4 DEF AuthInv, AuthTypes, OpenWindow
  <2>2. CASE g < Window
    <3>1. /\ rate_limits[h].count = recent[h][g]
          /\ recent[h][Window - 1] <= rate_limits[h].count + ceiling[h]
          /\ rate_limits'[h].age = g + 1
          /\ rate_limits'[h].count = rate_limits[h].count
      BY <1>3, <2>2 DEF AuthInv, OpenWindow
    <3>2. CASE g + 1 < Window
      <4>1. g + 1 \in Auth!Ages \ {0} /\ g + 1 - 1 = g /\ g + 1 # Window
        BY <2>1, <3>2
      <4>2. recent'[h][g + 1] = recent[h][g]
        BY <1>4, <2>1, <4>1
      <4> QED
        BY <2>1, <3>1, <4>1, <4>2
    <3>3. CASE ~(g + 1 < Window)
      <4>1. g = Window - 1 /\ g + 1 = Window
        BY <2>1, <2>2, <3>3
      <4>2. recent'[h][Window - 1] <= ceiling[h]
        BY <2>1, <3>1, <4>1
      <4> QED
        BY <1>4, <2>1, <3>1, <4>1, <4>2
    <3> QED
      BY <3>2, <3>3
  <2>3. CASE ~(g < Window)
    <3>1. g = Window
      BY <2>1, <2>3
    <3>2. /\ rate_limits'[h].age = Window
          /\ rate_limits'[h].count = rate_limits[h].count
          /\ recent[h][Window - 1] <= ceiling[h]
      BY <1>3, <3>1 DEF AuthInv, ClosedWindow
    <3> QED
      BY <1>4, <2>1, <3>2
  <2> QED
    BY <2>2, <2>3
<1> QED
  BY <1>2, <1>5, <1>6, <1>7, <1>8 DEF AuthInv, OpenWindow, ClosedWindow

LEMMA AuthStep ==
  ASSUME AuthInv, [Auth!Next]_authVars
  PROVE  AuthInv'
<1>1. ASSUME NEW h \in Hashes, Auth!RegisterKey(h) PROVE AuthInv'
  <2>1. PICK limit \in Limits, expires \in BOOLEAN, route \in BOOLEAN :
          keys' = [k \in DOMAIN keys \cup {h} |->
                     IF k # h THEN keys[k]
                     ELSE [rate_limit |-> limit, expires |-> expires, expired |-> FALSE,
                           revoked |-> FALSE, may_route |-> route]]
    BY <1>1 DEF Auth!RegisterKey
  <2>2. limit \in Nat
    BY AuthAssumption
  <2>3. keys' \in [DOMAIN keys' -> Keys]
    BY <2>1, <2>2 DEF AuthInv, AuthTypes, Keys
  <2> QED
    BY <1>1, <2>3, KeyStep DEF Auth!RegisterKey
<1>2. ASSUME NEW h \in Hashes, Auth!RevokeKey(h) PROVE AuthInv'
  <2>1. keys' \in [DOMAIN keys' -> Keys]
    BY <1>2 DEF Auth!RevokeKey, AuthInv, AuthTypes, Keys
  <2> QED
    BY <1>2, <2>1, KeyStep DEF Auth!RevokeKey
<1>3. ASSUME NEW h \in Hashes, Auth!Expire(h) PROVE AuthInv'
  <2>1. keys' \in [DOMAIN keys' -> Keys]
    BY <1>3 DEF Auth!Expire, AuthInv, AuthTypes, Keys
  <2> QED
    BY <1>3, <2>1, KeyStep DEF Auth!Expire
<1>4. ASSUME NEW h \in Hashes, Auth!Authenticate(h) PROVE AuthInv'
  BY <1>4, AuthenticateStep
<1>5. CASE Auth!Tick
  BY <1>5, AuthTickStep
<1>6. CASE UNCHANGED authVars
  BY <1>6, KeyStep DEF authVars, AuthInv, AuthTypes
<1> QED
  BY <1>1, <1>2, <1>3, <1>4, <1>5, <1>6 DEF Auth!Next

(***************************************************************************)
(* However keys are used, revoked and registered anew, an interval as long *)
(* as the window admits at most twice the largest limit a key has had, for *)
(* every window and all limits, and a request is refused only for those    *)
(* admitted in its own window (check_rate_limit).                          *)
(***************************************************************************)
THEOREM RateLimited == ServicesSpec => []RateLimitKept
<1>1. ServicesInit => AuthInv
  BY AgesBounds DEF ServicesInit, Auth!Init, AuthInv, AuthTypes, RecentGrows, FirstWindow,
                    OpenWindow, ClosedWindow
<1>2. AuthInv /\ [ServicesNext]_servicesVars => AuthInv'
  BY OneStepsAtATime, AuthStep
<1>3. AuthInv => RateLimitKept
  <2> SUFFICES ASSUME AuthInv PROVE RateLimitKept
    OBVIOUS
  <2>1. ASSUME NEW h \in Hashes PROVE recent[h][Window - 1] <= 2 * ceiling[h]
    <3>1. /\ recent[h][Window - 1] \in Nat /\ ceiling[h] \in Nat
          /\ Auth!Entry(h).count \in Nat /\ Auth!Entry(h).count <= ceiling[h]
          /\ recent[h][Window - 1] <= Auth!Entry(h).count + ceiling[h]
      BY AgesBounds, EntryBegins DEF AuthInv, AuthTypes
    <3> QED
      BY <3>1
  <2> QED
    BY <2>1 DEF AuthInv, OpenWindow, RateLimitKept, Auth!RateLimitKept
<1> QED
  BY <1>1, <1>2, <1>3, PTL DEF ServicesSpec
-----------------------------------------------------------------------------
EventIds == 1 .. MaxEvents

TopicTypes ==
  /\ records \in Seq(Nat)
  /\ batch \in Seq(EventIds)
  /\ unsent \in Seq(EventIds)
  /\ position \in 0 .. Len(records)
  /\ committed \in Nat
  /\ events \in Seq(Nat)

LastOfBatch == IF batch = <<>> THEN 0 ELSE batch[BatchSize]

(***************************************************************************)
(* The invariant of the topic.  The events of a batch are numbered one     *)
(* after the other and nothing beyond them is in the topic yet; send_batch *)
(* is still to send a suffix, and what is before that is there.            *)
(***************************************************************************)
BatchNumbered ==
  batch # <<>> =>
    /\ Len(batch) = BatchSize
    /\ \A i \in 1 .. BatchSize : batch[i] = batch[BatchSize] - BatchSize + i

RecordsKnown ==
  \A i \in DOMAIN records :
    records[i] = 0 \/ records[i] = MaxEvents + 1 \/ records[i] <= LastOfBatch

SuffixUnsent ==
  /\ Len(unsent) <= Len(batch)
  /\ \A i \in 1 .. Len(unsent) : unsent[i] = batch[Len(batch) - Len(unsent) + i]
  /\ unsent # <<>> => \A i \in 1 .. Len(batch) - Len(unsent) : Topic!Sent(batch[i])

AcceptedSent == \A e \in acked : Topic!Sent(e)

PrefixSent ==
  \A i, j \in DOMAIN batch : i < j /\ Topic!Sent(batch[j]) => Topic!Sent(batch[i])

PassedKnown ==
  /\ committed <= position
  /\ \A i \in 1 .. position :
       i \in returned \cup Topic!ToSet(events) \cup dropped \/ records[i] = MaxEvents + 1

SenderInv == BatchNumbered /\ RecordsKnown /\ SuffixUnsent /\ AcceptedSent /\ PrefixSent

TopicInv == TopicTypes /\ SenderInv /\ PassedKnown

LEMMA BatchEvents ==
  ASSUME TopicTypes
  PROVE  /\ Len(batch) \in Nat /\ DOMAIN batch = 1 .. Len(batch)
         /\ \A i \in DOMAIN batch : batch[i] \in 1 .. MaxEvents /\ batch[i] \in Nat
         /\ Len(unsent) \in Nat
         /\ unsent # <<>> => /\ Len(unsent) > 0 /\ Head(unsent) = unsent[1]
                            /\ Head(unsent) \in 1 .. MaxEvents
<1>1. MaxEvents \in Nat
  BY BatchAssumption
<1>2. /\ Len(batch) \in Nat /\ DOMAIN batch = 1 .. Len(batch)
      /\ \A i \in DOMAIN batch : batch[i] \in EventIds
  BY DEF TopicTypes
<1>3. Len(unsent) \in Nat /\ (unsent # <<>> => Len(unsent) > 0 /\ Head(unsent) = unsent[1])
  BY DEF TopicTypes
<1>4. ASSUME unsent # <<>> PROVE Head(unsent) \in 1 .. MaxEvents
  <2>1. 1 \in 1 .. Len(unsent)
    BY <1>3, <1>4
  <2>2. unsent[1] \in EventIds
    BY <2>1 DEF TopicTypes
  <2> QED
    BY <1>3, <1>4, <2>2 DEF EventIds
<1> QED
  BY <1>1, <1>2, <1>3, <1>4 DEF EventIds

(* A record more: it is there, and what was is.                              *)
LEMMA OneRecordMore ==
  ASSUME TopicTypes, NEW r \in Nat, records' = Append(records, r)
  PROVE  /\ records' \in Seq(Nat) /\ Len(records') = Len(records) + 1
         /\ \A i \in DOMAIN records : i \in DOMAIN records' /\ records'[i] = records[i]
         /\ \A i \in DOMAIN records' : i \in DOMAIN records \/ records'[i] = r
         /\ \A e : Topic!Sent(e)' <=> Topic!Sent(e) \/ e = r
<1>1. /\ records' \in Seq(Nat) /\ Len(records') = Len(records) + 1
      /\ DOMAIN records = 1 .. Len(records) /\ DOMAIN records' = 1 .. Len(records) + 1
      /\ Len(records) \in Nat
      /\ \A i \in 1 .. Len(records) : records'[i] = records[i]
      /\ records'[Len(records) + 1] = r
  BY DEF TopicTypes
<1>2. \A i \in 1 .. Len(records) + 1 : i \in 1 .. Len(records) \/ i = Len(records) + 1
  BY <1>1
<1>3. \A i \in 1 .. Len(records) : i \in 1 .. Len(records) + 1
  BY <1>1
<1>4. Len(records) + 1 \in 1 .. Len(records) + 1
  BY <1>1
<1> QED
  BY <1>1, <1>2, <1>3, <1>4 DEF Topic!Sent

(* The consumer does not mind records that are put behind those it has passed. *)
LEMMA ConsumerKeeps ==
  ASSUME TopicTypes, PassedKnown, NEW r \in Nat,
         UNCHANGED records \/ records' = Append(records, r),
         UNCHANGED <<position, committed, events, returned, dropped>>
  PROVE  PassedKnown' /\ position' \in 0 .. Len(records')
<1>1. CASE UNCHANGED records
  BY <1>1 DEF TopicTypes, PassedKnown
<1>2. CASE records' = Append(records, r)
  <2>1. /\ Len(records') = Len(records) + 1
        /\ \A i \in DOMAIN records : records'[i] = records[i]
    BY <1>2, OneRecordMore
  <2>2. \A i \in 1 .. position : i \in DOMAIN records /\ records'[i] = records[i]
    <3>1. DOMAIN records = 1 .. Len(records) /\ Len(records) \in Nat /\ position \in 0 .. Len(records)
      BY DEF TopicTypes
    <3> QED
      BY <2>1, <3>1
  <2>3. position' \in 0 .. Len(records')
    BY <2>1 DEF TopicTypes
  <2>4. Topic!ToSet(events)' = Topic!ToSet(events)
    BY DEF Topic!ToSet
  <2>5. /\ committed' <= position'
        /\ \A i \in 1 .. position :
             i \in returned \cup Topic!ToSet(events) \cup dropped \/ records'[i] = MaxEvents + 1
    BY <2>2 DEF PassedKnown
  <2> QED
    BY <2>3, <2>4, <2>5 DEF PassedKnown
<1> QED
  BY <1>1, <1>2

(* The producer does not mind what the consumer does.                        *)
LEMMA ProducerKeeps ==
  ASSUME SenderInv, UNCHANGED <<records, batch, unsent, acked>>
  PROVE  SenderInv'
BY DEF SenderInv, BatchNumbered, RecordsKnown, LastOfBatch, SuffixUnsent, AcceptedSent, PrefixSent,
       Topic!Sent

LEMMA SendBatchStep ==
  ASSUME TopicInv, Topic!SendBatch
  PROVE  TopicInv'
<1>0. BatchSize \in Nat /\ BatchSize > 0 /\ MaxEvents \in Nat
  BY BatchAssumption
<1> DEFINE last == LastOfBatch
           next == [i \in 1 .. BatchSize |-> last + i]
<1>1. /\ unsent = <<>> /\ unsent' = batch'
      /\ UNCHANGED <<records, acked, position, committed, events, returned, dropped>>
  BY DEF Topic!SendBatch
<1>2. last \in Nat /\ (batch # <<>> => Topic!Last(batch) = last)
  <2>1. CASE batch = <<>>
    BY <2>1 DEF LastOfBatch
  <2>2. CASE batch # <<>>
    <3>1. Len(batch) = BatchSize /\ BatchSize \in DOMAIN batch
      BY <1>0, <2>2, BatchEvents DEF TopicInv, SenderInv, BatchNumbered
    <3> QED
      BY <2>2, <3>1, BatchEvents DEF LastOfBatch, TopicInv, Topic!Last
  <2> QED
    BY <2>1, <2>2
<1>3. \/ last + BatchSize <= MaxEvents /\ batch' = next
      \/ batch' = batch
  BY <1>2 DEF Topic!SendBatch, LastOfBatch
<1>4. PassedKnown' /\ position' \in 0 .. Len(records')
  BY <1>1 DEF TopicInv, TopicTypes, PassedKnown
<1>5. \A e : Topic!Sent(e)' <=> Topic!Sent(e)
  BY <1>1 DEF Topic!Sent
<1>6. AcceptedSent'
  BY <1>1, <1>5 DEF TopicInv, SenderInv, AcceptedSent
<1>7. ASSUME batch' \in Seq(EventIds) PROVE SuffixUnsent' /\ TopicTypes'
  <2>1. Len(batch') \in Nat /\ Len(unsent') = Len(batch')
    BY <1>1, <1>7
  <2>2. \A i \in 1 .. Len(unsent') : Len(batch') - Len(unsent') + i = i
    BY <2>1
  <2>3. 1 .. Len(batch') - Len(unsent') = {}
    BY <2>1
  <2> QED
    BY <1>1, <1>4, <1>7, <2>1, <2>2, <2>3 DEF SuffixUnsent, TopicInv, TopicTypes
<1>8. CASE batch' = batch
  <2>1. batch' \in Seq(EventIds)
    BY <1>8 DEF TopicInv, TopicTypes
  <2>2. BatchNumbered' /\ RecordsKnown' /\ PrefixSent'
    BY <1>1, <1>5, <1>8 DEF TopicInv, SenderInv, BatchNumbered, RecordsKnown, LastOfBatch, PrefixSent
  <2> QED
    BY <1>4, <1>6, <1>7, <2>1, <2>2 DEF TopicInv, SenderInv
<1>9. CASE last + BatchSize <= MaxEvents /\ batch' = next
  <2> HIDE DEF last
  <2>1. /\ batch' \in Seq(EventIds) /\ Len(batch') = BatchSize /\ batch' # <<>>
        /\ DOMAIN batch' = 1 .. BatchSize
        /\ \A i \in 1 .. BatchSize : batch'[i] = last + i
    <3>1. \A i \in 1 .. BatchSize : last + i \in 1 .. MaxEvents
      BY <1>0, <1>2, <1>9
    <3>2. next \in Seq(EventIds) /\ Len(next) = BatchSize
      BY <1>0, <3>1 DEF EventIds
    <3>3. next[1] = last + 1 /\ DOMAIN next = 1 .. BatchSize
      BY <1>0
    <3> QED
      BY <1>0, <1>9, <3>2, <3>3
  <2>2. BatchSize \in 1 .. BatchSize /\ batch'[BatchSize] = last + BatchSize
    BY <1>0, <2>1
  <2>3. BatchNumbered'
    BY <1>0, <1>2, <2>1, <2>2 DEF BatchNumbered
  <2>4. RecordsKnown'
    <3>1. LastOfBatch' = last + BatchSize
      BY <2>1, <2>2 DEF LastOfBatch
    <3>2. \A i \in DOMAIN records : records[i] \in Nat
      BY DEF TopicInv, TopicTypes
    <3> QED
      BY <1>0, <1>1, <1>2, <3>1, <3>2 DEF TopicInv, SenderInv, RecordsKnown, last
  <2>5. \A i \in DOMAIN batch' : ~Topic!Sent(batch'[i])
    <3> SUFFICES ASSUME NEW i \in 1 .. BatchSize, NEW k \in DOMAIN records, records[k] = last + i
                 PROVE  FALSE
      BY <2>1 DEF Topic!Sent
    <3>1. records[k] = 0 \/ records[k] = MaxEvents + 1 \/ records[k] <= last
      BY DEF TopicInv, SenderInv, RecordsKnown, last
    <3>2. last + i > last /\ last + i <= MaxEvents /\ last + i > 0
      BY <1>0, <1>2, <1>9
    <3> QED
      BY <1>0, <1>2, <3>1, <3>2
  <2>6. PrefixSent'
    BY <1>5, <2>5 DEF PrefixSent
  <2> QED
    BY <1>4, <1>6, <1>7, <2>1, <2>3, <2>4, <2>6 DEF TopicInv, SenderInv
<1> QED
  BY <1>3, <1>8, <1>9

(* The broker stores the event that is under way; as those before it in the  *)
(* batch are there, still a prefix is.                                       *)
LEMMA StoredNext ==
  ASSUME TopicInv, unsent # <<>>, records' = Append(records, Head(unsent)),
         batch' = batch
  PROVE  /\ Len(unsent) \in 1 .. Len(batch)
         /\ Head(unsent) \in Nat /\ Head(unsent) = batch[Len(batch) - Len(unsent) + 1]
         /\ \A e : Topic!Sent(e)' <=> Topic!Sent(e) \/ e = Head(unsent)
         /\ \A i \in 1 .. Len(batch) - Len(unsent) + 1 : Topic!Sent(batch[i])'
         /\ records' \in Seq(Nat)
         /\ RecordsKnown' /\ PrefixSent'
<1> DEFINE k == Len(batch) - Len(unsent) + 1
<1>0. BatchSize \in Nat /\ BatchSize > 0 /\ MaxEvents \in Nat
  BY BatchAssumption
<1>1. /\ Len(unsent) \in Nat /\ Len(unsent) > 0 /\ Len(batch) \in Nat
      /\ Head(unsent) = unsent[1] /\ Head(unsent) \in 1 .. MaxEvents
      /\ DOMAIN batch = 1 .. Len(batch)
      /\ \A i \in DOMAIN batch : batch[i] \in 1 .. MaxEvents /\ batch[i] \in Nat
  BY BatchEvents DEF TopicInv
<1>2. Len(unsent) <= Len(batch) /\ batch # <<>>
  BY <1>1 DEF TopicInv, TopicTypes, SenderInv, SuffixUnsent
<1>3. k \in 1 .. Len(batch)
  BY <1>1, <1>2
<1>4. Head(unsent) = batch[k]
  BY <1>1 DEF TopicInv, SenderInv, SuffixUnsent
<1>5. /\ Head(unsent) \in Nat
      /\ records' \in Seq(Nat)
      /\ \A i \in DOMAIN records : records'[i] = records[i]
      /\ \A i \in DOMAIN records' : i \in DOMAIN records \/ records'[i] = Head(unsent)
      /\ \A e : Topic!Sent(e)' <=> Topic!Sent(e) \/ e = Head(unsent)
  <2>1. Head(unsent) \in Nat
    BY <1>0, <1>1
  <2> QED
    BY <2>1, OneRecordMore DEF TopicInv
<1>6. \A i \in 1 .. k - 1 : Topic!Sent(batch[i])
  <2>1. k - 1 = Len(batch) - Len(unsent)
    BY <1>1
  <2>2. \A i \in 1 .. Len(batch) - Len(unsent) : Topic!Sent(batch[i])
    BY DEF TopicInv, SenderInv, SuffixUnsent
  <2> HIDE DEF k
  <2> QED
    BY <2>1, <2>2
<1>7. \A i \in 1 .. k : Topic!Sent(batch[i])'
  <2> SUFFICES ASSUME NEW i \in 1 .. k PROVE Topic!Sent(batch[i]) \/ batch[i] = Head(unsent)
    <3>1. \A i \in 1 .. k : Topic!Sent(batch[i])' <=> Topic!Sent(batch[i]) \/ batch[i] = Head(unsent)
      BY <1>5 DEF Topic!Sent
    <3> QED
      BY <3>1
  <2>1. CASE i = k
    BY <1>4, <2>1
  <2>2. CASE i # k
    <3>1. i \in 1 .. k - 1
      BY <1>3, <2>2
    <3> QED
      BY <1>6, <3>1
  <2> QED
    BY <2>1, <2>2
<1>8. /\ Len(batch) = BatchSize
      /\ \A i \in 1 .. BatchSize : batch[i] = batch[BatchSize] - BatchSize + i
  BY <1>2 DEF TopicInv, SenderInv, BatchNumbered
<1>9. batch[BatchSize] \in Nat
  BY <1>0, <1>1, <1>8
<1>10. RecordsKnown'
  <2>1. LastOfBatch = batch[BatchSize] /\ LastOfBatch' = LastOfBatch
    BY <1>2 DEF LastOfBatch
  <2>2. Head(unsent) <= LastOfBatch
    BY <1>0, <1>3, <1>4, <1>8, <1>9, <2>1
  <2> QED
    BY <1>5, <2>1, <2>2 DEF TopicInv, SenderInv, RecordsKnown
<1>11. PrefixSent'
  <2> SUFFICES ASSUME NEW i \in DOMAIN batch, NEW j \in DOMAIN batch, i < j,
                      Topic!Sent(batch[j]) \/ batch[j] = Head(unsent)
               PROVE  Topic!Sent(batch[i]) \/ batch[i] = Head(unsent)
    <3>1. \A i \in DOMAIN batch :
            Topic!Sent(batch[i])' <=> Topic!Sent(batch[i]) \/ batch[i] = Head(unsent)
      BY <1>5 DEF Topic!Sent
    <3> QED
      BY <3>1 DEF PrefixSent
  <2>1. CASE Topic!Sent(batch[j])
    BY <2>1 DEF TopicInv, SenderInv, PrefixSent
  <2>2. CASE batch[j] = Head(unsent)
    <3>0. /\ j \in 1 .. BatchSize /\ k \in 1 .. BatchSize
          /\ batch[j] = batch[k]
      BY <1>1, <1>3, <1>4, <1>8, <2>2
    <3>1. j = k
      <4> DEFINE b == batch[BatchSize]
      <4> HIDE DEF k, b
      <4>1. b - BatchSize + j = b - BatchSize + k
        BY <1>8, <3>0 DEF b
      <4>2. b \in Nat /\ j \in Nat /\ k \in Nat
        BY <1>0, <1>9, <3>0 DEF b
      <4> QED
        BY <1>0, <4>1, <4>2
    <3>2. i \in 1 .. k - 1
      BY <1>1, <1>3, <3>1
    <3> QED
      BY <1>6, <3>2
  <2> QED
    BY <2>1, <2>2
<1> QED
  BY <1>1, <1>2, <1>4, <1>5, <1>7, <1>10, <1>11

LEMMA DeliverStep ==
  ASSUME TopicInv, Topic!Deliver
  PROVE  TopicInv'
<1>1. /\ unsent # <<>>
      /\ records' = Append(records, Head(unsent))
      /\ unsent' = Tail(unsent)
      /\ acked' = IF Len(unsent) = 1 THEN acked \cup Topic!ToSet(batch) ELSE acked
      /\ batch' = batch
      /\ UNCHANGED <<position, committed, events, returned, dropped>>
  BY DEF Topic!Deliver
<1>2. /\ Len(unsent) \in 1 .. Len(batch)
      /\ Head(unsent) \in Nat
      /\ \A e : Topic!Sent(e)' <=> Topic!Sent(e) \/ e = Head(unsent)
      /\ \A i \in 1 .. Len(batch) - Len(unsent) + 1 : Topic!Sent(batch[i])'
      /\ records' \in Seq(Nat)
      /\ RecordsKnown' /\ PrefixSent'
  BY <1>1, StoredNext
<1>3. PassedKnown' /\ position' \in 0 .. Len(records')
  BY <1>1, <1>2, ConsumerKeeps DEF TopicInv
<1>4. /\ Len(batch) \in Nat
      /\ unsent' \in Seq(EventIds) /\ Len(unsent') = Len(unsent) - 1
      /\ \A i \in 1 .. Len(unsent) - 1 : unsent'[i] = unsent[i + 1]
  BY <1>1 DEF TopicInv, TopicTypes
<1>5. TopicTypes'
  BY <1>1, <1>2, <1>3, <1>4 DEF TopicInv, TopicTypes
<1>6. BatchNumbered'
  BY <1>1 DEF TopicInv, SenderInv, BatchNumbered
<1>7. SuffixUnsent'
  <2>1. Len(unsent') <= Len(batch')
    BY <1>1, <1>2, <1>4
  <2>2. ASSUME NEW i \in 1 .. Len(unsent')
        PROVE  unsent'[i] = batch'[Len(batch') - Len(unsent') + i]
    <3>1. i + 1 \in 1 .. Len(unsent) /\ i \in 1 .. Len(unsent) - 1
      BY <1>2, <1>4
    <3>2. unsent'[i] = batch[Len(batch) - Len(unsent) + (i + 1)]
      BY <1>4, <3>1 DEF TopicInv, SenderInv, SuffixUnsent
    <3>3. Len(batch) - Len(unsent) + (i + 1) = Len(batch) - Len(unsent') + i
      BY <1>2, <1>4
    <3> QED
      BY <1>1, <3>2, <3>3
  <2>3. Len(batch) - Len(unsent) + 1 = Len(batch) - Len(unsent')
    BY <1>2, <1>4
  <2>4. \A i \in 1 .. Len(batch') - Len(unsent') : Topic!Sent(batch[i])'
    BY <1>1, <1>2, <2>3
  <2> QED
    BY <2>1, <2>2, <2>4 DEF SuffixUnsent
<1>8. AcceptedSent'
  <2>1. \A e \in acked : Topic!Sent(e)'
    BY <1>2 DEF TopicInv, SenderInv, AcceptedSent
  <2>2. CASE Len(unsent) = 1
    <3>1. \A i \in 1 .. Len(batch) : Topic!Sent(batch[i])'
      BY <1>2, <1>4, <2>2
    <3>2. \A e \in Topic!ToSet(batch) : Topic!Sent(e)'
      <4>1. \A e \in Topic!ToSet(batch) : \E i \in 1 .. Len(batch) : e = batch[i]
        BY BatchEvents DEF TopicInv, Topic!ToSet
      <4>2. \A i \in 1 .. Len(batch) : \E k \in DOMAIN records' : records'[k] = batch[i]
        BY <1>1, <3>1 DEF Topic!Sent
      <4> QED
        BY <4>1, <4>2 DEF Topic!Sent
    <3> QED
      BY <1>1, <2>1, <2>2, <3>2 DEF AcceptedSent
  <2>3. CASE Len(unsent) # 1
    BY <1>1, <2>1, <2>3 DEF AcceptedSent
  <2> QED
    BY <2>2, <2>3
<1> QED
  BY <1>2, <1>3, <1>5, <1>6, <1>7, <1>8 DEF TopicInv, SenderInv

LEMMA SendFailStep ==
  ASSUME TopicInv, Topic!Fail
  PROVE  TopicInv'
<1>1. /\ unsent # <<>> /\ unsent' = <<>>
      /\ records' = records \/ records' = Append(records, Head(unsent))
      /\ batch' = batch /\ acked' = acked
      /\ UNCHANGED <<position, committed, events, returned, dropped>>
  BY DEF Topic!Fail
<1>2. /\ SuffixUnsent' /\ BatchNumbered'
      /\ Head(unsent) \in Nat
  <2>1. Len(batch) \in Nat /\ Len(unsent') = 0 /\ Head(unsent) \in Nat
    BY <1>1, BatchEvents, BatchAssumption DEF TopicInv
  <2> QED
    BY <1>1, <2>1 DEF TopicInv, SenderInv, SuffixUnsent, BatchNumbered
<1>3. /\ records' \in Seq(Nat) /\ RecordsKnown' /\ PrefixSent' /\ AcceptedSent'
  <2>1. CASE records' = records
    BY <1>1, <2>1 DEF TopicInv, TopicTypes, SenderInv, RecordsKnown, LastOfBatch, PrefixSent,
                      AcceptedSent, Topic!Sent
  <2>2. CASE records' = Append(records, Head(unsent))
    <3>1. /\ records' \in Seq(Nat) /\ RecordsKnown' /\ PrefixSent'
          /\ \A e : Topic!Sent(e)' <=> Topic!Sent(e) \/ e = Head(unsent)
      BY <1>1, <2>2, StoredNext
    <3> QED
      BY <1>1, <3>1 DEF TopicInv, SenderInv, AcceptedSent
  <2> QED
    BY <1>1, <2>1, <2>2
<1>4. PassedKnown' /\ position' \in 0 .. Len(records')
  BY <1>1, <1>2, ConsumerKeeps DEF TopicInv
<1>5. TopicTypes'
  BY <1>1, <1>3, <1>4 DEF TopicInv, TopicTypes
<1> QED
  BY <1>2, <1>3, <1>4, <1>5 DEF TopicInv, SenderInv

LEMMA PutOtherStep ==
  ASSUME TopicInv, Topic!PutOther
  PROVE  TopicInv'
<1>0. MaxEvents \in Nat
  BY BatchAssumption
<1>1. PICK other \in {0, MaxEvents + 1} : records' = Append(records, other)
  BY DEF Topic!PutOther, Topic!Unreadable, Topic!Empty
<1>2. UNCHANGED <<batch, unsent, acked, position, committed, events, returned, dropped>>
  BY DEF Topic!PutOther
<1>3. other \in Nat
  BY <1>0
<1>4. /\ records' \in Seq(Nat)
      /\ \A i \in DOMAIN records : records'[i] = records[i]
      /\ \A i \in DOMAIN records' : i \in DOMAIN records \/ records'[i] = other
      /\ \A e : Topic!Sent(e)' <=> Topic!Sent(e) \/ e = other
  BY <1>1, <1>3, OneRecordMore DEF TopicInv
<1>5. PassedKnown' /\ position' \in 0 .. Len(records')
  BY <1>1, <1>2, <1>3, ConsumerKeeps DEF TopicInv
<1>6. TopicTypes'
  BY <1>2, <1>4, <1>5 DEF TopicInv, TopicTypes
<1>7. \A i \in DOMAIN batch : batch[i] # other
  <2>1. \A i \in DOMAIN batch : batch[i] \in 1 .. MaxEvents
    BY BatchEvents DEF TopicInv
  <2> QED
    BY <1>0, <2>1
<1>8. PrefixSent'
  <2>1. \A i \in DOMAIN batch : Topic!Sent(batch[i])' <=> Topic!Sent(batch[i])
    BY <1>2, <1>4, <1>7 DEF Topic!Sent
  <2> QED
    BY <1>2, <2>1 DEF TopicInv, SenderInv, PrefixSent
<1>9. RecordsKnown'
  <2>1. LastOfBatch' = LastOfBatch
    BY <1>2 DEF LastOfBatch
  <2> QED
    BY <1>4, <2>1 DEF TopicInv, SenderInv, RecordsKnown
<1>10. SuffixUnsent'
  <2>1. \A i : Topic!Sent(batch[i]) => Topic!Sent(batch[i])'
    BY <1>2, <1>4 DEF Topic!Sent
  <2> QED
    BY <1>2, <2>1 DEF TopicInv, SenderInv, SuffixUnsent
<1>11. BatchNumbered' /\ AcceptedSent'
  BY <1>2, <1>4 DEF TopicInv, SenderInv, BatchNumbered, AcceptedSent
<1> QED
  BY <1>5, <1>6, <1>8, <1>9, <1>10, <1>11 DEF TopicInv, SenderInv

(* What the consumer passes it has gathered, returned or given up.           *)
LEMMA ConsumerStep ==
  ASSUME TopicInv, Topic!Poll \/ Topic!PollFails \/ Topic!Return \/ Topic!Commit \/ Topic!Restart
  PROVE  TopicInv'
<1>0. UNCHANGED <<records, batch, unsent, acked>>
  BY DEF Topic!Poll, Topic!PollFails, Topic!Return, Topic!Commit, Topic!Restart
<1>1. SenderInv'
  BY <1>0, ProducerKeeps DEF TopicInv
<1>2. /\ position \in Nat /\ committed \in Nat /\ Len(records) \in Nat /\ position <= Len(records)
      /\ events \in Seq(Nat)
      /\ committed <= position
  BY DEF TopicInv, TopicTypes, PassedKnown
<1>3. CASE Topic!Poll
  <2>1. /\ position < Len(records) /\ position' = position + 1
        /\ events' = IF records[position'] = MaxEvents + 1 THEN events ELSE Append(events, position')
        /\ UNCHANGED <<committed, returned, dropped>>
    BY <1>3 DEF Topic!Poll, Topic!Empty
  <2>2. /\ events' \in Seq(Nat)
        /\ Topic!ToSet(events) \subseteq Topic!ToSet(events')
        /\ records[position'] # MaxEvents + 1 => position' \in Topic!ToSet(events')
    <3>1. CASE records[position'] = MaxEvents + 1
      BY <1>2, <2>1, <3>1
    <3>2. CASE records[position'] # MaxEvents + 1
      <4>1. events' = Append(events, position') /\ position' \in Nat
        BY <1>2, <2>1, <3>2
      <4>2. /\ Len(events') = Len(events) + 1 /\ Len(events) \in Nat
            /\ events' \in Seq(Nat)
            /\ DOMAIN events = 1 .. Len(events) /\ DOMAIN events' = 1 .. Len(events) + 1
            /\ events'[Len(events) + 1] = position'
            /\ \A i \in 1 .. Len(events) : events'[i] = events[i]
        BY <1>2, <4>1
      <4>3. Len(events) + 1 \in DOMAIN events' /\ \A i \in DOMAIN events : i \in DOMAIN events'
        BY <4>2
      <4> QED
        BY <4>2, <4>3 DEF Topic!ToSet
    <3> QED
      BY <3>1, <3>2
  <2>3. PassedKnown'
    <3>1. committed' <= position'
      BY <1>2, <2>1
    <3>2. ASSUME NEW i \in 1 .. position'
          PROVE  i \in returned \cup Topic!ToSet(events') \cup dropped \/ records[i] = MaxEvents + 1
      <4>1. CASE i = position'
        BY <2>2, <4>1
      <4>2. CASE i # position'
        <5>1. i \in 1 .. position
          BY <1>2, <2>1, <4>2
        <5> QED
          BY <2>2, <5>1 DEF TopicInv, PassedKnown
      <4> QED
        BY <4>1, <4>2
    <3>3. Topic!ToSet(events)' = Topic!ToSet(events')
      BY DEF Topic!ToSet
    <3> QED
      BY <1>0, <2>1, <3>1, <3>2, <3>3 DEF PassedKnown
  <2>4. TopicTypes'
    BY <1>0, <1>2, <2>1, <2>2 DEF TopicInv, TopicTypes
  <2> QED
    BY <1>1, <2>3, <2>4 DEF TopicInv
<1>4. CASE Topic!PollFails
  <2>1. /\ events' = <<>> /\ committed' = committed /\ returned' = returned
        /\ \/ /\ position < Len(records) /\ position' = position + 1
              /\ dropped' = dropped \cup Topic!ToSet(events) \cup {position'}
           \/ position' = position /\ dropped' = dropped \cup Topic!ToSet(events)
    BY <1>4 DEF Topic!PollFails
  <2>2. \A i \in 1 .. position' : i \in 1 .. position \/ i \in dropped'
    BY <1>2, <2>1
  <2>3. position' \in 0 .. Len(records) /\ committed' <= position'
    BY <1>2, <2>1
  <2>4. Topic!ToSet(events) \cup dropped \subseteq dropped'
    BY <2>1
  <2>5. PassedKnown'
    BY <1>0, <2>1, <2>2, <2>3, <2>4 DEF TopicInv, PassedKnown
  <2> QED
    BY <1>0, <1>1, <1>2, <2>1, <2>3, <2>5 DEF TopicInv, TopicTypes
<1>5. CASE Topic!Return
  <2>1. /\ events' = <<>> /\ returned' = returned \cup Topic!ToSet(events)
        /\ position' = position /\ committed' = committed /\ dropped' = dropped
    BY <1>5 DEF Topic!Return, Topic!Answered
  <2>2. PassedKnown'
    BY <1>0, <2>1 DEF TopicInv, PassedKnown
  <2> QED
    BY <1>0, <1>1, <1>2, <2>1, <2>2 DEF TopicInv, TopicTypes
<1>6. CASE Topic!Commit
  <2>1. committed' = position /\ UNCHANGED <<position, events, returned, dropped>>
    BY <1>6 DEF Topic!Commit
  <2>2. PassedKnown'
    BY <1>0, <1>2, <2>1 DEF TopicInv, PassedKnown
  <2> QED
    BY <1>0, <1>1, <1>2, <2>1, <2>2 DEF TopicInv, TopicTypes
<1>7. CASE Topic!Restart
  <2>1. /\ position' = committed /\ dropped' = dropped \cup Topic!ToSet(events)
        /\ events' = <<>> /\ committed' = committed /\ returned' = returned
    BY <1>7 DEF Topic!Restart
  <2>2. \A i \in 1 .. position' : i \in 1 .. position
    BY <1>2, <2>1
  <2>3. position' \in 0 .. Len(records) /\ committed' <= position'
    BY <1>2, <2>1
  <2>4. PassedKnown'
    BY <1>0, <2>1, <2>2, <2>3 DEF TopicInv, PassedKnown
  <2> QED
    BY <1>0, <1>1, <1>2, <2>1, <2>3, <2>4 DEF TopicInv, TopicTypes
<1> QED
  BY <1>3, <1>4, <1>5, <1>6, <1>7

LEMMA TopicStep ==
  ASSUME TopicInv, [Topic!Next]_topicVars
  PROVE  TopicInv'
<1>1. CASE UNCHANGED topicVars
  BY <1>1, ProducerKeeps DEF topicVars, TopicInv, TopicTypes, PassedKnown
<1> QED
  BY <1>1, SendBatchStep, DeliverStep, SendFailStep, PutOtherStep, ConsumerStep DEF Topic!Next

(***************************************************************************)
(* Whatever is lost, repeated or refused between the two ends of a topic,  *)
(* the events of a batch that send_batch accepts are in it, those of one   *)
(* that fails are so up to some point, and no record that the consumer has *)
(* passed is missing from its answers without an error or a stop           *)
(* (send_batch, poll_batch).                                               *)
(***************************************************************************)
THEOREM NothingLostSilently == ServicesSpec => []NoSilentLoss
<1>1. ServicesInit => TopicInv
  BY DEF ServicesInit, Topic!Init, TopicInv, TopicTypes, SenderInv, BatchNumbered, RecordsKnown,
         SuffixUnsent, AcceptedSent, PrefixSent, PassedKnown
<1>2. TopicInv /\ [ServicesNext]_servicesVars => TopicInv'
  BY OneStepsAtATime, TopicStep
<1>3. TopicInv => NoSilentLoss
  BY DEF TopicInv, SenderInv, AcceptedSent, PrefixSent, PassedKnown, NoSilentLoss,
         Topic!NoSilentLoss, Topic!Empty
<1> QED
  BY <1>1, <1>2, <1>3, PTL DEF ServicesSpec

-----------------------------------------------------------------------------
Failure == [config : Injector!FailureConfig, left : Nat, requests_affected : Nat]

InjectorTypes ==
  /\ DOMAIN active_failures \subseteq Targets
  /\ active_failures \in [DOMAIN active_failures -> Failure]
  /\ failure_history \in Seq(Injector!FailureConfig)
  /\ told \in [Targets -> [n : Nat, failed : Nat]]

(* LastInjected is inductive once the types are known.                       *)
InjectorInv == InjectorTypes /\ Injector!LastInjected

\* What LastInjected says of one failure.
Faithful(f, t, history, asked) ==
  /\ \E i \in DOMAIN history :
       /\ history[i] = f.config /\ f.config.target = t
       /\ \A j \in DOMAIN history : j > i => history[j].target # t
  /\ f.requests_affected = asked.n
  /\ f.config.failure_rate = "always" => asked.failed = f.requests_affected
  /\ f.config.failure_rate = "never" => asked.failed = 0

LEMMA LastInjectedSays ==
  /\ Injector!LastInjected <=>
       \A t \in DOMAIN active_failures : Faithful(active_failures[t], t, failure_history, told[t])
  /\ Injector!LastInjected' <=>
       \A t \in DOMAIN active_failures' : Faithful(active_failures'[t], t, failure_history', told'[t])
BY DEF Injector!LastInjected, Injector!LastFor, Faithful

LEMMA InjectStep ==
  ASSUME InjectorInv, Injector!Inject
  PROVE  InjectorInv'
<1>1. PICK config \in Injector!FailureConfig :
        /\ active_failures' = Injector!Inserted(active_failures, config)
        /\ failure_history' = Append(failure_history, config)
        /\ told' = [told EXCEPT ![config.target] = Injector!Untold]
  BY DEF Injector!Inject
<1> DEFINE t == config.target
           new == [config |-> config, left |-> config.duration, requests_affected |-> 0]
<1>2. t \in Targets /\ config.duration \in Nat
  BY TimeAssumption DEF Injector!FailureConfig
<1>3. /\ new \in Failure /\ new.config = config /\ new.requests_affected = 0
      /\ Injector!Untold \in [n : Nat, failed : Nat]
      /\ Injector!Untold.n = 0 /\ Injector!Untold.failed = 0
  BY <1>2 DEF Failure, Injector!Untold
<1> HIDE DEF new
<1>4. /\ DOMAIN active_failures' = DOMAIN active_failures \cup {t}
      /\ active_failures'[t] = new
      /\ \A u \in DOMAIN active_failures \ {t} : active_failures'[u] = active_failures[u]
      /\ active_failures' \in [DOMAIN active_failures' -> Failure]
  BY <1>1, <1>3 DEF Injector!Inserted, InjectorInv, InjectorTypes, new
<1>5. /\ told' \in [Targets -> [n : Nat, failed : Nat]]
      /\ told'[t] = Injector!Untold
      /\ \A u \in Targets \ {t} : told'[u] = told[u]
  BY <1>1, <1>2, <1>3 DEF InjectorInv, InjectorTypes
<1>6. /\ failure_history' \in Seq(Injector!FailureConfig)
      /\ Len(failure_history) \in Nat
      /\ DOMAIN failure_history = 1 .. Len(failure_history)
      /\ DOMAIN failure_history' = 1 .. Len(failure_history) + 1
      /\ failure_history'[Len(failure_history) + 1] = config
      /\ \A i \in DOMAIN failure_history : failure_history'[i] = failure_history[i]
  BY <1>1 DEF InjectorInv, InjectorTypes
<1>7. InjectorTypes'
  BY <1>2, <1>4, <1>5, <1>6 DEF InjectorInv, InjectorTypes
<1> HIDE DEF t
<1>8. Faithful(new, t, failure_history', told'[t])
  <2>1. \A j \in DOMAIN failure_history' : ~(j > Len(failure_history) + 1)
    BY <1>6
  <2>2. Len(failure_history) + 1 \in DOMAIN failure_history'
    BY <1>6
  <2> QED
    BY <1>3, <1>5, <1>6, <2>1, <2>2 DEF Faithful, t
<1>9. ASSUME NEW u \in DOMAIN active_failures, u # t
      PROVE  Faithful(active_failures[u], u, failure_history', told'[u])
  <2>1. Faithful(active_failures[u], u, failure_history, told[u]) /\ told'[u] = told[u]
    BY <1>5, <1>9, LastInjectedSays DEF InjectorInv, InjectorTypes
  <2>2. PICK i \in DOMAIN failure_history :
          /\ failure_history[i] = active_failures[u].config /\ active_failures[u].config.target = u
          /\ \A j \in DOMAIN failure_history : j > i => failure_history[j].target # u
    BY <2>1 DEF Faithful
  <2>3. i \in DOMAIN failure_history' /\ failure_history'[i] = active_failures[u].config
    BY <1>6, <2>2
  <2>4. \A j \in DOMAIN failure_history' : j > i => failure_history'[j].target # u
    <3> SUFFICES ASSUME NEW j \in DOMAIN failure_history', j > i
                 PROVE  failure_history'[j].target # u
      OBVIOUS
    <3>1. CASE j \in DOMAIN failure_history
      BY <1>6, <2>2, <3>1
    <3>2. CASE j = Len(failure_history) + 1
      BY <1>6, <1>9, <3>2 DEF t
    <3> QED
      BY <1>6, <3>1, <3>2
  <2> QED
    BY <2>1, <2>2, <2>3, <2>4 DEF Faithful
<1>10. Injector!LastInjected'
  BY <1>4, <1>8, <1>9, LastInjectedSays
<1> QED
  BY <1>7, <1>10 DEF InjectorInv

LEMMA ShouldFailStep ==
  ASSUME InjectorInv, NEW t \in Targets, Injector!ShouldFail(t)
  PROVE  InjectorInv'
<1> DEFINE f == active_failures[t]
           g == [f EXCEPT !.requests_affected = @ + 1]
<1>1. t \in DOMAIN active_failures
  BY DEF Injector!ShouldFail, Injector!IsFailureActive
<1>2. PICK fails \in BOOLEAN :
        /\ f.config.failure_rate = "always" => fails
        /\ f.config.failure_rate = "never" => ~fails
        /\ told' = [told EXCEPT ![t] =
                      [n |-> @.n + 1, failed |-> @.failed + (IF fails THEN 1 ELSE 0)]]
  BY DEF Injector!ShouldFail
<1>3. active_failures' = [active_failures EXCEPT ![t] = g] /\ failure_history' = failure_history
  BY DEF Injector!ShouldFail
<1>4. /\ f \in Failure /\ g \in Failure
      /\ g.config = f.config /\ g.requests_affected = f.requests_affected + 1
      /\ f.requests_affected \in Nat
  <2>1. f \in Failure
    BY <1>1 DEF InjectorInv, InjectorTypes
  <2> HIDE DEF f
  <2>2. f.requests_affected \in Nat /\ f.requests_affected + 1 \in Nat
    BY <2>1 DEF Failure
  <2> QED
    BY <2>1, <2>2 DEF Failure
<1>5. told[t] \in [n : Nat, failed : Nat]
  BY DEF InjectorInv, InjectorTypes
<1> DEFINE asked == [n |-> told[t].n + 1, failed |-> told[t].failed + (IF fails THEN 1 ELSE 0)]
<1>6. /\ asked \in [n : Nat, failed : Nat]
      /\ asked.n = told[t].n + 1
      /\ fails => asked.failed = told[t].failed + 1
      /\ ~fails => asked.failed = told[t].failed
  BY <1>5
<1>7. told' = [told EXCEPT ![t] = asked]
  BY <1>2
<1>8. Faithful(f, t, failure_history, told[t])
  BY <1>1, LastInjectedSays DEF InjectorInv
<1> HIDE DEF f, g, asked
<1>9. Faithful(g, t, failure_history, asked)
  BY <1>2, <1>4, <1>5, <1>6, <1>8 DEF Faithful
<1>10. /\ DOMAIN active_failures' = DOMAIN active_failures
       /\ active_failures'[t] = g /\ told'[t] = asked
       /\ \A u \in DOMAIN active_failures \ {t} :
            active_failures'[u] = active_failures[u] /\ told'[u] = told[u]
  BY <1>1, <1>3, <1>7 DEF InjectorInv, InjectorTypes
<1>11. InjectorTypes'
  BY <1>3, <1>4, <1>6, <1>7 DEF InjectorInv, InjectorTypes
<1>12. Injector!LastInjected'
  BY <1>3, <1>9, <1>10, LastInjectedSays DEF InjectorInv
<1> QED
  BY <1>11, <1>12 DEF InjectorInv

LEMMA InjectorStep ==
  ASSUME InjectorInv, [Injector!Next]_injectorVars
  PROVE  InjectorInv'
<1>1. ASSUME NEW gone \in SUBSET Targets, Injector!RemoveFailures(gone) PROVE InjectorInv'
  <2>1. /\ active_failures' = [t \in DOMAIN active_failures \ gone |-> active_failures[t]]
        /\ told' = [t \in Targets |-> IF t \in gone THEN Injector!Untold ELSE told[t]]
        /\ failure_history' = failure_history
    BY <1>1 DEF Injector!RemoveFailures
  <2>2. Injector!Untold \in [n : Nat, failed : Nat]
    BY DEF Injector!Untold
  <2>3. InjectorTypes'
    BY <2>1, <2>2 DEF InjectorInv, InjectorTypes
  <2>4. \A t \in DOMAIN active_failures' :
          t \in DOMAIN active_failures /\ active_failures'[t] = active_failures[t] /\ told'[t] = told[t]
    BY <2>1 DEF InjectorInv, InjectorTypes
  <2>5. Injector!LastInjected'
    BY <2>1, <2>4, LastInjectedSays DEF InjectorInv
  <2> QED
    BY <2>3, <2>5 DEF InjectorInv
<1>2. CASE Injector!Tick
  <2> DEFINE Later(t) == [active_failures[t] EXCEPT !.left = IF @ > 0 THEN @ - 1 ELSE 0]
  <2>1. /\ active_failures' = [t \in DOMAIN active_failures |-> Later(t)]
        /\ told' = told /\ failure_history' = failure_history
    BY <1>2 DEF Injector!Tick
  <2>2. ASSUME NEW t \in DOMAIN active_failures
        PROVE  /\ Later(t) \in Failure /\ Later(t).config = active_failures[t].config
               /\ Later(t).requests_affected = active_failures[t].requests_affected
    <3>1. active_failures[t] \in Failure
      BY DEF InjectorInv, InjectorTypes
    <3>2. active_failures[t].left \in Nat
      BY <3>1 DEF Failure
    <3>3. (IF active_failures[t].left > 0 THEN active_failures[t].left - 1 ELSE 0) \in Nat
      BY <3>2
    <3> QED
      BY <3>1, <3>3 DEF Failure
  <2> HIDE DEF Later
  <2>3. InjectorTypes'
    BY <2>1, <2>2 DEF InjectorInv, InjectorTypes
  <2>4. Injector!LastInjected'
    <3>1. ASSUME NEW t \in DOMAIN active_failures
          PROVE  Faithful(active_failures'[t], t, failure_history', told'[t])
      <4>1. Faithful(active_failures[t], t, failure_history, told[t])
        BY LastInjectedSays DEF InjectorInv
      <4> QED
        BY <2>1, <2>2, <4>1 DEF Faithful
    <3> QED
      BY <2>1, <3>1, LastInjectedSays
  <2> QED
    BY <2>3, <2>4 DEF InjectorInv
<1>3. CASE UNCHANGED injectorVars
  BY <1>3, LastInjectedSays DEF injectorVars, InjectorInv, InjectorTypes
<1>4. CASE Injector!Inject
  BY <1>4, InjectStep
<1>5. ASSUME NEW t \in Targets, Injector!ShouldFail(t) PROVE InjectorInv'
  BY <1>5, ShouldFailStep
<1>6. Targets \in SUBSET Targets /\ \A t \in Targets : {t} \in SUBSET Targets
  OBVIOUS
<1> QED
  BY <1>1, <1>2, <1>3, <1>4, <1>5, <1>6 DEF Injector!Next

-----------------------------------------------------------------------------
(***************************************************************************)
(* The invariant of the simulator.  A thread in the middle of clear_all or *)
(* get_condition keeps the first mutex, so that nobody gives a condition   *)
(* to the target that was found without one; and what holds at the moment  *)
(* is among what was seen during the call.                                 *)
(***************************************************************************)
SimulatorTypes ==
  /\ call \in [Threads -> {"idle", "clear_all", "get_condition", "get_latency"}]
  /\ DOMAIN said = Threads /\ DOMAIN target = Threads
  /\ DOMAIN truth = Threads /\ DOMAIN globals = Threads

FirstLockKept ==
  \A p \in Threads : call[p] \in {"clear_all", "get_condition"} => states_lock = {p}

StillWithout ==
  \A p \in Threads : call[p] = "get_condition" => target[p] \notin DOMAIN states

SeenNow ==
  \A p \in Threads : call[p] \in Simulator!Asks =>
    Simulator!InForce(target[p]) \in truth[p] /\ Simulator!Global \in globals[p]

SimulatorInv == SimulatorTypes /\ FirstLockKept /\ StillWithout /\ SeenNow

LEMMA ObserveSees ==
  ASSUME Simulator!Observe
  PROVE  SeenNow' /\ DOMAIN truth' = Threads /\ DOMAIN globals' = Threads
BY DEF Simulator!Observe, Simulator!Seen, SeenNow, Simulator!Asks

(* A step within one critical section of the first mutex, or that only       *)
(* takes the second.                                                         *)
LEMMA OutsideStep ==
  ASSUME SimulatorInv, Simulator!Observe, UNCHANGED <<states_lock, call, target>>,
         states_lock = {} \/ DOMAIN states' = DOMAIN states, DOMAIN said' = DOMAIN said
  PROVE  SimulatorInv'
<1>1. SeenNow' /\ DOMAIN truth' = Threads /\ DOMAIN globals' = Threads
  BY ObserveSees
<1>2. StillWithout'
  BY DEF SimulatorInv, FirstLockKept, StillWithout
<1> QED
  BY <1>1, <1>2 DEF SimulatorInv, SimulatorTypes, FirstLockKept

LEMMA AskStep ==
  ASSUME SimulatorInv, NEW p \in Threads, Simulator!Ask(p)
  PROVE  SimulatorInv'
<1>1. PICK t \in Targets \ DOMAIN states, ask \in Simulator!Asks :
        /\ call' = [call EXCEPT ![p] = ask]
        /\ target' = [target EXCEPT ![p] = t]
        /\ states_lock' = IF Simulator!Keeps(ask) THEN {p} ELSE {}
        /\ truth' = [truth EXCEPT ![p] = {Simulator!InForce(t)}]
        /\ globals' = [globals EXCEPT ![p] = {Simulator!Global}]
  BY DEF Simulator!Ask
<1>2. /\ states_lock = {} /\ call[p] = "idle"
      /\ states' = states /\ global_condition' = global_condition /\ said' = said
  BY DEF Simulator!Ask
<1>3. /\ call'[p] = ask /\ target'[p] = t
      /\ truth'[p] = {Simulator!InForce(t)} /\ globals'[p] = {Simulator!Global}
      /\ \A q \in Threads \ {p} : /\ call'[q] = call[q] /\ target'[q] = target[q]
                                  /\ truth'[q] = truth[q] /\ globals'[q] = globals[q]
  BY <1>1 DEF SimulatorInv, SimulatorTypes
<1>4. \A q \in Threads : call[q] \notin {"clear_all", "get_condition"}
  BY <1>2 DEF SimulatorInv, FirstLockKept
<1>5. ask \in {"get_condition", "get_latency"}
  BY <1>1 DEF Simulator!Asks
<1>6. SimulatorTypes'
  BY <1>1, <1>2, <1>5 DEF SimulatorInv, SimulatorTypes
<1>7. FirstLockKept'
  BY <1>1, <1>3, <1>4, <1>5 DEF FirstLockKept, Simulator!Keeps
<1>8. StillWithout'
  BY <1>2, <1>3, <1>4 DEF StillWithout
<1>9. Simulator!Global' = Simulator!Global /\ \A u : Simulator!InForce(u)' = Simulator!InForce(u)
  BY <1>2 DEF Simulator!Global, Simulator!InForce, Simulator!Own
<1>10. SeenNow'
  <2> SUFFICES ASSUME NEW q \in Threads, call'[q] \in Simulator!Asks
               PROVE  Simulator!InForce(target[q])' \in truth'[q] /\ Simulator!Global' \in globals'[q]
    BY DEF SeenNow, Simulator!Asks
  <2>1. Simulator!InForce(target[q])' = Simulator!InForce(target'[q])
    BY <1>2 DEF Simulator!InForce, Simulator!Own, Simulator!Global
  <2>2. CASE q = p
    BY <1>3, <1>9, <2>1, <2>2
  <2>3. CASE q # p
    BY <1>3, <1>9, <2>1, <2>3 DEF SimulatorInv, SeenNow
  <2> QED
    BY <2>2, <2>3
<1> QED
  BY <1>6, <1>7, <1>8, <1>10 DEF SimulatorInv

LEMMA SimulatorStep ==
  ASSUME SimulatorInv, [Simulator!Next]_simulatorVars
  PROVE  SimulatorInv'
<1>1. ASSUME NEW t \in Targets, Simulator!SetCondition(t) \/ Simulator!ClearCondition(t)
      PROVE  SimulatorInv'
  BY <1>1, OutsideStep DEF Simulator!SetCondition, Simulator!ClearCondition
<1>2. CASE Simulator!SetGlobalCondition
  BY <1>2, OutsideStep DEF Simulator!SetGlobalCondition
<1>3. CASE Simulator!Tick
  <2>1. DOMAIN states' = DOMAIN states
    BY <1>3 DEF Simulator!Tick
  <2> QED
    BY <1>3, <2>1, OutsideStep DEF Simulator!Tick
<1>4. ASSUME NEW p \in Threads, Simulator!AnswerOwn(p) PROVE SimulatorInv'
  <2>1. DOMAIN said' = DOMAIN said
    BY <1>4 DEF Simulator!AnswerOwn
  <2> QED
    BY <1>4, <2>1, OutsideStep DEF Simulator!AnswerOwn
<1>5. ASSUME NEW p \in Threads, Simulator!ClearAll(p) PROVE SimulatorInv'
  <2>1. /\ states_lock = {} /\ states_lock' = {p} /\ DOMAIN states' = {}
        /\ call' = [call EXCEPT ![p] = "clear_all"]
        /\ target' = target /\ said' = said
        /\ Simulator!Observe
    BY <1>5 DEF Simulator!ClearAll
  <2>2. call'[p] = "clear_all" /\ \A q \in Threads \ {p} : call'[q] = call[q]
    BY <2>1 DEF SimulatorInv, SimulatorTypes
  <2>3. SeenNow' /\ DOMAIN truth' = Threads /\ DOMAIN globals' = Threads
    BY <2>1, ObserveSees
  <2>4. SimulatorTypes'
    BY <2>1, <2>3 DEF SimulatorInv, SimulatorTypes
  <2>5. FirstLockKept' /\ StillWithout'
    BY <2>1, <2>2 DEF SimulatorInv, FirstLockKept, StillWithout
  <2> QED
    BY <2>3, <2>4, <2>5 DEF SimulatorInv
<1>6. ASSUME NEW p \in Threads, Simulator!ClearAllGlobal(p) \/ Simulator!AnswerGlobal(p)
      PROVE  SimulatorInv'
  <2>1. /\ states' = states /\ target' = target /\ DOMAIN said' = DOMAIN said
        /\ call' = [call EXCEPT ![p] = "idle"]
        /\ Simulator!Observe
    BY <1>6 DEF Simulator!ClearAllGlobal, Simulator!AnswerGlobal
  <2>2. \/ states_lock' = {} /\ call[p] = "clear_all"
        \/ states_lock' = states_lock \ {p}
    BY <1>6 DEF Simulator!ClearAllGlobal, Simulator!AnswerGlobal
  <2>3. call'[p] = "idle" /\ \A q \in Threads \ {p} : call'[q] = call[q]
    BY <2>1 DEF SimulatorInv, SimulatorTypes
  <2>4. SeenNow' /\ DOMAIN truth' = Threads /\ DOMAIN globals' = Threads
    BY <2>1, ObserveSees
  <2>5. SimulatorTypes'
    BY <2>1, <2>4 DEF SimulatorInv, SimulatorTypes
  <2>6. FirstLockKept'
    <3> SUFFICES ASSUME NEW q \in Threads, call'[q] \in {"clear_all", "get_condition"}
                 PROVE  states_lock' = {q}
      BY DEF FirstLockKept
    <3>1. q # p /\ states_lock = {q}
      BY <2>3 DEF SimulatorInv, FirstLockKept
    <3>2. call[p] # "clear_all"
      BY <3>1 DEF SimulatorInv, FirstLockKept
    <3> QED
      BY <2>2, <3>1, <3>2
  <2>7. StillWithout'
    BY <2>1, <2>3 DEF SimulatorInv, StillWithout
  <2> QED
    BY <2>4, <2>5, <2>6, <2>7 DEF SimulatorInv
<1>7. ASSUME NEW p \in Threads, Simulator!Ask(p) PROVE SimulatorInv'
  BY <1>7, AskStep
<1>8. CASE UNCHANGED simulatorVars
  BY <1>8 DEF simulatorVars, SimulatorInv, SimulatorTypes, FirstLockKept, StillWithout, SeenNow,
              Simulator!InForce, Simulator!Own, Simulator!Global
<1> QED
  BY <1>1, <1>2, <1>3, <1>4, <1>5, <1>6, <1>7, <1>8 DEF Simulator!Next

(* Only the second step of a call that asks ends it.                         *)
LEMMA AnswerSeen ==
  ASSUME SimulatorInv, [Simulator!Next]_simulatorVars,
         NEW p \in Threads, call[p] \in Simulator!Asks, call'[p] = "idle"
  PROVE  said'[p] \in IF call[p] = "get_condition" THEN truth[p] ELSE globals[p]
<1>1. call[p] \in {"get_condition", "get_latency"}
  BY DEF Simulator!Asks
<1>2. Simulator!AnswerGlobal(p)
  <2>1. ASSUME NEW q \in Threads, q # p, call' = [call EXCEPT ![q] = "idle"] PROVE FALSE
    BY <1>1, <2>1 DEF SimulatorInv, SimulatorTypes
  <2>2. call' # call
    BY <1>1
  <2>3. ASSUME NEW q \in Threads, Simulator!ClearAllGlobal(q) PROVE FALSE
    BY <1>1, <2>1, <2>3 DEF Simulator!ClearAllGlobal
  <2>4. ASSUME NEW q \in Threads, Simulator!ClearAll(q) PROVE FALSE
    BY <1>1, <2>4 DEF Simulator!ClearAll, SimulatorInv, SimulatorTypes
  <2>5. ASSUME NEW q \in Threads, Simulator!Ask(q) PROVE FALSE
    BY <1>1, <2>5 DEF Simulator!Ask, Simulator!Asks, SimulatorInv, SimulatorTypes
  <2>6. ASSUME NEW q \in Threads, Simulator!AnswerGlobal(q) PROVE q = p
    BY <2>1, <2>6 DEF Simulator!AnswerGlobal
  <2> QED
    BY <2>2, <2>3, <2>4, <2>5, <2>6
    DEF Simulator!Next, Simulator!Tick, Simulator!SetGlobalCondition, Simulator!SetCondition,
        Simulator!ClearCondition, Simulator!AnswerOwn, simulatorVars
<1>3. said'[p] = Simulator!Global
  BY <1>2 DEF Simulator!AnswerGlobal, SimulatorInv, SimulatorTypes
<1>4. /\ Simulator!InForce(target[p]) \in truth[p] /\ Simulator!Global \in globals[p]
      /\ call[p] = "get_condition" => target[p] \notin DOMAIN states
  BY DEF SimulatorInv, SeenNow, StillWithout
<1> QED
  BY <1>3, <1>4 DEF Simulator!InForce

(***************************************************************************)
(* The failure a target has is the last injected for it, with a count of   *)
(* its own; and get_condition tells a condition that its target had during *)
(* the call, however the two mutexes of the simulator are taken and        *)
(* released (inject, should_fail, get_condition, get_latency).             *)
(***************************************************************************)
THEOREM FaultsAsTold == ServicesSpec => FaultsInForce
<1>1. ServicesInit => InjectorInv /\ SimulatorInv
  BY DEF ServicesInit, Injector!Init, InjectorInv, InjectorTypes, Injector!LastInjected,
         Injector!Untold, Simulator!Init, SimulatorInv, SimulatorTypes, FirstLockKept,
         StillWithout, SeenNow, Simulator!Asks
<1>2. InjectorInv /\ [ServicesNext]_servicesVars => InjectorInv'
  BY OneStepsAtATime, InjectorStep
<1>3. SimulatorInv /\ [ServicesNext]_servicesVars => SimulatorInv'
  BY OneStepsAtATime, SimulatorStep
<1>4. InjectorInv => Injector!LastInjected
  BY DEF InjectorInv
<1>5. SimulatorInv /\ [ServicesNext]_servicesVars =>
        [\A p \in Threads : call[p] \in Simulator!Asks /\ call'[p] = "idle" =>
           said'[p] \in IF call[p] = "get_condition" THEN truth[p] ELSE globals[p]]_(Simulator!vars)
  BY OneStepsAtATime, AnswerSeen
<1> QED
  BY <1>1, <1>2, <1>3, <1>4, <1>5, PTL
  DEF ServicesSpec, FaultsInForce, Simulator!ConditionCurrent

-----------------------------------------------------------------------------
Probe == [ready : BOOLEAN, consecutive_failures : Nat]

ProbingTypes ==
  /\ age \in Nat
  /\ probes \in [DOMAIN probes -> Probe]
  /\ doing \in [Threads -> {"idle", "is_starting", "probes"}]
  /\ DOMAIN reply = Threads

(***************************************************************************)
(* The invariant of the readiness checker.  What is the case at the moment *)
(* has been met in every call under way, and a call that found the service *)
(* starting has met that, too.                                             *)
(***************************************************************************)
FailuresTold == \A n \in DOMAIN probes : probes[n].consecutive_failures > 0 => ~probes[n].ready

FactsMet == \A t \in Threads : doing[t] # "idle" => Probing!Facts \subseteq met[t]

FoundStarting == \A t \in Threads : doing[t] = "is_starting" => "starting" \in met[t]

ProbingInv == ProbingTypes /\ FailuresTold /\ FactsMet /\ FoundStarting

LEMMA ObserveMeets ==
  ASSUME Probing!Observe
  PROVE  /\ FactsMet'
         /\ \A t \in Threads : doing[t] # "idle" /\ doing'[t] # "idle" => met[t] \subseteq met'[t]
         /\ \A t \in Threads : doing[t] = "idle" /\ doing'[t] # "idle" => Probing!Facts \subseteq met'[t]
BY DEF Probing!Observe, FactsMet

(* The parts of the service report, or time passes.                          *)
LEMMA ReportStep ==
  ASSUME ProbingInv, Probing!Observe, UNCHANGED <<doing, reply>>, age' \in Nat,
         probes' \in [DOMAIN probes' -> Probe],
         \A n \in DOMAIN probes' :
           \/ n \in DOMAIN probes /\ probes'[n] = probes[n]
           \/ probes'[n].consecutive_failures = 0
           \/ ~probes'[n].ready
  PROVE  ProbingInv'
<1>1. FactsMet'
  BY ObserveMeets
<1>2. FoundStarting'
  BY ObserveMeets DEF ProbingInv, FoundStarting
<1>3. FailuresTold'
  <2> SUFFICES ASSUME NEW n \in DOMAIN probes', probes'[n].consecutive_failures > 0
               PROVE  ~probes'[n].ready
    BY DEF FailuresTold
  <2>1. CASE n \in DOMAIN probes /\ probes'[n] = probes[n]
    BY <2>1 DEF ProbingInv, FailuresTold
  <2>2. probes'[n].consecutive_failures # 0
    OBVIOUS
  <2> QED
    BY <2>1, <2>2
<1>4. ProbingTypes'
  BY DEF ProbingInv, ProbingTypes
<1> QED
  BY <1>1, <1>2, <1>3, <1>4 DEF ProbingInv

LEMMA ProbingStep ==
  ASSUME ProbingInv, [Probing!Next]_probingVars
  PROVE  ProbingInv'
<1>0. age \in Nat /\ \A n \in DOMAIN probes : probes[n] \in Probe
  BY DEF ProbingInv, ProbingTypes
<1>1. CASE Probing!Tick
  BY <1>0, <1>1, ReportStep DEF Probing!Tick, ProbingInv, ProbingTypes
<1>2. CASE Probing!ClearProbes
  BY <1>0, <1>2, ReportStep DEF Probing!ClearProbes, Probing!Report
<1>3. ASSUME NEW n \in Names, Probing!RegisterProbe(n) \/ Probing!SetReady(n) \/ Probing!SetNotReady(n)
      PROVE  ProbingInv'
  <2>1. /\ UNCHANGED <<age, doing, reply>> /\ Probing!Observe
        /\ \/ probes' = [m \in DOMAIN probes \cup {n} |->
                           IF m = n THEN [ready |-> FALSE, consecutive_failures |-> 0] ELSE probes[m]]
           \/ probes' = [probes EXCEPT ![n] = [ready |-> TRUE, consecutive_failures |-> 0]]
           \/ /\ n \in DOMAIN probes
              /\ probes' = [probes EXCEPT ![n] =
                   [ready |-> FALSE, consecutive_failures |-> probes[n].consecutive_failures + 1]]
    BY <1>3 DEF Probing!RegisterProbe, Probing!SetReady, Probing!SetNotReady, Probing!Report
  <2>2. PICK new \in Probe :
          /\ new.consecutive_failures = 0 \/ ~new.ready
          /\ \/ probes' = [m \in DOMAIN probes \cup {n} |-> IF m = n THEN new ELSE probes[m]]
             \/ probes' = [probes EXCEPT ![n] = new]
    <3> DEFINE again == [ready |-> FALSE, consecutive_failures |-> 0]
               well == [ready |-> TRUE, consecutive_failures |-> 0]
               worse == [ready |-> FALSE, consecutive_failures |-> probes[n].consecutive_failures + 1]
    <3>1. again \in Probe /\ well \in Probe /\ (n \in DOMAIN probes => worse \in Probe)
      BY <1>0 DEF Probe
    <3>2. again.consecutive_failures = 0 /\ well.consecutive_failures = 0 /\ ~worse.ready
      OBVIOUS
    <3>3. \/ probes' = [m \in DOMAIN probes \cup {n} |-> IF m = n THEN again ELSE probes[m]]
          \/ probes' = [probes EXCEPT ![n] = well]
          \/ n \in DOMAIN probes /\ probes' = [probes EXCEPT ![n] = worse]
      BY <2>1
    <3> HIDE DEF again, well, worse
    <3> QED
      BY <3>1, <3>2, <3>3
  <2>3. /\ probes' \in [DOMAIN probes' -> Probe]
        /\ \A m \in DOMAIN probes' :
             \/ m \in DOMAIN probes /\ probes'[m] = probes[m]
             \/ probes'[m].consecutive_failures = 0
             \/ ~probes'[m].ready
    BY <1>0, <2>2
  <2> QED
    BY <1>0, <2>1, <2>3, ReportStep
<1>4. ASSUME NEW t \in Threads, Probing!Ask(t) PROVE ProbingInv'
  <2>1. /\ doing[t] = "idle" /\ UNCHANGED <<age, probes>> /\ Probing!Observe
        /\ DOMAIN reply' = DOMAIN reply
        /\ \/ doing' = doing
           \/ Probing!IsStarting /\ doing' = [doing EXCEPT ![t] = "is_starting"]
           \/ doing' = [doing EXCEPT ![t] = "probes"]
    BY <1>4 DEF Probing!Ask
  <2>2. \A u \in Threads \ {t} : doing'[u] = doing[u]
    BY <2>1 DEF ProbingInv, ProbingTypes
  <2>3. doing'[t] = "is_starting" => Probing!IsStarting
    BY <2>1 DEF ProbingInv, ProbingTypes
  <2>4. FoundStarting'
    <3> SUFFICES ASSUME NEW u \in Threads, doing'[u] = "is_starting"
                 PROVE  "starting" \in met'[u]
      BY DEF FoundStarting
    <3>1. CASE u = t
      BY <2>1, <2>3, <3>1, ObserveMeets DEF Probing!Facts
    <3>2. CASE u # t
      BY <2>1, <2>2, <3>2, ObserveMeets DEF ProbingInv, FoundStarting
    <3> QED
      BY <3>1, <3>2
  <2>5. FactsMet'
    BY <2>1, ObserveMeets
  <2>6. ProbingTypes' /\ FailuresTold'
    BY <2>1 DEF ProbingInv, ProbingTypes, FailuresTold
  <2> QED
    BY <2>4, <2>5, <2>6 DEF ProbingInv
<1>5. ASSUME NEW t \in Threads, Probing!AnswerStarting(t) \/ Probing!AnswerProbes(t)
      PROVE  ProbingInv'
  <2>1. /\ doing' = [doing EXCEPT ![t] = "idle"]
        /\ DOMAIN reply' = DOMAIN reply
        /\ UNCHANGED <<age, probes>> /\ Probing!Observe
    BY <1>5 DEF Probing!AnswerStarting, Probing!AnswerProbes, Probing!Answer
  <2>2. doing'[t] = "idle" /\ \A u \in Threads \ {t} : doing'[u] = doing[u]
    BY <2>1 DEF ProbingInv, ProbingTypes
  <2>3. FoundStarting'
    BY <2>1, <2>2, ObserveMeets DEF ProbingInv, FoundStarting
  <2>4. FactsMet'
    BY <2>1, ObserveMeets
  <2>5. ProbingTypes' /\ FailuresTold'
    BY <2>1 DEF ProbingInv, ProbingTypes, FailuresTold
  <2> QED
    BY <2>3, <2>4, <2>5 DEF ProbingInv
<1>6. CASE UNCHANGED probingVars
  BY <1>6 DEF probingVars, ProbingInv, ProbingTypes, FailuresTold, FactsMet, FoundStarting,
              Probing!Facts, Probing!IsStarting
<1> QED
  BY <1>1, <1>2, <1>3, <1>4, <1>5, <1>6 DEF Probing!Next

(* The second step of a call answers by what was the case during the call.   *)
LEMMA AnswerMet ==
  ASSUME ProbingInv, [Probing!Next]_probingVars,
         NEW t \in Threads, doing[t] # "idle", doing'[t] = "idle"
  PROVE  IF reply'[t] = "Ready" THEN met[t] \cap {"starting", "all ready"} # {}
         ELSE "one not ready" \in met[t] \/ {"starting", "started"} \subseteq met[t]
<1>1. Probing!AnswerStarting(t) \/ Probing!AnswerProbes(t)
  <2>1. doing' # doing
    OBVIOUS
  <2>2. ASSUME NEW u \in Threads, Probing!Ask(u) PROVE FALSE
    BY <2>1, <2>2 DEF Probing!Ask, ProbingInv, ProbingTypes
  <2>3. ASSUME NEW u \in Threads, Probing!AnswerStarting(u) \/ Probing!AnswerProbes(u) PROVE u = t
    BY <2>3 DEF Probing!AnswerStarting, Probing!AnswerProbes, Probing!Answer, ProbingInv, ProbingTypes
  <2> QED
    BY <2>1, <2>2, <2>3
    DEF Probing!Next, Probing!Tick, Probing!ClearProbes, Probing!RegisterProbe, Probing!SetReady,
        Probing!SetNotReady, Probing!Report, probingVars
<1>2. Probing!Facts \subseteq met[t] /\ (doing[t] = "is_starting" => "starting" \in met[t])
  BY DEF ProbingInv, FactsMet, FoundStarting
<1>3. CASE Probing!AnswerStarting(t)
  <2>1. reply'[t] = IF Probing!IsStarting THEN "Ready" ELSE "NotReady"
    BY <1>3 DEF Probing!AnswerStarting, Probing!Answer, ProbingInv, ProbingTypes
  <2>2. "starting" \in met[t]
    BY <1>2, <1>3 DEF Probing!AnswerStarting
  <2>3. ~Probing!IsStarting => "started" \in met[t]
    BY <1>2 DEF Probing!Facts
  <2> QED
    BY <2>1, <2>2, <2>3
<1>4. CASE Probing!AnswerProbes(t)
  <2>1. reply'[t] = IF Probing!AllReady THEN "Ready" ELSE "NotReady"
    BY <1>4 DEF Probing!AnswerProbes, Probing!Answer, ProbingInv, ProbingTypes
  <2>2. (IF Probing!AllReady THEN "all ready" ELSE "one not ready") \in met[t]
    BY <1>2 DEF Probing!Facts, Probing!AllReady
  <2> QED
    BY <2>1, <2>2
<1> QED
  BY <1>1, <1>3, <1>4

-----------------------------------------------------------------------------
EndpointInv == components \in [DOMAIN components -> Endpoint!HealthStatus]

LEMMA EndpointStep ==
  ASSUME EndpointInv, [Endpoint!Next]_components
  PROVE  EndpointInv'
<1>1. ASSUME NEW n \in Names, NEW status \in Endpoint!HealthStatus,
             Endpoint!UpdateComponent(n, status)
      PROVE  EndpointInv'
  BY <1>1 DEF Endpoint!UpdateComponent, EndpointInv
<1>2. "Healthy" \in Endpoint!HealthStatus
  BY DEF Endpoint!HealthStatus
<1>3. CASE UNCHANGED components
  BY <1>3 DEF EndpointInv
<1> QED
  BY <1>1, <1>2, <1>3 DEF Endpoint!Next, Endpoint!RegisterComponent

(* The largest rank is that of the worst status some component has.          *)
LEMMA WorstIsLargest == EndpointInv => Endpoint!WorstReported
<1> SUFFICES ASSUME EndpointInv PROVE Endpoint!WorstReported
  OBVIOUS
<1> DEFINE ranks == {0} \cup {Endpoint!Rank[components[n]] : n \in DOMAIN components}
<1>1. /\ Endpoint!Rank["Healthy"] = 0 /\ Endpoint!Rank["Degraded"] = 1
      /\ Endpoint!Rank["Unhealthy"] = 2
  BY DEF Endpoint!Rank
<1>2. \A n \in DOMAIN components : components[n] \in {"Healthy", "Degraded", "Unhealthy"}
  BY DEF EndpointInv, Endpoint!HealthStatus
<1>3. /\ ranks \subseteq {0, 1, 2} /\ 0 \in ranks
      /\ 2 \in ranks <=> Endpoint!Has("Unhealthy")
      /\ 1 \in ranks <=> Endpoint!Has("Degraded")
  BY <1>1, <1>2 DEF Endpoint!Has
<1> DEFINE rank == Endpoint!Rank[Endpoint!OverallStatus]
<1>4. /\ Endpoint!Has("Unhealthy") => rank = 2
      /\ ~Endpoint!Has("Unhealthy") /\ Endpoint!Has("Degraded") => rank = 1
      /\ ~Endpoint!Has("Unhealthy") /\ ~Endpoint!Has("Degraded") => rank = 0
      /\ Endpoint!IsHealthy = (rank < 2)
  BY <1>1 DEF Endpoint!OverallStatus, Endpoint!IsHealthy
<1> HIDE DEF ranks, rank
<1>5. rank \in ranks /\ \A r \in ranks : rank >= r
  BY <1>3, <1>4
<1>6. \A r \in ranks : (\A q \in ranks : r >= q) => r = rank
  BY <1>3, <1>5
<1>7. rank = Endpoint!Max(ranks)
  BY <1>5, <1>6 DEF Endpoint!Max
<1> QED
  BY <1>4, <1>7 DEF Endpoint!WorstReported, rank, ranks

(***************************************************************************)
(* What an orchestrator hears has a reason: is_ready answers by what was   *)
(* the case at some moment of the call, and get_health tells the worst of  *)
(* the components (is_ready, state, get_health).                           *)
(***************************************************************************)
THEOREM ProbesJustified == ServicesSpec => ProbesHonest
<1>1. ServicesInit => ProbingInv /\ EndpointInv
  BY DEF ServicesInit, Probing!Init, ProbingInv, ProbingTypes, FailuresTold, FactsMet,
         FoundStarting, Endpoint!Init, EndpointInv
<1>2. ProbingInv /\ [ServicesNext]_servicesVars => ProbingInv'
  BY OneStepsAtATime, ProbingStep
<1>3. EndpointInv /\ [ServicesNext]_servicesVars => EndpointInv'
  BY OneStepsAtATime, EndpointStep
<1>4. EndpointInv => Endpoint!WorstReported
  BY WorstIsLargest
<1>5. ProbingInv /\ ProbingInv' /\ [ServicesNext]_servicesVars =>
        [ /\ \A t \in Threads : doing[t] # "idle" /\ doing'[t] = "idle" =>
               IF reply'[t] = "Ready" THEN met[t] \cap {"starting", "all ready"} # {}
               ELSE "one not ready" \in met[t] \/ {"starting", "started"} \subseteq met[t]
          /\ \A n \in DOMAIN probes' :
               probes'[n].consecutive_failures > 0 => ~probes'[n].ready ]_(Probing!vars)
  BY OneStepsAtATime, AnswerMet DEF ProbingInv, FailuresTold
<1> QED
  BY <1>1, <1>2, <1>3, <1>4, <1>5, PTL
  DEF ServicesSpec, ProbesHonest, Probing!AnswersJustified
===============================================================================
