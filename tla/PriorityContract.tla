--------------------------- MODULE PriorityContract ---------------------------
(***************************************************************************)
(* What PriorityQueue promises, without heap or sequence numbers: one      *)
(* first-in-first-out lane per priority, and an item is taken from the     *)
(* highest lane that is not empty.  Items are numbered as they arrive, so  *)
(* the oldest of a lane is the least.                                      *)
(***************************************************************************)
EXTENDS Naturals, SequencesExt

CONSTANTS
  Priorities,    \* numbers, the larger the more urgent
  MaxItems       \* bound on the number of items

VARIABLES
  lanes,     \* per priority: the waiting items
  arrived,   \* number of items so far
  answer     \* the items the latest operation has returned; <<0>> if busy

laneVars == <<lanes, arrived, answer>>

Init ==
  /\ lanes = [p \in Priorities |-> {}]
  /\ arrived = 0
  /\ answer = <<>>

Put(p) ==
  /\ arrived < MaxItems
  /\ arrived' = arrived + 1
  /\ lanes' = [lanes EXCEPT ![p] = @ \cup {arrived + 1}]
  /\ answer' = <<>>

Waiting == {p \in Priorities : lanes[p] # {}}

Take ==
  \E p \in Waiting :
    /\ \A q \in Waiting : q <= p
    /\ \E item \in lanes[p] :
         /\ \A other \in lanes[p] : item <= other
         /\ lanes' = [lanes EXCEPT ![p] = @ \ {item}]
         /\ answer' = <<item>>
    /\ UNCHANGED arrived

\* Nothing is returned by an empty queue, and by one that somebody else uses.
TakeNothing == Waiting = {} /\ answer' = <<>> /\ UNCHANGED <<lanes, arrived>>

Busy == answer' = <<0>> /\ UNCHANGED <<lanes, arrived>>

\* a is to be taken before b.
Sooner(a, b) ==
  \E p, q \in Priorities : a \in lanes[p] /\ b \in lanes[q] /\ (p > q \/ (p = q /\ a < b))

\* All lanes, the most urgent first.
TakeAll ==
  /\ answer' \in Seq(Nat) /\ ToSet(answer') = UNION {lanes[p] : p \in Priorities}
  /\ \A i, j \in DOMAIN answer' : i < j => Sooner(answer'[i], answer'[j])
  /\ lanes' = [p \in Priorities |-> {}]
  /\ UNCHANGED arrived

Drop ==
  /\ lanes' = [p \in Priorities |-> {}]
  /\ answer' = <<>>
  /\ UNCHANGED arrived

Next ==
  (\E p \in Priorities : Put(p)) \/ Take \/ TakeNothing \/ Busy \/ TakeAll \/ Drop

Spec == Init /\ [][Next]_laneVars
===============================================================================
