-------------------------- MODULE EventPublisherProofs --------------------------
(***************************************************************************)
(* Theorems about EventPublisher, for any number of threads and any sizes  *)
(* of the buffer and the queue.                                            *)
(***************************************************************************)
EXTENDS EventPublisher, SequenceTheorems, FiniteSetTheorems, TLAPS

(***************************************************************************)
(* The invariant.  An event waits in the buffer or in the batch of a       *)
(* flush.  While a flush holds the buffer it is empty and there is no      *)
(* other flush; batches that publish has let go of were drained earlier    *)
(* and so hold only older events than those that wait; and only events of  *)
(* publish_batch can be in the queue before one of them and be younger.    *)
(***************************************************************************)
Increasing(s) == \A i, j \in DOMAIN s : i < j => s[i] < s[j]

Waiting == ToSet(buffer) \cup UNION {ToSet(batch[t]) : t \in {u \in Threads : pc[u] = "flush"}}

Locking ==
  \A t \in Threads :
    /\ pc[t] = "idle" => batch[t] = <<>>
    /\ pc[t] = "flush" => buffer = <<>> /\ \A u \in Threads : pc[u] = "flush" => u = t

Ordering ==
  /\ Increasing(buffer)
  /\ \A t \in Threads : Increasing(batch[t])
  /\ \A t \in Threads : pc[t] = "deliver" =>
       \A x \in ToSet(batch[t]) : x \in loose /\ \A e \in Waiting : x < e
  /\ \A e \in Waiting, x \in ToSet(inner) : x > e => x \in direct

PublisherInv == EachInOnePlace /\ BufferBelowSize /\ Locking /\ Ordering /\ FlushKeepsOrder
-----------------------------------------------------------------------------
(* What sequences hold. *)
LEMMA Holds ==
  ASSUME NEW S, NEW s \in Seq(S)
  PROVE  /\ \A x : x \in ToSet(s) <=> \E i \in 1 .. Len(s) : s[i] = x
         /\ DOMAIN s = 1 .. Len(s)
         /\ ToSet(s) \subseteq S
BY DEF ToSet

LEMMA HoldsAfterAppend ==
  ASSUME NEW S, NEW s \in Seq(S), NEW x \in S
  PROVE  /\ Append(s, x) \in Seq(S)
         /\ ToSet(Append(s, x)) = ToSet(s) \cup {x}
<1>1. Append(s, x) \in Seq(S) /\ Len(Append(s, x)) = Len(s) + 1 /\ Len(s) \in Nat
  OBVIOUS
<1>2. \A i \in 1 .. Len(s) + 1 : Append(s, x)[i] = IF i = Len(s) + 1 THEN x ELSE s[i]
  OBVIOUS
<1>3. /\ \A y : y \in ToSet(s) <=> \E i \in 1 .. Len(s) : s[i] = y
      /\ \A y : y \in ToSet(Append(s, x)) <=> \E i \in 1 .. Len(s) + 1 : Append(s, x)[i] = y
  BY <1>1, Holds
<1>4. \A y : y \in ToSet(Append(s, x)) <=> y \in ToSet(s) \/ y = x
  BY <1>1, <1>2, <1>3
<1> QED
  BY <1>1, <1>4

LEMMA HoldsTogether ==
  ASSUME NEW S, NEW s \in Seq(S), NEW r \in Seq(S)
  PROVE  /\ s \o r \in Seq(S)
         /\ Len(s \o r) = Len(s) + Len(r)
         /\ \A i \in 1 .. Len(s) + Len(r) :
              (s \o r)[i] = IF i <= Len(s) THEN s[i] ELSE r[i - Len(s)]
         /\ ToSet(s \o r) = ToSet(s) \cup ToSet(r)
<1>1. s \o r \in Seq(S) /\ Len(s \o r) = Len(s) + Len(r) /\ Len(s) \in Nat /\ Len(r) \in Nat
  OBVIOUS
<1>2. \A i \in 1 .. Len(s) + Len(r) :
        (s \o r)[i] = IF i <= Len(s) THEN s[i] ELSE r[i - Len(s)]
  OBVIOUS
<1>3. /\ \A y : y \in ToSet(s) <=> \E i \in 1 .. Len(s) : s[i] = y
      /\ \A y : y \in ToSet(r) <=> \E i \in 1 .. Len(r) : r[i] = y
      /\ \A y : y \in ToSet(s \o r) <=> \E i \in 1 .. Len(s) + Len(r) : (s \o r)[i] = y
  BY <1>1, Holds
<1>4. ASSUME NEW y PROVE y \in ToSet(s \o r) <=> y \in ToSet(s) \/ y \in ToSet(r)
  <2>1. ASSUME NEW i \in 1 .. Len(s), s[i] = y PROVE y \in ToSet(s \o r)
    <3>1. i \in 1 .. Len(s) + Len(r) /\ i <= Len(s)
      BY <1>1
    <3> QED
      BY <1>2, <1>3, <2>1, <3>1
  <2>2. ASSUME NEW i \in 1 .. Len(r), r[i] = y PROVE y \in ToSet(s \o r)
    <3>1. /\ i + Len(s) \in 1 .. Len(s) + Len(r) /\ ~(i + Len(s) <= Len(s))
          /\ i + Len(s) - Len(s) = i
      BY <1>1
    <3> QED
      BY <1>2, <1>3, <2>2, <3>1
  <2>3. ASSUME NEW i \in 1 .. Len(s) + Len(r), (s \o r)[i] = y
        PROVE  y \in ToSet(s) \/ y \in ToSet(r)
    <3>1. CASE i <= Len(s)
      <4>1. i \in 1 .. Len(s) /\ s[i] = y
        BY <1>1, <1>2, <2>3, <3>1
      <4> QED
        BY <1>3, <4>1
    <3>2. CASE ~(i <= Len(s))
      <4>1. i - Len(s) \in 1 .. Len(r) /\ r[i - Len(s)] = y
        BY <1>1, <1>2, <2>3, <3>2
      <4> QED
        BY <1>3, <4>1
    <3> QED
      BY <3>1, <3>2
  <2> QED
    BY <1>3, <2>1, <2>2, <2>3
<1> QED
  BY <1>1, <1>2, <1>4

LEMMA EndOfQueue ==
  ASSUME NEW S, NEW q \in Seq(S), NEW d \in Nat, NEW room \in Nat, Len(q) = room + d
  PROVE  LET n == SubSeq(q, d + 1, Len(q))
         IN  n \in Seq(S) /\ Len(n) = room /\ \A i \in 1 .. room : n[i] = q[i + d]
<1>1. /\ d + 1 \in Int /\ Len(q) \in Int
      /\ \A i \in d + 1 .. Len(q) : q[i] \in S
      /\ Len(q) - (d + 1) + 1 = room
      /\ (IF d + 1 <= Len(q) THEN Len(q) - (d + 1) + 1 ELSE 0) = room
      /\ \A i \in 1 .. room : d + 1 + i - 1 = i + d
  OBVIOUS
<1> QED
  BY <1>1, SubSeqProperties

(* The newest events of a queue are an end of it, as long as fits. *)
IsEnd(r, q) ==
  \E d \in Nat : Len(q) = Len(r) + d /\ \A i \in 1 .. Len(r) : r[i] = q[i + d]

\* The newest events of a queue of this size; one of size zero keeps the last.
Newest(size, queue) ==
  LET room == IF size = 0 THEN 1 ELSE size
  IN  IF Len(queue) <= room THEN queue ELSE SubSeq(queue, Len(queue) - room + 1, Len(queue))

LEMMA NewestIsAnEnd ==
  ASSUME NEW S, NEW q \in Seq(S), NEW size \in Nat
  PROVE  /\ Newest(size, q) \in Seq(S)
         /\ Len(Newest(size, q)) <= (IF size = 0 THEN 1 ELSE size)
         /\ IsEnd(Newest(size, q), q)
         /\ ToSet(Newest(size, q)) \subseteq ToSet(q)
<1> DEFINE room == IF size = 0 THEN 1 ELSE size
           n == Newest(size, q)
<1>1. room \in Nat /\ room >= 1 /\ Len(q) \in Nat
  OBVIOUS
<1>2. CASE Len(q) <= room
  <2>1. n = q
    BY <1>2 DEF Newest
  <2>2. 0 \in Nat /\ Len(q) = Len(q) + 0 /\ \A i \in 1 .. Len(q) : q[i] = q[i + 0]
    BY <1>1
  <2> QED
    BY <1>2, <2>1, <2>2 DEF Newest, IsEnd
<1>3. CASE ~(Len(q) <= room)
  <2> DEFINE d == Len(q) - room
  <2>1. n = SubSeq(q, d + 1, Len(q))
    BY <1>3 DEF Newest
  <2>2. d \in Nat /\ d + 1 \in 1 .. Len(q) /\ Len(q) = room + d
    BY <1>1, <1>3
  <2>3. n \in Seq(S) /\ Len(n) = room /\ \A i \in 1 .. room : n[i] = q[i + d]
    BY <1>1, <2>1, <2>2, EndOfQueue
  <2> HIDE DEF d, n, room
  <2>4. \A i \in 1 .. room : i + d \in 1 .. Len(q)
    BY <1>1, <2>2
  <2>5. ToSet(n) \subseteq ToSet(q)
    BY <2>3, <2>4, Holds
  <2> QED
    BY <2>2, <2>3, <2>5 DEF n, room, IsEnd
<1> QED
  BY <1>2, <1>3

LEMMA LeastNatural ==
  ASSUME NEW T \in SUBSET Nat, T # {}
  PROVE  \E n \in T : \A m \in T : n <= m
<1> DEFINE R == OpToRel(<, Nat)
<1>1. IsWellFoundedOn(R, Nat)
  BY NatLessThanWellFounded
<1>2. \A x, y \in Nat : <<x, y>> \in R <=> x < y
  BY DEF OpToRel
<1> HIDE DEF R
<1>3. PICK n \in T : \A m \in T : <<m, n>> \notin R
  BY <1>1, WFMin
<1>4. \A m \in T : m \in Nat /\ n \in Nat /\ ~(m < n)
  BY <1>2, <1>3
<1>5. \A m \in T : n <= m
  BY <1>4
<1> QED
  BY <1>5

LEMMA InductionTo ==
  ASSUME NEW n \in Nat, NEW S, 0 \in S, \A m \in 0 .. n - 1 : m \in S => m + 1 \in S
  PROVE  0 .. n \subseteq S
<1> DEFINE T == (0 .. n) \ S
<1> SUFFICES ASSUME T # {} PROVE FALSE
  OBVIOUS
<1>1. T \in SUBSET Nat
  OBVIOUS
<1>2. PICK m \in T : \A k \in T : m <= k
  BY <1>1, LeastNatural
<1>3. m \in 0 .. n /\ m # 0 /\ m \notin S
  BY <1>2
<1>4. m - 1 \in 0 .. n - 1 /\ m - 1 \in 0 .. n /\ ~(m <= m - 1)
  BY <1>3
<1>5. m - 1 \in S
  BY <1>2, <1>4
<1>6. (m - 1) + 1 = m
  BY <1>3
<1> QED
  BY <1>3, <1>4, <1>5, <1>6

-----------------------------------------------------------------------------
(* The last events of the first m of a sequence, as many as there is room for. *)
Fitting(room, m) == IF m <= room THEN m ELSE room
EndAt(room, w, m) == [i \in 1 .. Fitting(room, m) |-> w[i + (m - Fitting(room, m))]]

LEMMA EndAtType ==
  ASSUME NEW S, NEW w \in Seq(S), NEW room \in Nat, NEW m \in 0 .. Len(w)
  PROVE  /\ EndAt(room, w, m) \in Seq(S)
         /\ Len(EndAt(room, w, m)) = Fitting(room, m)
         /\ Fitting(room, m) \in Nat /\ m - Fitting(room, m) \in Nat
         /\ \A i \in 1 .. Fitting(room, m) : EndAt(room, w, m)[i] = w[i + (m - Fitting(room, m))]
<1>1. Fitting(room, m) \in Nat /\ m - Fitting(room, m) \in Nat /\ m <= Len(w) /\ m \in Nat
  BY DEF Fitting
<1>2. \A i \in 1 .. Fitting(room, m) : i + (m - Fitting(room, m)) \in 1 .. Len(w)
  BY <1>1
<1>3. \A i \in 1 .. Fitting(room, m) : EndAt(room, w, m)[i] = w[i + (m - Fitting(room, m))]
  BY DEF EndAt
<1>4. EndAt(room, w, m) \in [1 .. Fitting(room, m) -> S]
  BY <1>2 DEF EndAt
<1> DEFINE k == Fitting(room, m)
           e == EndAt(room, w, m)
<1> HIDE DEF k, e
<1>5. e \in Seq(S) /\ Len(e) = k
  <2>1. k \in Nat /\ e \in [1 .. k -> S]
    BY <1>1, <1>4 DEF k, e
  <2> QED
    BY <2>1
<1> QED
  BY <1>1, <1>3, <1>5 DEF k, e

(* What an append leaves at each place of the queue. *)
LEMMA Appended ==
  ASSUME NEW S, NEW q \in Seq(S), NEW e \in S, NEW n \in Nat, Len(q) = n
  PROVE  /\ Append(q, e) \in Seq(S) /\ Len(Append(q, e)) = n + 1
         /\ Append(q, e)[n + 1] = e
         /\ \A i \in 1 .. n : Append(q, e)[i] = q[i]
  OBVIOUS

(* One round of the loop: what was the end of m events becomes that of m + 1. *)
LEMMA PushMovesTheEnd ==
  ASSUME NEW S, NEW w \in Seq(S), NEW m \in 0 .. Len(w) - 1
  PROVE  LET room == IF MaxSize = 0 THEN 1 ELSE MaxSize
         IN  Push(EndAt(room, w, m), w[m + 1]) = EndAt(room, w, m + 1)
<1> DEFINE room == IF MaxSize = 0 THEN 1 ELSE MaxSize
           q == EndAt(room, w, m)
           r == EndAt(room, w, m + 1)
           k == Fitting(room, m)
           e == w[m + 1]
<1>1. /\ MaxSize \in Nat /\ room \in Nat /\ room >= 1 /\ Len(w) \in Nat
      /\ m \in Nat /\ m \in 0 .. Len(w) /\ m + 1 \in 0 .. Len(w) /\ m + 1 \in 1 .. Len(w)
  BY PublisherAssumption
<1>2. e \in S
  BY <1>1
<1>3. MaxSize = 0 => room = 1
  OBVIOUS
<1>4. MaxSize # 0 => room = MaxSize
  OBVIOUS
<1> HIDE DEF room, e
<1>5. /\ q \in Seq(S) /\ Len(q) = k /\ k \in Nat /\ m - k \in Nat
      /\ \A i \in 1 .. k : q[i] = w[i + (m - k)]
  <2>1. room \in Nat /\ m \in 0 .. Len(w)
    BY <1>1
  <2> QED
    BY <2>1, EndAtType, ZenonT(60)
<1>6. /\ r \in Seq(S) /\ Len(r) = Fitting(room, m + 1)
      /\ Fitting(room, m + 1) \in Nat /\ m + 1 - Fitting(room, m + 1) \in Nat
      /\ \A i \in 1 .. Fitting(room, m + 1) : r[i] = w[i + (m + 1 - Fitting(room, m + 1))]
  <2> DEFINE m1 == m + 1
  <2>1. room \in Nat /\ m1 \in 0 .. Len(w)
    BY <1>1
  <2> HIDE DEF m1
  <2>2. /\ EndAt(room, w, m1) \in Seq(S)
        /\ Len(EndAt(room, w, m1)) = Fitting(room, m1)
        /\ Fitting(room, m1) \in Nat /\ m1 - Fitting(room, m1) \in Nat
        /\ \A i \in 1 .. Fitting(room, m1) :
             EndAt(room, w, m1)[i] = w[i + (m1 - Fitting(room, m1))]
    BY <2>1, EndAtType, Zenon
  <2> QED
    BY <2>2 DEF m1
<1> HIDE DEF q, r
<1>7. CASE m < room
  <2>1. k = m /\ Fitting(room, m + 1) = m + 1 /\ m + 1 - (m + 1) = 0 /\ m - m = 0
    BY <1>1, <1>7 DEF Fitting
  <2>2. Push(q, e) = Append(q, e)
    <3>1. ~(Len(q) >= MaxSize /\ q # <<>>)
      <4>1. CASE MaxSize = 0
        BY <1>1, <1>3, <1>5, <1>7, <2>1, <4>1
      <4>2. CASE MaxSize # 0
        BY <1>1, <1>4, <1>5, <1>7, <2>1, <4>2
      <4> QED
        BY <4>1, <4>2
    <3> QED
      BY <3>1 DEF Push
  <2>3. /\ Append(q, e) \in Seq(S) /\ Len(Append(q, e)) = m + 1
        /\ Append(q, e)[m + 1] = e
        /\ \A i \in 1 .. m : Append(q, e)[i] = q[i]
    <3>1. q \in Seq(S) /\ m \in Nat /\ Len(q) = m
      BY <1>1, <1>5, <2>1, Zenon
    <3> QED
      BY <1>2, <3>1, Appended
  <2>4. \A i \in 1 .. m + 1 : Append(q, e)[i] = r[i]
    <3> SUFFICES ASSUME NEW i \in 1 .. m + 1 PROVE Append(q, e)[i] = r[i]
      OBVIOUS
    <3>1. r[i] = w[i]
      BY <1>1, <1>6, <2>1
    <3>2. CASE i = m + 1
      BY <2>3, <3>1, <3>2 DEF e
    <3>3. CASE i # m + 1
      <4>1. i \in 1 .. m /\ i + 0 = i
        BY <1>1, <3>3
      <4> QED
        BY <1>5, <2>1, <2>3, <3>1, <3>3, <4>1
    <3> QED
      BY <3>2, <3>3
  <2>5. Len(r) = m + 1
    BY <1>6, <2>1
  <2>7. Append(q, e) = r
    BY <1>6, <2>3, <2>4, <2>5, SeqEqual, Zenon
  <2> QED
    BY <2>2, <2>7, Zenon DEF q, r, room, e
<1>8. CASE ~(m < room)
  <2>1. k = room /\ Fitting(room, m + 1) = room
    BY <1>1, <1>8 DEF Fitting
  <2>2. Push(q, e) = Append(Tail(q), e)
    <3>1. Len(q) >= MaxSize /\ q # <<>>
      BY <1>1, <1>3, <1>4, <1>5, <2>1
    <3> QED
      BY <3>1 DEF Push
  <2>3. /\ Tail(q) \in Seq(S) /\ Len(Tail(q)) = room - 1
        /\ \A i \in 1 .. room - 1 : Tail(q)[i] = q[i + 1]
    BY <1>1, <1>5, <2>1
  <2>4. /\ Append(Tail(q), e) \in Seq(S) /\ Len(Append(Tail(q), e)) = room
        /\ Append(Tail(q), e)[room] = e
        /\ \A i \in 1 .. room - 1 : Append(Tail(q), e)[i] = Tail(q)[i]
    <3>1. room - 1 \in Nat /\ room - 1 + 1 = room
      BY <1>1
    <3>2. /\ Append(Tail(q), e) \in Seq(S) /\ Len(Append(Tail(q), e)) = room - 1 + 1
          /\ Append(Tail(q), e)[room - 1 + 1] = e
          /\ \A i \in 1 .. room - 1 : Append(Tail(q), e)[i] = Tail(q)[i]
      <4>1. Tail(q) \in Seq(S) /\ Len(Tail(q)) = room - 1
        BY <2>3
      <4> QED
        BY <1>2, <3>1, <4>1, Appended
    <3> QED
      BY <3>1, <3>2, Zenon
  <2>5. \A i \in 1 .. room : Append(Tail(q), e)[i] = r[i]
    <3> SUFFICES ASSUME NEW i \in 1 .. room PROVE Append(Tail(q), e)[i] = r[i]
      OBVIOUS
    <3>1. r[i] = w[i + (m + 1 - room)]
      BY <1>6, <2>1
    <3>2. CASE i = room
      <4>1. i + (m + 1 - room) = m + 1
        BY <1>1, <3>2
      <4> QED
        BY <2>4, <3>1, <3>2, <4>1 DEF e
    <3>3. CASE i # room
      <4>1. i \in 1 .. room - 1 /\ i + 1 \in 1 .. room
            /\ (i + 1) + (m - room) = i + (m + 1 - room)
        BY <1>1, <3>3
      <4> QED
        BY <1>5, <2>1, <2>3, <2>4, <3>1, <3>3, <4>1
    <3> QED
      BY <3>2, <3>3
  <2>6. Len(r) = room
    BY <1>6, <2>1
  <2>7. Append(Tail(q), e) = r
    BY <1>6, <2>4, <2>5, <2>6, SeqEqual, Zenon
  <2> QED
    BY <2>2, <2>7, Zenon DEF q, r, room, e
<1> QED
  BY <1>1, <1>7, <1>8

(***************************************************************************)
(* What the loop of the inner publisher's publish_batch leaves of a queue  *)
(* that is within its size: the newest of what was queued and what comes,  *)
(* in their order, for every size, queue and batch.                        *)
(***************************************************************************)
THEOREM EvictionKeepsNewest ==
  ASSUME NEW S, NEW queue \in Seq(S), NEW events \in Seq(S),
         Len(queue) <= (IF MaxSize = 0 THEN 1 ELSE MaxSize)
  PROVE  PushAll(queue, events)[Len(events)] = Newest(MaxSize, queue \o events)
<1> DEFINE room == IF MaxSize = 0 THEN 1 ELSE MaxSize
           w == queue \o events
           l == Len(queue)
           n == Len(events)
           f == [k \in 0 .. n |-> EndAt(room, w, l + k)]
           Equation(h) == h = [k \in 0 .. n |->
                                 IF k = 0 THEN queue ELSE Push(h[k - 1], events[k])]
           g == PushAll(queue, events)
           T == {k \in 0 .. n : g[k] = f[k]}
<1>1. /\ MaxSize \in Nat /\ room \in Nat /\ room >= 1 /\ l \in Nat /\ n \in Nat /\ l <= room
  BY PublisherAssumption
<1>2. /\ w \in Seq(S) /\ Len(w) = l + n
      /\ \A i \in 1 .. l + n : w[i] = IF i <= l THEN queue[i] ELSE events[i - l]
  BY HoldsTogether
<1>3. \A k \in 0 .. n - 1 : /\ l + k \in 0 .. Len(w) - 1 /\ w[l + k + 1] = events[k + 1]
                            /\ l + (k + 1) = l + k + 1
  <2> SUFFICES ASSUME NEW k \in 0 .. n - 1
               PROVE  l + k \in 0 .. Len(w) - 1 /\ w[l + k + 1] = events[k + 1]
    BY <1>1
  <2>1. l + k + 1 \in 1 .. l + n /\ ~(l + k + 1 <= l) /\ l + k + 1 - l = k + 1
        /\ l + k \in 0 .. l + n - 1
    BY <1>1
  <2> QED
    BY <1>2, <2>1
<1>4. f[0] = queue
  <2>1. Fitting(room, l) = l /\ l + 0 = l /\ l - l = 0 /\ 0 \in 0 .. n /\ l \in 0 .. Len(w)
    BY <1>1, <1>2 DEF Fitting
  <2>2. /\ EndAt(room, w, l) \in Seq(S) /\ Len(EndAt(room, w, l)) = l
        /\ \A i \in 1 .. l : EndAt(room, w, l)[i] = w[i + 0]
    <3> HIDE DEF room, w, l
    <3>1. /\ EndAt(room, w, l) \in Seq(S) /\ Len(EndAt(room, w, l)) = Fitting(room, l)
          /\ Fitting(room, l) \in Nat /\ l - Fitting(room, l) \in Nat
          /\ \A i \in 1 .. Fitting(room, l) :
               EndAt(room, w, l)[i] = w[i + (l - Fitting(room, l))]
      <4>1. room \in Nat /\ w \in Seq(S) /\ l \in 0 .. Len(w)
        BY <1>1, <1>2, <2>1
      <4> QED
        BY <4>1, EndAtType, Zenon
    <3> QED
      BY <2>1, <3>1
  <2>3. \A i \in 1 .. l : w[i + 0] = queue[i]
    BY <1>1, <1>2
  <2>4. EndAt(room, w, l) = queue
    BY <2>2, <2>3, SeqEqual
  <2>5. f[0] = EndAt(room, w, l)
    BY <2>1
  <2> QED
    BY <2>4, <2>5
<1>5. ASSUME NEW k \in 0 .. n - 1 PROVE f[k + 1] = Push(f[k], events[k + 1])
  <2>1. Push(EndAt(room, w, l + k), w[l + k + 1]) = EndAt(room, w, l + k + 1)
    BY <1>2, <1>3, PushMovesTheEnd
  <2>2. f[k] = EndAt(room, w, l + k) /\ f[k + 1] = EndAt(room, w, l + k + 1)
    BY <1>1, <1>3
  <2> QED
    BY <1>3, <2>1, <2>2
<1> HIDE DEF f, w
<1>6. Equation(f)
  <2>1. \A k \in 0 .. n : f[k] = IF k = 0 THEN queue ELSE Push(f[k - 1], events[k])
    <3> SUFFICES ASSUME NEW k \in 0 .. n
                 PROVE  f[k] = IF k = 0 THEN queue ELSE Push(f[k - 1], events[k])
      OBVIOUS
    <3>1. CASE k = 0
      BY <1>4, <3>1
    <3>2. CASE k # 0
      <4>1. k - 1 \in 0 .. n - 1 /\ (k - 1) + 1 = k
        BY <1>1, <3>2
      <4> QED
        BY <1>5, <3>2, <4>1
    <3> QED
      BY <3>1, <3>2
  <2>2. f = [k \in 0 .. n |-> f[k]]
    BY DEF f
  <2> QED
    BY <2>1, <2>2
<1>7. g = CHOOSE h : Equation(h)
  BY DEF PushAll
<1> HIDE DEF g
<1>8. Equation(g)
  BY <1>6, <1>7
<1>9. 0 \in T
  BY <1>1, <1>4, <1>8
<1>10. ASSUME NEW k \in 0 .. n - 1, k \in T PROVE k + 1 \in T
  <2>1. k + 1 \in 0 .. n /\ k + 1 # 0 /\ (k + 1) - 1 = k
    BY <1>1
  <2>2. g[k + 1] = Push(g[k], events[k + 1])
    BY <1>8, <2>1
  <2> QED
    BY <1>5, <1>10, <2>1, <2>2
<1> HIDE DEF T
<1>11. n \in T
  <2>1. 0 .. n \subseteq T
    <3> HIDE DEF n
    <3> QED
      BY <1>1, <1>9, <1>10, InductionTo
  <2> QED
    BY <1>1, <2>1
<1>12. g[n] = EndAt(room, w, l + n)
  BY <1>1, <1>11 DEF T, f
<1>13. EndAt(room, w, l + n) = Newest(MaxSize, w)
  <2> DEFINE d == (l + n) - Fitting(room, l + n)
             k == Fitting(room, l + n)
             e == EndAt(room, w, l + n)
             r == Newest(MaxSize, w)
  <2>1. /\ e \in Seq(S) /\ Len(e) = k /\ k \in Nat /\ d \in Nat
        /\ \A i \in 1 .. k : e[i] = w[i + d]
    <3>1. l + n \in 0 .. Len(w) /\ room \in Nat /\ w \in Seq(S)
      BY <1>1, <1>2
    <3> HIDE DEF room, l, n
    <3> QED
      BY <3>1, EndAtType, Zenon
  <2>2. CASE l + n <= room
    <3>1. r = w /\ k = l + n /\ d = 0
      BY <1>1, <1>2, <2>2 DEF Newest, Fitting
    <3>2. \A i \in 1 .. k : e[i] = w[i]
      <4> HIDE DEF k, e, d
      <4> QED
        BY <2>1, <3>1
    <3>3. e \in Seq(S) /\ r \in Seq(S) /\ Len(e) = Len(r)
          /\ \A i \in 1 .. Len(e) : e[i] = r[i]
      <4> HIDE DEF k, e, d, r
      <4> QED
        BY <1>2, <2>1, <3>1, <3>2
    <3> HIDE DEF k, e, d, r
    <3>4. e = r
      BY <3>3, SeqEqual, Zenon
    <3> QED
      BY <3>4 DEF e, r
  <2>3. CASE ~(l + n <= room)
    <3>1. k = room /\ d = l + n - room /\ d + 1 = Len(w) - room + 1 /\ Len(w) = room + d
      BY <1>1, <1>2, <2>3 DEF Fitting
    <3>2. r = SubSeq(w, d + 1, Len(w))
      BY <1>2, <2>3, <3>1 DEF Newest
    <3>3. r \in Seq(S) /\ Len(r) = room /\ \A i \in 1 .. room : r[i] = w[i + d]
      <4>1. w \in Seq(S) /\ d \in Nat /\ room \in Nat /\ Len(w) = room + d
        BY <1>1, <1>2, <2>1, <3>1
      <4> HIDE DEF k, e, d, room
      <4>2. LET s == SubSeq(w, d + 1, Len(w))
            IN  s \in Seq(S) /\ Len(s) = room /\ \A i \in 1 .. room : s[i] = w[i + d]
        BY <4>1, EndOfQueue, Zenon
      <4> HIDE DEF r
      <4> QED
        BY <3>2, <4>2
    <3>4. e \in Seq(S) /\ r \in Seq(S) /\ Len(e) = Len(r)
          /\ \A i \in 1 .. Len(e) : e[i] = r[i]
      <4> HIDE DEF k, e, d, r, room
      <4> QED
        BY <2>1, <3>1, <3>3
    <3> HIDE DEF k, e, d, r
    <3>5. e = r
      BY <3>4, SeqEqual, Zenon
    <3> QED
      BY <3>5 DEF e, r
  <2> QED
    BY <2>2, <2>3
<1> QED
  BY <1>12, <1>13 DEF g, w

LEMMA ReceivesNewest ==
  ASSUME TypeOK, BufferBelowSize, NEW events \in Seq(Events), Receive(events)
  PROVE  inner' = Newest(MaxSize, inner \o events)
<1>1. inner \in Seq(Events) /\ Len(inner) <= (IF MaxSize = 0 THEN 1 ELSE MaxSize)
  BY DEF TypeOK, BufferBelowSize
<1>2. PushAll(inner, events)[Len(events)] = Newest(MaxSize, inner \o events)
  BY <1>1, EvictionKeepsNewest
<1> QED
  BY <1>2 DEF Receive

-----------------------------------------------------------------------------
(* What "in one place" says of five sets. *)
Apart(A, B, C, D, E) ==
  /\ A \cap B = {} /\ A \cap C = {} /\ A \cap D = {} /\ A \cap E = {}
  /\ B \cap C = {} /\ B \cap D = {} /\ B \cap E = {}
  /\ C \cap D = {} /\ C \cap E = {} /\ D \cap E = {}

LEMMA FivePlaces ==
  ASSUME NEW A, NEW B, NEW C, NEW D, NEW E, NEW X
  PROVE  ( /\ UNION {<<A, B, C, D, E>>[i] : i \in 1 .. 5} = X
           /\ \A i, j \in 1 .. 5 : i # j => <<A, B, C, D, E>>[i] \cap <<A, B, C, D, E>>[j] = {} )
         <=> A \cup B \cup C \cup D \cup E = X /\ Apart(A, B, C, D, E)
<1> DEFINE p == <<A, B, C, D, E>>
<1>1. p[1] = A /\ p[2] = B /\ p[3] = C /\ p[4] = D /\ p[5] = E
  OBVIOUS
<1> HIDE DEF p
<1>2. 1 .. 5 = {1, 2, 3, 4, 5}
  OBVIOUS
<1>3. UNION {p[i] : i \in 1 .. 5} = A \cup B \cup C \cup D \cup E
  <2>1. {p[i] : i \in 1 .. 5} = {A, B, C, D, E}
    BY <1>1, <1>2
  <2> QED
    BY <2>1
<1>4. (\A i, j \in 1 .. 5 : i # j => p[i] \cap p[j] = {})
        <=> Apart(A, B, C, D, E)
  BY <1>1, <1>2 DEF Apart
<1> QED
  BY <1>3, <1>4 DEF p
Once ==
  /\ ToSet(buffer) \cup Drained \cup ToSet(inner) \cup evicted \cup refused = 1 .. published
  /\ Apart(ToSet(buffer), Drained, ToSet(inner), evicted, refused)
  /\ \A t, u \in Threads : t # u => ToSet(batch[t]) \cap ToSet(batch[u]) = {}
  /\ IsInjective(buffer) /\ IsInjective(inner)
  /\ \A t \in Threads : IsInjective(batch[t])

LEMMA OnceIsInOnePlace ==
  /\ EachInOnePlace <=> TypeOK /\ Once
  /\ EachInOnePlace' <=> TypeOK' /\ Once'
<1>1. ( /\ UNION {Places[i] : i \in 1 .. 5} = 1 .. published
        /\ \A i, j \in 1 .. 5 : i # j => Places[i] \cap Places[j] = {} )
      <=> /\ ToSet(buffer) \cup Drained \cup ToSet(inner) \cup evicted \cup refused = 1 .. published
          /\ Apart(ToSet(buffer), Drained, ToSet(inner), evicted, refused)
  BY FivePlaces, Zenon DEF Places
<1>2. ( /\ UNION {Places'[i] : i \in 1 .. 5} = 1 .. published'
        /\ \A i, j \in 1 .. 5 : i # j => Places'[i] \cap Places'[j] = {} )
      <=> /\ (ToSet(buffer) \cup Drained \cup ToSet(inner) \cup evicted \cup refused = 1 .. published)'
          /\ Apart(ToSet(buffer), Drained, ToSet(inner), evicted, refused)'
  BY FivePlaces, Zenon DEF Places
<1>3. EachInOnePlace <=> TypeOK /\ Once
  BY <1>1, Zenon DEF EachInOnePlace, Once
<1>4. EachInOnePlace' <=> TypeOK' /\ Once'
  BY <1>2, Zenon DEF EachInOnePlace, Once
<1> QED
  BY <1>3, <1>4

(* What the batches hold when one of them changes. *)
LEMMA BatchChanges ==
  ASSUME TypeOK, NEW t \in Threads, NEW b, batch' = [batch EXCEPT ![t] = b]
  PROVE  /\ batch'[t] = b
         /\ \A u \in Threads \ {t} : batch'[u] = batch[u]
         /\ Drained' = ToSet(b) \cup UNION {ToSet(batch[u]) : u \in Threads \ {t}}
         /\ Drained = ToSet(batch[t]) \cup UNION {ToSet(batch[u]) : u \in Threads \ {t}}
<1>1. batch'[t] = b /\ \A u \in Threads \ {t} : batch'[u] = batch[u]
  BY DEF TypeOK
<1>2. {ToSet(batch'[u]) : u \in Threads} = {ToSet(batch[u]) : u \in Threads \ {t}} \cup {ToSet(b)}
  BY <1>1
<1>3. {ToSet(batch[u]) : u \in Threads}
        = {ToSet(batch[u]) : u \in Threads \ {t}} \cup {ToSet(batch[t])}
  OBVIOUS
<1> QED
  BY <1>1, <1>2, <1>3 DEF Drained

LEMMA IncreasingOnce ==
  ASSUME NEW s \in Seq(Nat), Increasing(s)
  PROVE  IsInjective(s)
<1> SUFFICES ASSUME NEW i \in DOMAIN s, NEW j \in DOMAIN s, s[i] = s[j] PROVE i = j
  BY DEF IsInjective
<1>1. i \in Nat /\ j \in Nat /\ s[i] \in Nat /\ s[j] \in Nat
  OBVIOUS
<1> QED
  BY <1>1 DEF Increasing

(* The inner publisher takes the events into the queue, or none of them. *)
LEMMA HandPlaces ==
  ASSUME TypeOK, BufferBelowSize, NEW events \in Seq(Events), Hand(events),
         IsInjective(inner), IsInjective(events),
         ToSet(inner) \cap evicted = {}, ToSet(inner) \cap refused = {}, evicted \cap refused = {},
         ToSet(events) \cap (ToSet(inner) \cup evicted \cup refused) = {}
  PROVE  /\ inner' \in Seq(Events) /\ failures' \in 0 .. MaxFailures
         /\ Len(inner') <= (IF MaxSize = 0 THEN 1 ELSE MaxSize)
         /\ IsInjective(inner')
         /\ ToSet(inner') \cap evicted' = {} /\ ToSet(inner') \cap refused' = {}
         /\ evicted' \cap refused' = {}
         /\ ToSet(inner') \cup evicted' \cup refused'
              = ToSet(inner) \cup evicted \cup refused \cup ToSet(events)
         /\ ToSet(inner') \subseteq ToSet(inner) \cup ToSet(events)
<1> USE PublisherAssumption
<1>1. CASE Receive(events) /\ UNCHANGED <<failures, refused>>
  <2> DEFINE q == inner \o events
  <2>1. inner \in Seq(Events)
    BY DEF TypeOK
  <2>2. /\ q \in Seq(Events) /\ Len(q) = Len(inner) + Len(events)
        /\ \A i \in 1 .. Len(inner) + Len(events) :
             q[i] = IF i <= Len(inner) THEN inner[i] ELSE events[i - Len(inner)]
        /\ ToSet(q) = ToSet(inner) \cup ToSet(events)
    BY <2>1, HoldsTogether
  <2>3. inner' = Newest(MaxSize, q)
    BY <1>1, ReceivesNewest
  <2>4. evicted' = evicted \cup ((ToSet(inner) \cup ToSet(events)) \ ToSet(inner'))
    BY <1>1 DEF Receive
  <2> HIDE DEF q
  <2>5. /\ inner' \in Seq(Events)
        /\ Len(inner') <= (IF MaxSize = 0 THEN 1 ELSE MaxSize)
        /\ ToSet(inner') \subseteq ToSet(q)
        /\ IsEnd(inner', q)
    <3>1. MaxSize \in Nat /\ q \in Seq(Events)
      BY <2>2
    <3>2. /\ IsEnd(Newest(MaxSize, q), q)
          /\ Newest(MaxSize, q) \in Seq(Events)
          /\ Len(Newest(MaxSize, q)) <= (IF MaxSize = 0 THEN 1 ELSE MaxSize)
          /\ ToSet(Newest(MaxSize, q)) \subseteq ToSet(q)
      BY <3>1, NewestIsAnEnd, Zenon
    <3> QED
      BY <2>3, <3>2, Zenon
  <2>6. IsInjective(inner')
    <3>1. \A i, j \in 1 .. Len(q) : q[i] = q[j] => i = j
      <4>1. \A i \in 1 .. Len(inner) : inner[i] \in ToSet(inner)
        BY <2>1, Holds
      <4>2. \A i \in 1 .. Len(events) : events[i] \in ToSet(events)
        BY Holds
      <4>3. Len(inner) \in Nat /\ Len(events) \in Nat
        BY <2>1
      <4>4. \A i, j \in 1 .. Len(inner) : inner[i] = inner[j] => i = j
        BY <2>1 DEF IsInjective
      <4>5. \A i, j \in 1 .. Len(events) : events[i] = events[j] => i = j
        BY DEF IsInjective
      <4>6. ASSUME NEW i \in 1 .. Len(q), NEW j \in 1 .. Len(q), q[i] = q[j] PROVE i = j
        <5>1. i <= Len(inner) => i \in 1 .. Len(inner)
          BY <2>2, <4>3
        <5>2. ~(i <= Len(inner)) => i - Len(inner) \in 1 .. Len(events)
          BY <2>2, <4>3
        <5>3. j <= Len(inner) => j \in 1 .. Len(inner)
          BY <2>2, <4>3
        <5>4. ~(j <= Len(inner)) => j - Len(inner) \in 1 .. Len(events)
          BY <2>2, <4>3
        <5>5. /\ q[i] = IF i <= Len(inner) THEN inner[i] ELSE events[i - Len(inner)]
              /\ q[j] = IF j <= Len(inner) THEN inner[j] ELSE events[j - Len(inner)]
          BY <2>2
        <5>6. i - Len(inner) = j - Len(inner) => i = j
          BY <4>3
        <5> QED
          BY <4>1, <4>2, <4>4, <4>5, <4>6, <5>1, <5>2, <5>3, <5>4, <5>5, <5>6
      <4> QED
        BY <4>6
    <3>2. PICK d \in Nat : /\ Len(q) = Len(inner') + d
                          /\ \A i \in 1 .. Len(inner') : inner'[i] = q[i + d]
      BY <2>5 DEF IsEnd
    <3>3. \A i \in 1 .. Len(inner') : i + d \in 1 .. Len(q)
      BY <2>5, <3>2
    <3>4. DOMAIN inner' = 1 .. Len(inner')
      BY <2>5
    <3>5. \A i, j \in 1 .. Len(inner') : i + d = j + d => i = j
      OBVIOUS
    <3> QED
      BY <3>1, <3>2, <3>3, <3>4, <3>5 DEF IsInjective
  <2>7. refused' = refused /\ failures' \in 0 .. MaxFailures
    BY <1>1 DEF TypeOK
  <2> QED
    BY <2>2, <2>4, <2>5, <2>6, <2>7
<1>2. CASE Refuse(events) /\ UNCHANGED <<inner, evicted>>
  <2>1. failures' \in 0 .. MaxFailures /\ refused' = refused \cup ToSet(events)
    BY <1>2 DEF TypeOK, Refuse
  <2>2. Len(inner) <= (IF MaxSize = 0 THEN 1 ELSE MaxSize) /\ inner \in Seq(Events)
    BY DEF BufferBelowSize, TypeOK
  <2> QED
    BY <1>2, <2>1, <2>2
<1> QED
  BY <1>1, <1>2 DEF Hand
(* Delivery keeps the order if the events are in order and none that could   *)
(* be overtaken has been.                                                    *)
LEMMA HandOrder ==
  ASSUME TypeOK, BufferBelowSize, NEW events \in Seq(Events), Hand(events), FlushKeepsOrder,
         Increasing(events),
         direct \subseteq direct', loose \subseteq loose',
         \A x \in ToSet(inner), y \in ToSet(events) : x > y => x \in direct' \/ y \in loose'
  PROVE  FlushKeepsOrder'
<1> USE PublisherAssumption
<1> DEFINE q == inner \o events
<1>1. inner \in Seq(Events) /\ Len(inner) \in Nat /\ Len(events) \in Nat
  BY DEF TypeOK
<1>2. /\ q \in Seq(Events) /\ Len(q) = Len(inner) + Len(events)
      /\ \A i \in 1 .. Len(inner) + Len(events) :
           q[i] = IF i <= Len(inner) THEN inner[i] ELSE events[i - Len(inner)]
  BY <1>1, HoldsTogether
<1> HIDE DEF q
<1>3. \A i \in 1 .. Len(inner) : inner[i] \in ToSet(inner) /\ inner[i] \in Nat
  BY <1>1, Holds DEF Events
<1>4. \A i \in 1 .. Len(events) : events[i] \in ToSet(events) /\ events[i] \in Nat
  BY Holds DEF Events
<1>5. ASSUME NEW i \in 1 .. Len(q), NEW j \in 1 .. Len(q), i < j, q[i] > q[j]
      PROVE  q[i] \in direct' \/ q[j] \in loose'
  <2>1. /\ q[i] = IF i <= Len(inner) THEN inner[i] ELSE events[i - Len(inner)]
        /\ q[j] = IF j <= Len(inner) THEN inner[j] ELSE events[j - Len(inner)]
    BY <1>2
  <2>2. CASE j <= Len(inner)
    <3>1. i \in 1 .. Len(inner) /\ j \in 1 .. Len(inner) /\ i <= Len(inner)
      BY <1>1, <1>2, <1>5, <2>2
    <3>2. inner[i] > inner[j] /\ i \in DOMAIN inner /\ j \in DOMAIN inner
      BY <1>1, <1>5, <2>1, <2>2, <3>1
    <3>3. inner[i] \in direct \/ inner[j] \in loose
      BY <1>5, <3>2 DEF FlushKeepsOrder
    <3> QED
      BY <2>1, <2>2, <3>1, <3>3
  <2>3. CASE i <= Len(inner) /\ ~(j <= Len(inner))
    <3>1. i \in 1 .. Len(inner) /\ j - Len(inner) \in 1 .. Len(events)
      BY <1>1, <1>2, <2>3
    <3> QED
      BY <1>3, <1>4, <1>5, <2>1, <2>3, <3>1
  <2>4. CASE ~(i <= Len(inner))
    <3>1. /\ i - Len(inner) \in 1 .. Len(events) /\ j - Len(inner) \in 1 .. Len(events)
          /\ i - Len(inner) < j - Len(inner) /\ ~(j <= Len(inner))
      BY <1>1, <1>2, <1>5, <2>4
    <3>2. events[i - Len(inner)] < events[j - Len(inner)]
      BY <3>1 DEF Increasing
    <3> QED
      BY <1>4, <1>5, <2>1, <2>4, <3>1, <3>2
  <2> QED
    BY <1>5, <2>2, <2>3, <2>4
<1>6. CASE Receive(events)
  <2>1. inner' = Newest(MaxSize, q) /\ MaxSize \in Nat
    BY <1>6, ReceivesNewest DEF q
  <2>2. inner' \in Seq(Events) /\ IsEnd(inner', q)
    BY <1>2, <2>1, NewestIsAnEnd, Zenon
  <2>3. PICK d \in Nat : Len(q) = Len(inner') + d /\ \A i \in 1 .. Len(inner') : inner'[i] = q[i + d]
    BY <2>2 DEF IsEnd
  <2>4. DOMAIN inner' = 1 .. Len(inner') /\ Len(inner') \in Nat
    BY <2>2
  <2>5. \A i \in 1 .. Len(inner') : i + d \in 1 .. Len(q)
    BY <2>3, <2>4
  <2>6. ASSUME NEW i \in 1 .. Len(inner'), NEW j \in 1 .. Len(inner'), i < j, inner'[i] > inner'[j]
        PROVE  inner'[i] \in direct' \/ inner'[j] \in loose'
    <3>1. i + d \in 1 .. Len(q) /\ j + d \in 1 .. Len(q) /\ i + d < j + d
      BY <2>5, <2>6
    <3>2. inner'[i] = q[i + d] /\ inner'[j] = q[j + d]
      BY <2>3
    <3> QED
      BY <1>5, <2>6, <3>1, <3>2
  <2> QED
    BY <2>4, <2>6 DEF FlushKeepsOrder
<1>7. CASE Refuse(events) /\ inner' = inner
  <2>1. ASSUME NEW i \in DOMAIN inner, NEW j \in DOMAIN inner, i < j, inner[i] > inner[j]
        PROVE  inner[i] \in direct' \/ inner[j] \in loose'
    BY <2>1 DEF FlushKeepsOrder
  <2> QED
    BY <1>7, <2>1 DEF FlushKeepsOrder
<1> QED
  BY <1>6, <1>7 DEF Hand

LEMMA WhatWaits ==
  /\ \A e : e \in Waiting <=>
       e \in ToSet(buffer) \/ \E t \in Threads : pc[t] = "flush" /\ e \in ToSet(batch[t])
  /\ \A e : e \in Waiting' <=>
       e \in ToSet(buffer') \/ \E t \in Threads : pc'[t] = "flush" /\ e \in ToSet(batch'[t])
BY DEF Waiting

-----------------------------------------------------------------------------
LEMMA PublisherBegins == Init => PublisherInv
<1> SUFFICES ASSUME Init PROVE PublisherInv
  OBVIOUS
<1> USE PublisherAssumption DEF Init
<1>1. TypeOK
  BY DEF TypeOK, Events
<1>2. ToSet(<<>>) = {} /\ DOMAIN <<>> = {}
  BY DEF ToSet
<1>3. Drained = {} /\ Waiting = {}
  BY <1>2 DEF Drained, Waiting
<1>4. Once
  BY <1>2, <1>3 DEF Once, Apart, IsInjective
<1>5. EachInOnePlace
  BY <1>1, <1>4, OnceIsInOnePlace
<1>6. BufferBelowSize /\ Locking
  BY DEF BufferBelowSize, Locking
<1>7. Ordering /\ FlushKeepsOrder
  BY <1>2, <1>3 DEF Ordering, Increasing, FlushKeepsOrder
<1> QED
  BY <1>5, <1>6, <1>7 DEF PublisherInv

LEMMA LockingStep == TypeOK /\ Locking /\ [Next]_vars => Locking'
<1> SUFFICES ASSUME TypeOK, Locking, [Next]_vars PROVE Locking'
  OBVIOUS
<1> USE DEF TypeOK, Locking
<1>1. ASSUME NEW t \in Threads, Publish(t) PROVE Locking'
  BY <1>1 DEF Publish, Unlocked, Drain
<1>2. ASSUME NEW t \in Threads, Flush(t) PROVE Locking'
  BY <1>2 DEF Flush, Unlocked, Drain
<1>3. ASSUME NEW t \in Threads, Deliver(t) PROVE Locking'
  BY <1>3 DEF Deliver
<1>4. ASSUME NEW t \in Threads, PublishBatch(t) \/ Clear(t) PROVE Locking'
  BY <1>4 DEF PublishBatch, Clear
<1>5. CASE UNCHANGED vars
  BY <1>5 DEF vars
<1> QED
  BY <1>1, <1>2, <1>3, <1>4, <1>5 DEF Next
(* What a buffered event changes: it is appended to a buffer it is not in. *)
LEMMA AppendingPublished ==
  ASSUME TypeOK, Once, Increasing(buffer), published < MaxEvents
  PROVE  LET events == Append(buffer, published + 1)
         IN  /\ events \in Seq(Events) /\ Len(events) = Len(buffer) + 1
             /\ ToSet(events) = ToSet(buffer) \cup {published + 1}
             /\ Increasing(events) /\ IsInjective(events)
<1> USE PublisherAssumption
<1> DEFINE events == Append(buffer, published + 1)
<1>1. buffer \in Seq(Events) /\ published \in Nat /\ published + 1 \in Events /\ Len(buffer) \in Nat
  BY DEF TypeOK, Events
<1>2. events \in Seq(Events) /\ ToSet(events) = ToSet(buffer) \cup {published + 1}
  BY <1>1, HoldsAfterAppend
<1>3. /\ Len(events) = Len(buffer) + 1
      /\ \A i \in 1 .. Len(buffer) + 1 :
           events[i] = IF i = Len(buffer) + 1 THEN published + 1 ELSE buffer[i]
  BY <1>1
<1>4. \A i \in 1 .. Len(buffer) : buffer[i] \in Nat /\ buffer[i] < published + 1
  <2>1. \A i \in 1 .. Len(buffer) : buffer[i] \in ToSet(buffer)
    BY <1>1, Holds
  <2>2. ToSet(buffer) \subseteq 1 .. published
    BY DEF Once
  <2> QED
    BY <1>1, <2>1, <2>2
<1> HIDE DEF events
<1>5. DOMAIN events = 1 .. Len(buffer) + 1 /\ DOMAIN buffer = 1 .. Len(buffer)
  BY <1>1, <1>2, <1>3
<1>6. ASSUME NEW i \in DOMAIN events, NEW j \in DOMAIN events, i < j PROVE events[i] < events[j]
  <2>1. i \in 1 .. Len(buffer) /\ i # Len(buffer) + 1
    BY <1>1, <1>5, <1>6
  <2>2. events[i] = buffer[i]
    BY <1>3, <2>1, <1>5
  <2>3. CASE j = Len(buffer) + 1
    BY <1>3, <1>4, <1>5, <2>1, <2>2, <2>3
  <2>4. CASE j # Len(buffer) + 1
    <3>1. j \in 1 .. Len(buffer)
      BY <1>1, <1>5, <2>4
    <3> QED
      BY <1>3, <1>5, <1>6, <2>1, <2>2, <2>4, <3>1 DEF Increasing
  <2> QED
    BY <2>3, <2>4
<1>7. Increasing(events)
  BY <1>6 DEF Increasing
<1>8. events \in Seq(Nat)
  BY <1>2 DEF Events
<1>9. IsInjective(events)
  BY <1>7, <1>8, IncreasingOnce
<1> QED
  BY <1>2, <1>3, <1>7, <1>9 DEF events

(* An idle thread has no batch, and while a batch is drained no other is.    *)
LEMMA DrainingPlaces ==
  ASSUME TypeOK, Once, NEW t \in Threads, batch[t] = <<>>, NEW b \in Seq(Events),
         batch' = [batch EXCEPT ![t] = b], IsInjective(b), ToSet(b) \cap Drained = {}
  PROVE  /\ batch' \in [Threads -> Seq(Events)]
         /\ Drained' = Drained \cup ToSet(b)
         /\ \A u \in Threads : IsInjective(batch'[u])
         /\ \A u, v \in Threads : u # v => ToSet(batch'[u]) \cap ToSet(batch'[v]) = {}
<1>1. /\ batch'[t] = b
      /\ \A u \in Threads \ {t} : batch'[u] = batch[u]
      /\ Drained' = ToSet(b) \cup UNION {ToSet(batch[u]) : u \in Threads \ {t}}
      /\ Drained = ToSet(batch[t]) \cup UNION {ToSet(batch[u]) : u \in Threads \ {t}}
  BY BatchChanges
<1>2. ToSet(batch[t]) = {}
  BY DEF ToSet
<1>3. batch' \in [Threads -> Seq(Events)]
  BY DEF TypeOK
<1>4. \A u \in Threads : IsInjective(batch'[u])
  BY <1>1 DEF Once
<1>5. \A u \in Threads : ToSet(batch[u]) \subseteq Drained
  BY DEF Drained
<1>6. ASSUME NEW u \in Threads, NEW v \in Threads, u # v
      PROVE  ToSet(batch'[u]) \cap ToSet(batch'[v]) = {}
  <2>1. CASE u = t
    BY <1>1, <1>5, <1>6, <2>1
  <2>2. CASE v = t
    BY <1>1, <1>5, <1>6, <2>2
  <2>3. CASE u # t /\ v # t
    <3>1. ToSet(batch[u]) \cap ToSet(batch[v]) = {}
      BY <1>6 DEF Once
    <3> QED
      BY <1>1, <2>3, <3>1
  <2> QED
    BY <2>1, <2>2, <2>3
<1>7. Drained' = Drained \cup ToSet(b)
  BY <1>1, <1>2
<1> QED
  BY <1>3, <1>4, <1>6, <1>7

LEMMA PublishPlaces ==
  ASSUME TypeOK, Once, BufferBelowSize, Locking, Increasing(buffer), NEW t \in Threads, Publish(t)
  PROVE  TypeOK' /\ Once' /\ BufferBelowSize'
<1> USE PublisherAssumption
<1> DEFINE events == Append(buffer, published + 1)
<1>1. /\ published < MaxEvents /\ published' = published + 1 /\ pc[t] = "idle"
      /\ UNCHANGED <<inner, failures, evicted, refused>>
  BY DEF Publish
<1>2. /\ events \in Seq(Events) /\ Len(events) = Len(buffer) + 1
      /\ ToSet(events) = ToSet(buffer) \cup {published + 1}
      /\ IsInjective(events)
  BY <1>1, AppendingPublished
<1>3. /\ published \in Nat /\ published' \in 0 .. MaxEvents
      /\ 1 .. published' = (1 .. published) \cup {published + 1} /\ published + 1 \notin 1 .. published
  BY <1>1 DEF TypeOK
<1>4. /\ ToSet(buffer) \cup Drained \cup ToSet(inner) \cup evicted \cup refused = 1 .. published
      /\ Apart(ToSet(buffer), Drained, ToSet(inner), evicted, refused)
  BY DEF Once
<1>5. batch[t] = <<>>
  BY <1>1 DEF Locking
<1>6. CASE Len(events) >= BufferSize
  <2>1. batch' = [batch EXCEPT ![t] = events] /\ buffer' = <<>> /\ pc' = [pc EXCEPT ![t] = "deliver"]
    BY <1>6 DEF Publish, Drain
  <2> HIDE DEF events
  <2>2. ToSet(events) \cap Drained = {}
    BY <1>2, <1>3, <1>4 DEF Apart
  <2>3. /\ batch' \in [Threads -> Seq(Events)]
        /\ Drained' = Drained \cup ToSet(events)
        /\ \A u \in Threads : IsInjective(batch'[u])
        /\ \A u, v \in Threads : u # v => ToSet(batch'[u]) \cap ToSet(batch'[v]) = {}
    BY <1>2, <1>5, <2>1, <2>2, DrainingPlaces
  <2>4. TypeOK'
    BY <1>1, <1>3, <2>1, <2>3 DEF TypeOK
  <2>5. ToSet(buffer') = {} /\ IsInjective(buffer')
    BY <2>1 DEF ToSet, IsInjective
  <2>6. /\ (ToSet(buffer) \cup Drained \cup ToSet(inner) \cup evicted \cup refused = 1 .. published)'
        /\ Apart(ToSet(buffer), Drained, ToSet(inner), evicted, refused)'
    BY <1>1, <1>2, <1>3, <1>4, <2>3, <2>5 DEF Apart
  <2>7. Once'
    BY <1>1, <2>3, <2>5, <2>6 DEF Once
  <2>8. BufferBelowSize'
    BY <1>1, <2>1 DEF BufferBelowSize
  <2> QED
    BY <2>4, <2>7, <2>8
<1>7. CASE ~(Len(events) >= BufferSize)
  <2>1. buffer' = events /\ UNCHANGED <<batch, pc>>
    BY <1>7 DEF Publish
  <2>2. Len(buffer') < BufferSize /\ Len(buffer') \in Nat
    BY <1>2, <1>7, <2>1
  <2> HIDE DEF events
  <2>3. TypeOK'
    BY <1>1, <1>2, <1>3, <2>1 DEF TypeOK
  <2>4. Drained' = Drained
    BY <2>1 DEF Drained
  <2>5. /\ (ToSet(buffer) \cup Drained \cup ToSet(inner) \cup evicted \cup refused = 1 .. published)'
        /\ Apart(ToSet(buffer), Drained, ToSet(inner), evicted, refused)'
    BY <1>1, <1>2, <1>3, <1>4, <2>1, <2>4 DEF Apart
  <2>6. Once'
    BY <1>1, <1>2, <2>1, <2>5 DEF Once
  <2>7. BufferBelowSize'
    BY <1>1, <2>2 DEF BufferBelowSize
  <2> QED
    BY <2>3, <2>6, <2>7
<1> QED
  BY <1>6, <1>7

LEMMA FlushPlaces ==
  ASSUME TypeOK, Once, BufferBelowSize, Locking, NEW t \in Threads, Flush(t)
  PROVE  TypeOK' /\ Once' /\ BufferBelowSize'
<1> USE PublisherAssumption
<1>1. /\ batch' = [batch EXCEPT ![t] = buffer] /\ buffer' = <<>> /\ pc' = [pc EXCEPT ![t] = "flush"]
      /\ UNCHANGED <<inner, published, failures, evicted, refused>>
      /\ pc[t] = "idle"
  BY DEF Flush, Drain, history
<1>2. batch[t] = <<>> /\ buffer \in Seq(Events) /\ IsInjective(buffer)
  BY <1>1 DEF Locking, TypeOK, Once
<1>3. /\ ToSet(buffer) \cup Drained \cup ToSet(inner) \cup evicted \cup refused = 1 .. published
      /\ Apart(ToSet(buffer), Drained, ToSet(inner), evicted, refused)
  BY DEF Once
<1>4. ToSet(buffer) \cap Drained = {}
  BY <1>3 DEF Apart
<1>5. /\ batch' \in [Threads -> Seq(Events)]
      /\ Drained' = Drained \cup ToSet(buffer)
      /\ \A u \in Threads : IsInjective(batch'[u])
      /\ \A u, v \in Threads : u # v => ToSet(batch'[u]) \cap ToSet(batch'[v]) = {}
  BY <1>1, <1>2, <1>4, DrainingPlaces
<1>6. TypeOK'
  BY <1>1, <1>5 DEF TypeOK
<1>7. ToSet(buffer') = {} /\ IsInjective(buffer')
  BY <1>1 DEF ToSet, IsInjective
<1>8. /\ (ToSet(buffer) \cup Drained \cup ToSet(inner) \cup evicted \cup refused = 1 .. published)'
      /\ Apart(ToSet(buffer), Drained, ToSet(inner), evicted, refused)'
  BY <1>1, <1>3, <1>5, <1>7 DEF Apart
<1>9. Once'
  BY <1>1, <1>5, <1>7, <1>8 DEF Once
<1>10. BufferBelowSize'
  BY <1>1 DEF BufferBelowSize
<1> QED
  BY <1>6, <1>9, <1>10
LEMMA DeliverPlaces ==
  ASSUME TypeOK, Once, BufferBelowSize, NEW t \in Threads, Deliver(t)
  PROVE  TypeOK' /\ Once' /\ BufferBelowSize'
<1> DEFINE b == ToSet(batch[t])
           others == UNION {ToSet(batch[u]) : u \in Threads \ {t}}
<1>1. /\ Hand(batch[t]) /\ batch' = [batch EXCEPT ![t] = <<>>] /\ pc' = [pc EXCEPT ![t] = "idle"]
      /\ UNCHANGED <<buffer, published>>
  BY DEF Deliver
<1>2. /\ batch'[t] = <<>>
      /\ \A u \in Threads \ {t} : batch'[u] = batch[u]
      /\ Drained' = ToSet(<<>>) \cup others
      /\ Drained = b \cup others
  BY <1>1, BatchChanges
<1>3. ToSet(<<>>) = {} /\ IsInjective(<<>>)
  BY DEF ToSet, IsInjective
<1>4. b \cap others = {}
  <2>1. \A u \in Threads \ {t} : b \cap ToSet(batch[u]) = {}
    BY DEF Once
  <2> QED
    BY <2>1
<1>5. batch[t] \in Seq(Events) /\ IsInjective(batch[t]) /\ IsInjective(inner)
  BY DEF TypeOK, Once
<1> HIDE DEF b, others
<1>6. /\ ToSet(buffer) \cup Drained \cup ToSet(inner) \cup evicted \cup refused = 1 .. published
      /\ Apart(ToSet(buffer), Drained, ToSet(inner), evicted, refused)
  BY DEF Once
<1>7. /\ ToSet(inner) \cap evicted = {} /\ ToSet(inner) \cap refused = {} /\ evicted \cap refused = {}
      /\ b \cap (ToSet(inner) \cup evicted \cup refused) = {}
  BY <1>2, <1>6 DEF Apart
<1>8. /\ inner' \in Seq(Events) /\ failures' \in 0 .. MaxFailures
      /\ Len(inner') <= (IF MaxSize = 0 THEN 1 ELSE MaxSize)
      /\ IsInjective(inner')
      /\ ToSet(inner') \cap evicted' = {} /\ ToSet(inner') \cap refused' = {}
      /\ evicted' \cap refused' = {}
      /\ ToSet(inner') \cup evicted' \cup refused' = ToSet(inner) \cup evicted \cup refused \cup b
  BY <1>1, <1>5, <1>7, HandPlaces DEF b
<1>9. batch' \in [Threads -> Seq(Events)]
  BY <1>1 DEF TypeOK
<1>10. TypeOK'
  BY <1>1, <1>8, <1>9 DEF TypeOK
<1>11. /\ (ToSet(buffer) \cup Drained \cup ToSet(inner) \cup evicted \cup refused = 1 .. published)'
       /\ Apart(ToSet(buffer), Drained, ToSet(inner), evicted, refused)'
  <2>1. ToSet(buffer)' = ToSet(buffer) /\ (1 .. published)' = 1 .. published
    BY <1>1
  <2>2. Drained' = others /\ Drained = b \cup others
    BY <1>2, <1>3
  <2> QED
    BY <1>4, <1>6, <1>8, <2>1, <2>2 DEF Apart
<1>12. \A u, v \in Threads : u # v => ToSet(batch'[u]) \cap ToSet(batch'[v]) = {}
  BY <1>2, <1>3 DEF Once
<1>13. \A u \in Threads : IsInjective(batch'[u])
  BY <1>2, <1>3 DEF Once
<1>14. Once'
  BY <1>1, <1>8, <1>11, <1>12, <1>13 DEF Once
<1>15. BufferBelowSize'
  BY <1>1, <1>8 DEF BufferBelowSize
<1> QED
  BY <1>10, <1>14, <1>15

(* The events of a publish_batch are new, and in order. *)
LEMMA NewEvents ==
  ASSUME TypeOK, NEW n \in 1 .. MaxEvents - published
  PROVE  LET events == [i \in 1 .. n |-> published + i]
         IN  /\ events \in Seq(Events) /\ Increasing(events) /\ IsInjective(events)
             /\ ToSet(events) = published + 1 .. published + n
<1> DEFINE events == [i \in 1 .. n |-> published + i]
<1>1. published \in Nat /\ n \in Nat /\ MaxEvents \in Nat /\ published + n <= MaxEvents
  BY PublisherAssumption DEF TypeOK
<1>2. \A i \in 1 .. n : published + i \in Events
  BY <1>1 DEF Events
<1>3. events \in Seq(Events)
  BY <1>1, <1>2
<1>4. Increasing(events) /\ IsInjective(events)
  BY <1>1 DEF Increasing, IsInjective
<1>5. \A x \in published + 1 .. published + n : x - published \in 1 .. n /\ published + (x - published) = x
  BY <1>1
<1>6. ToSet(events) = {published + i : i \in 1 .. n}
  BY DEF ToSet
<1>7. {published + i : i \in 1 .. n} = published + 1 .. published + n
  BY <1>1, <1>5
<1> QED
  BY <1>3, <1>4, <1>6, <1>7

LEMMA PublishBatchPlaces ==
  ASSUME TypeOK, Once, BufferBelowSize, NEW t \in Threads, PublishBatch(t)
  PROVE  TypeOK' /\ Once' /\ BufferBelowSize'
<1> USE PublisherAssumption
<1>1. PICK n \in 1 .. MaxEvents - published :
        Hand([i \in 1 .. n |-> published + i]) /\ published' = published + n
  BY DEF PublishBatch
<1> DEFINE events == [i \in 1 .. n |-> published + i]
<1>2. /\ events \in Seq(Events) /\ IsInjective(events)
      /\ ToSet(events) = published + 1 .. published + n
  BY NewEvents
<1>3. Hand(events) /\ UNCHANGED <<buffer, batch, pc>>
  BY <1>1 DEF PublishBatch
<1> HIDE DEF events
<1>4. /\ published \in Nat /\ n \in Nat /\ published' \in 0 .. MaxEvents
      /\ 1 .. published' = (1 .. published) \cup (published + 1 .. published + n)
      /\ (1 .. published) \cap (published + 1 .. published + n) = {}
  BY <1>1 DEF TypeOK
<1>5. /\ ToSet(buffer) \cup Drained \cup ToSet(inner) \cup evicted \cup refused = 1 .. published
      /\ Apart(ToSet(buffer), Drained, ToSet(inner), evicted, refused)
      /\ IsInjective(inner)
  BY DEF Once
<1>6. /\ ToSet(inner) \cap evicted = {} /\ ToSet(inner) \cap refused = {} /\ evicted \cap refused = {}
      /\ ToSet(events) \cap (ToSet(inner) \cup evicted \cup refused) = {}
  BY <1>2, <1>4, <1>5 DEF Apart
<1>7. /\ inner' \in Seq(Events) /\ failures' \in 0 .. MaxFailures
      /\ Len(inner') <= (IF MaxSize = 0 THEN 1 ELSE MaxSize)
      /\ IsInjective(inner')
      /\ ToSet(inner') \cap evicted' = {} /\ ToSet(inner') \cap refused' = {}
      /\ evicted' \cap refused' = {}
      /\ ToSet(inner') \cup evicted' \cup refused'
           = ToSet(inner) \cup evicted \cup refused \cup ToSet(events)
  BY <1>2, <1>3, <1>5, <1>6, HandPlaces
<1>8. TypeOK'
  BY <1>3, <1>4, <1>7 DEF TypeOK
<1>9. /\ (ToSet(buffer) \cup Drained \cup ToSet(inner) \cup evicted \cup refused = 1 .. published)'
      /\ Apart(ToSet(buffer), Drained, ToSet(inner), evicted, refused)'
  <2>1. ToSet(buffer)' = ToSet(buffer) /\ Drained' = Drained
    BY <1>3 DEF Drained
  <2> QED
    BY <1>2, <1>4, <1>5, <1>7, <2>1 DEF Apart
<1>10. Once'
  BY <1>3, <1>7, <1>9 DEF Once
<1>11. BufferBelowSize'
  BY <1>3, <1>7 DEF BufferBelowSize
<1> QED
  BY <1>8, <1>10, <1>11

LEMMA ClearPlaces ==
  ASSUME TypeOK, Once, BufferBelowSize, NEW t \in Threads, Clear(t)
  PROVE  TypeOK' /\ Once' /\ BufferBelowSize'
<1> USE PublisherAssumption
<1>1. /\ inner' = <<>> /\ evicted' = evicted \cup ToSet(inner)
      /\ UNCHANGED <<buffer, batch, pc, published, failures, refused>>
  BY DEF Clear
<1>2. ToSet(inner') = {} /\ IsInjective(inner')
  BY <1>1 DEF ToSet, IsInjective
<1>3. Drained' = Drained
  BY <1>1 DEF Drained
<1>4. TypeOK'
  BY <1>1 DEF TypeOK
<1>5. Once'
  BY <1>1, <1>2, <1>3 DEF Once, Apart
<1>6. BufferBelowSize'
  BY <1>1 DEF BufferBelowSize
<1> QED
  BY <1>4, <1>5, <1>6
-----------------------------------------------------------------------------
(* Event numbers, where they are. *)
LEMMA Numbers ==
  ASSUME TypeOK, Once
  PROVE  /\ published \in Nat
         /\ \A x \in ToSet(buffer) \cup ToSet(inner) : x \in Nat /\ x <= published
         /\ \A t \in Threads : \A x \in ToSet(batch[t]) : x \in Nat /\ x <= published
         /\ \A e \in Waiting : e \in Nat /\ e <= published
<1>1. published \in Nat
  BY PublisherAssumption DEF TypeOK
<1>2. \A t \in Threads : ToSet(batch[t]) \subseteq Drained
  BY DEF Drained
<1>3. ToSet(buffer) \cup ToSet(inner) \cup Drained \subseteq 1 .. published
  BY DEF Once
<1>4. \A x \in 1 .. published : x \in Nat /\ x <= published
  BY <1>1
<1>5. \A e \in Waiting : e \in ToSet(buffer) \cup Drained
  BY <1>2, WhatWaits
<1> QED
  BY <1>1, <1>2, <1>3, <1>4, <1>5

LEMMA PublishOrder ==
  ASSUME TypeOK, Once, Ordering, FlushKeepsOrder, NEW t \in Threads, Publish(t)
  PROVE  Ordering' /\ FlushKeepsOrder'
<1> DEFINE events == Append(buffer, published + 1)
<1>1. /\ published < MaxEvents /\ UNCHANGED <<inner, direct>>
      /\ \A u \in Threads : pc[u] # "flush"
  BY DEF Publish, Unlocked
<1>2. ToSet(events) = ToSet(buffer) \cup {published + 1} /\ Increasing(events) /\ Increasing(<<>>)
  BY <1>1, AppendingPublished DEF Ordering, Increasing
<1>3. \A e : e \in Waiting <=> e \in ToSet(buffer)
  BY <1>1, WhatWaits
<1>4. CASE Len(events) >= BufferSize
  <2>1. /\ batch' = [batch EXCEPT ![t] = events] /\ buffer' = <<>> /\ pc' = [pc EXCEPT ![t] = "deliver"]
        /\ loose' = loose \cup ToSet(events)
    BY <1>4 DEF Publish, Drain
  <2> HIDE DEF events
  <2>2. /\ batch'[t] = events /\ \A u \in Threads \ {t} : batch'[u] = batch[u] /\ pc'[u] = pc[u]
        /\ pc'[t] = "deliver"
    BY <2>1 DEF TypeOK
  <2>3. ToSet(buffer') = {}
    BY <2>1 DEF ToSet
  <2>4. \A e : e \notin Waiting'
    BY <1>1, <2>2, <2>3, WhatWaits
  <2>5. \A u \in Threads : Increasing(batch'[u])
    BY <1>2, <2>2 DEF Ordering
  <2>6. \A u \in Threads : pc'[u] = "deliver" => ToSet(batch'[u]) \subseteq loose'
    BY <2>1, <2>2 DEF Ordering
  <2>7. Ordering'
    BY <1>2, <2>1, <2>4, <2>5, <2>6 DEF Ordering
  <2>8. FlushKeepsOrder'
    BY <1>1, <2>1 DEF FlushKeepsOrder
  <2> QED
    BY <2>7, <2>8
<1>5. CASE ~(Len(events) >= BufferSize)
  <2>1. buffer' = events /\ UNCHANGED <<batch, pc, loose>>
    BY <1>5 DEF Publish
  <2> HIDE DEF events
  <2>2. \A e : e \in Waiting' <=> e \in Waiting \/ e = published + 1
    BY <1>1, <1>2, <1>3, <2>1, WhatWaits
  <2>3. ASSUME NEW u \in Threads, pc'[u] = "deliver", NEW x \in ToSet(batch'[u])
        PROVE  x \in loose' /\ \A e \in Waiting' : x < e
    <3>1. pc[u] = "deliver" /\ x \in ToSet(batch[u])
      BY <2>1, <2>3
    <3>2. x \in Nat /\ x <= published /\ published \in Nat
      BY <3>1, Numbers
    <3>3. x \in loose /\ \A e \in Waiting : x < e
      BY <3>1 DEF Ordering
    <3> QED
      BY <2>1, <2>2, <3>2, <3>3
  <2>4. ASSUME NEW e \in Waiting', NEW x \in ToSet(inner'), x > e PROVE x \in direct'
    <3>1. x \in ToSet(inner) /\ x \in Nat /\ x <= published /\ published \in Nat
      BY <1>1, <2>4, Numbers
    <3>2. e \in Waiting
      BY <2>2, <2>4, <3>1
    <3> QED
      BY <1>1, <2>4, <3>1, <3>2 DEF Ordering
  <2>5. Increasing(buffer') /\ \A u \in Threads : Increasing(batch'[u])
    BY <1>2, <2>1 DEF Ordering
  <2>6. Ordering'
    BY <2>3, <2>4, <2>5 DEF Ordering
  <2>7. FlushKeepsOrder'
    BY <1>1, <2>1 DEF FlushKeepsOrder
  <2> QED
    BY <2>6, <2>7
<1> QED
  BY <1>4, <1>5

LEMMA FlushOrder ==
  ASSUME TypeOK, Once, Ordering, FlushKeepsOrder, NEW t \in Threads, Flush(t)
  PROVE  Ordering' /\ FlushKeepsOrder'
<1>1. /\ batch' = [batch EXCEPT ![t] = buffer] /\ buffer' = <<>> /\ pc' = [pc EXCEPT ![t] = "flush"]
      /\ UNCHANGED <<inner, loose, direct>>
      /\ \A u \in Threads : pc[u] # "flush"
  BY DEF Flush, Drain, Unlocked, history
<1>2. /\ batch'[t] = buffer /\ \A u \in Threads \ {t} : batch'[u] = batch[u] /\ pc'[u] = pc[u]
      /\ pc'[t] = "flush"
  BY <1>1 DEF TypeOK
<1>3. ToSet(buffer') = {} /\ Increasing(<<>>)
  BY <1>1 DEF ToSet, Increasing
<1>4. \A e \in Waiting' : e \in Waiting
  BY <1>1, <1>2, <1>3, WhatWaits
<1>5. Increasing(buffer') /\ \A u \in Threads : Increasing(batch'[u])
  BY <1>1, <1>2, <1>3 DEF Ordering
<1>6. ASSUME NEW u \in Threads, pc'[u] = "deliver", NEW x \in ToSet(batch'[u])
      PROVE  x \in loose' /\ \A e \in Waiting' : x < e
  <2>1. pc[u] = "deliver" /\ x \in ToSet(batch[u])
    BY <1>2, <1>6
  <2> QED
    BY <1>1, <1>4, <2>1 DEF Ordering
<1>7. ASSUME NEW e \in Waiting', NEW x \in ToSet(inner'), x > e PROVE x \in direct'
  BY <1>1, <1>4, <1>7 DEF Ordering
<1>8. Ordering'
  BY <1>5, <1>6, <1>7 DEF Ordering
<1>9. FlushKeepsOrder'
  BY <1>1 DEF FlushKeepsOrder
<1> QED
  BY <1>8, <1>9

LEMMA DeliverOrder ==
  ASSUME TypeOK, Once, BufferBelowSize, Locking, Ordering, FlushKeepsOrder, NEW t \in Threads, Deliver(t)
  PROVE  Ordering' /\ FlushKeepsOrder'
<1>1. /\ Hand(batch[t]) /\ batch' = [batch EXCEPT ![t] = <<>>] /\ pc' = [pc EXCEPT ![t] = "idle"]
      /\ UNCHANGED <<buffer, loose, direct>>
      /\ pc[t] \in {"deliver", "flush"}
  BY DEF Deliver
<1>2. /\ batch'[t] = <<>> /\ \A u \in Threads \ {t} : batch'[u] = batch[u] /\ pc'[u] = pc[u]
      /\ pc'[t] = "idle"
  BY <1>1 DEF TypeOK
<1>3. batch[t] \in Seq(Events) /\ Increasing(batch[t])
  BY DEF TypeOK, Ordering
<1>4. Increasing(<<>>) /\ ToSet(<<>>) = {}
  BY DEF Increasing, ToSet
<1>5. \A e \in Waiting' : e \in Waiting
  BY <1>1, <1>2, WhatWaits
<1>6. ToSet(inner') \subseteq ToSet(inner) \cup ToSet(batch[t])
  <2>1. CASE Receive(batch[t])
    <3>1. /\ inner \in Seq(Events) /\ MaxSize \in Nat /\ inner' = Newest(MaxSize, inner \o batch[t])
      BY <1>3, <2>1, PublisherAssumption, ReceivesNewest DEF TypeOK
    <3>2. inner \o batch[t] \in Seq(Events) /\ ToSet(inner \o batch[t]) = ToSet(inner) \cup ToSet(batch[t])
      BY <1>3, <3>1, HoldsTogether
    <3>3. ToSet(Newest(MaxSize, inner \o batch[t])) \subseteq ToSet(inner \o batch[t])
      BY <3>1, <3>2, NewestIsAnEnd, Zenon
    <3> QED
      BY <3>1, <3>2, <3>3
  <2>2. CASE inner' = inner
    BY <2>2
  <2> QED
    BY <1>1, <2>1, <2>2 DEF Hand
<1>7. \A x \in ToSet(inner), y \in ToSet(batch[t]) : x > y => x \in direct' \/ y \in loose'
  <2>1. CASE pc[t] = "deliver"
    BY <1>1, <2>1 DEF Ordering
  <2>2. CASE pc[t] = "flush"
    <3>1. \A y \in ToSet(batch[t]) : y \in Waiting
      BY <2>2, WhatWaits
    <3> QED
      BY <1>1, <3>1 DEF Ordering
  <2> QED
    BY <1>1, <2>1, <2>2
<1>8. FlushKeepsOrder'
  BY <1>1, <1>3, <1>7, HandOrder
<1>9. ASSUME NEW u \in Threads, pc'[u] = "deliver", NEW x \in ToSet(batch'[u])
      PROVE  x \in loose' /\ \A e \in Waiting' : x < e
  <2>1. pc[u] = "deliver" /\ x \in ToSet(batch[u])
    BY <1>2, <1>9
  <2> QED
    BY <1>1, <1>5, <2>1 DEF Ordering
<1>10. ASSUME NEW e \in Waiting', NEW x \in ToSet(inner'), x > e PROVE x \in direct'
  <2>1. e \in Waiting /\ (x \in ToSet(inner) => x \in direct)
    BY <1>5, <1>10 DEF Ordering
  <2>2. CASE x \in ToSet(batch[t]) /\ pc[t] = "deliver"
    <3>1. x < e
      BY <2>1, <2>2 DEF Ordering
    <3>2. x \in Nat /\ e \in Nat
      BY <2>1, <2>2, Numbers
    <3> QED
      BY <1>10, <3>1, <3>2
  <2>3. CASE pc[t] = "flush"
    <3>1. buffer' = <<>> /\ \A u \in Threads : pc'[u] # "flush"
      BY <1>1, <1>2, <2>3 DEF Locking
    <3>2. e \notin Waiting'
      BY <1>4, <3>1, WhatWaits
    <3> QED
      BY <1>10, <3>2
  <2> QED
    BY <1>1, <1>6, <1>10, <2>1, <2>2, <2>3
<1>11. Increasing(buffer') /\ \A u \in Threads : Increasing(batch'[u])
  BY <1>1, <1>2, <1>4 DEF Ordering
<1>12. Ordering'
  BY <1>9, <1>10, <1>11 DEF Ordering
<1> QED
  BY <1>8, <1>12
LEMMA PublishBatchOrder ==
  ASSUME TypeOK, Once, BufferBelowSize, Ordering, FlushKeepsOrder, NEW t \in Threads, PublishBatch(t)
  PROVE  Ordering' /\ FlushKeepsOrder'
<1>1. PICK n \in 1 .. MaxEvents - published :
        /\ Hand([i \in 1 .. n |-> published + i])
        /\ direct' = direct \cup ToSet([i \in 1 .. n |-> published + i])
  BY DEF PublishBatch
<1> DEFINE events == [i \in 1 .. n |-> published + i]
<1>2. /\ events \in Seq(Events) /\ Increasing(events)
      /\ ToSet(events) = published + 1 .. published + n
  BY NewEvents
<1>3. Hand(events) /\ direct' = direct \cup ToSet(events) /\ UNCHANGED <<buffer, batch, pc, loose>>
  BY <1>1 DEF PublishBatch
<1> HIDE DEF events
<1>4. inner \in Seq(Events) /\ MaxSize \in Nat /\ published \in Nat
  BY PublisherAssumption DEF TypeOK
<1>5. ToSet(inner') \subseteq ToSet(inner) \cup ToSet(events)
  <2>1. CASE Receive(events)
    <3>1. inner' = Newest(MaxSize, inner \o events)
      BY <1>2, <2>1, ReceivesNewest
    <3>2. inner \o events \in Seq(Events) /\ ToSet(inner \o events) = ToSet(inner) \cup ToSet(events)
      BY <1>2, <1>4, HoldsTogether
    <3>3. ToSet(Newest(MaxSize, inner \o events)) \subseteq ToSet(inner \o events)
      BY <1>4, <3>2, NewestIsAnEnd, Zenon
    <3> QED
      BY <3>1, <3>2, <3>3
  <2>2. CASE inner' = inner
    BY <2>2
  <2> QED
    BY <1>3, <2>1, <2>2 DEF Hand
<1>6. \A x \in ToSet(inner), y \in ToSet(events) : ~(x > y)
  <2>1. \A x \in ToSet(inner) : x \in Nat /\ x <= published
    BY Numbers
  <2> QED
    BY <1>2, <1>4, <2>1
<1>7. FlushKeepsOrder'
  BY <1>2, <1>3, <1>6, HandOrder
<1>8. \A e : e \in Waiting' <=> e \in Waiting
  BY <1>3, WhatWaits
<1>9. \A u \in Threads : pc'[u] = "deliver" =>
        \A x \in ToSet(batch'[u]) : x \in loose' /\ \A e \in Waiting' : x < e
  BY <1>3, <1>8 DEF Ordering
<1>10. ASSUME NEW e \in Waiting', NEW x \in ToSet(inner'), x > e PROVE x \in direct'
  BY <1>3, <1>5, <1>8, <1>10 DEF Ordering
<1>11. Increasing(buffer') /\ \A u \in Threads : Increasing(batch'[u])
  BY <1>3 DEF Ordering
<1>12. Ordering'
  BY <1>9, <1>10, <1>11 DEF Ordering
<1> QED
  BY <1>7, <1>12

LEMMA ClearOrder ==
  ASSUME Ordering, FlushKeepsOrder, NEW t \in Threads, Clear(t)
  PROVE  Ordering' /\ FlushKeepsOrder'
<1>1. inner' = <<>> /\ UNCHANGED <<buffer, batch, pc, loose, direct>>
  BY DEF Clear
<1>2. ToSet(inner') = {} /\ DOMAIN inner' = {}
  BY <1>1 DEF ToSet
<1>3. \A e : e \in Waiting' <=> e \in Waiting
  BY <1>1, WhatWaits
<1> QED
  BY <1>1, <1>2, <1>3 DEF Ordering, FlushKeepsOrder

LEMMA PublisherStep == PublisherInv /\ [Next]_vars => PublisherInv'
<1> SUFFICES ASSUME PublisherInv, [Next]_vars PROVE PublisherInv'
  OBVIOUS
<1>1. TypeOK /\ Once /\ BufferBelowSize /\ Locking /\ Ordering /\ FlushKeepsOrder /\ Increasing(buffer)
  BY OnceIsInOnePlace DEF PublisherInv, Ordering
<1> DEFINE Kept == TypeOK /\ Once /\ BufferBelowSize /\ Ordering /\ FlushKeepsOrder
<1>2. Kept'
  <2>1. ASSUME NEW t \in Threads, Publish(t) PROVE Kept'
    BY <1>1, <2>1, PublishPlaces, PublishOrder
  <2>2. ASSUME NEW t \in Threads, Flush(t) PROVE Kept'
    BY <1>1, <2>2, FlushPlaces, FlushOrder
  <2>3. ASSUME NEW t \in Threads, Deliver(t) PROVE Kept'
    BY <1>1, <2>3, DeliverPlaces, DeliverOrder
  <2>4. ASSUME NEW t \in Threads, PublishBatch(t) PROVE Kept'
    BY <1>1, <2>4, PublishBatchPlaces, PublishBatchOrder
  <2>5. ASSUME NEW t \in Threads, Clear(t) PROVE Kept'
    BY <1>1, <2>5, ClearPlaces, ClearOrder
  <2>6. CASE UNCHANGED vars
    <3>1. /\ UNCHANGED <<buffer, inner, batch, pc, published, failures>>
          /\ UNCHANGED <<evicted, refused, loose, direct>>
      BY <2>6 DEF vars, history
    <3>2. TypeOK' /\ BufferBelowSize' /\ FlushKeepsOrder'
      BY <1>1, <3>1 DEF TypeOK, BufferBelowSize, FlushKeepsOrder
    <3>3. Drained' = Drained /\ Waiting' = Waiting
      BY <3>1 DEF Drained, Waiting
    <3> QED
      BY <1>1, <3>1, <3>2, <3>3 DEF Once, Ordering
  <2> QED
    BY <2>1, <2>2, <2>3, <2>4, <2>5, <2>6 DEF Next
<1>3. Locking'
  BY <1>1, LockingStep
<1> QED
  BY <1>2, <1>3, OnceIsInOnePlace DEF PublisherInv

LEMMA PublisherInvariant == Spec => []PublisherInv
BY PublisherBegins, PublisherStep, PTL DEF Spec

(***************************************************************************)
(* Every event published is in exactly one place, once: the buffer, the    *)
(* batch of one thread, the queue, or it was evicted or refused, however   *)
(* publish, flush, publish_batch and clear of any number of threads        *)
(* interleave (BufferedEventPublisher, InMemoryEventPublisher).            *)
(***************************************************************************)
THEOREM EventsCounted == Spec => []EachInOnePlace
<1>1. PublisherInv => EachInOnePlace
  BY DEF PublisherInv
<1> QED
  BY <1>1, PublisherInvariant, PTL

(***************************************************************************)
(* No full buffer is ever left, and the queue keeps to its size, for any   *)
(* sizes, zero included (publish, publish_batch).                          *)
(***************************************************************************)
THEOREM SizesKept == Spec => []BufferBelowSize
<1>1. PublisherInv => BufferBelowSize
  BY DEF PublisherInv
<1> QED
  BY <1>1, PublisherInvariant, PTL

(***************************************************************************)
(* The order of events can only be lost to a publish that has let go of    *)
(* the buffer or to a publish_batch: flush keeps it (flush_buffer).        *)
(***************************************************************************)
THEOREM OrderKeptByFlush == Spec => []FlushKeepsOrder
<1>1. PublisherInv => FlushKeepsOrder
  BY DEF PublisherInv
<1> QED
  BY <1>1, PublisherInvariant, PTL
=============================================================================
