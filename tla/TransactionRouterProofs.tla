------------------------ MODULE TransactionRouterProofs ------------------------
(***************************************************************************)
(* Theorems about TransactionRouter for every set of workers, every set of *)
(* validated route tables, every strategy and every breaker configuration. *)
(***************************************************************************)
EXTENDS TransactionRouter, FiniteSetTheorems, SequenceTheorems, TLAPS

-----------------------------------------------------------------------------
(* Pick(seq, at) is the subsequence of seq at the positions at.              *)

Rank(i, at) == Cardinality({j \in at : j <= i})

LEMMA RankType ==
  ASSUME NEW at, at \subseteq Nat, IsFiniteSet(at)
  PROVE  \A i \in at : Rank(i, at) \in 1 .. Cardinality(at)
<1> SUFFICES ASSUME NEW i \in at PROVE Rank(i, at) \in 1 .. Cardinality(at)
  OBVIOUS
<1> DEFINE upto == {j \in at : j <= i}
<1>1. IsFiniteSet(upto) /\ Cardinality(upto) <= Cardinality(at)
  BY FS_Subset
<1>2. Cardinality(upto) \in Nat /\ Cardinality(at) \in Nat
  BY <1>1, FS_CardinalityType
<1>3. i \in upto
  OBVIOUS
<1>4. Cardinality(upto) # 0
  BY <1>1, <1>3, FS_EmptySet
<1> QED
  BY <1>1, <1>2, <1>4 DEF Rank

LEMMA RankGrows ==
  ASSUME NEW at, at \subseteq Nat, IsFiniteSet(at), NEW i \in at, NEW k \in at, i < k
  PROVE  Rank(i, at) < Rank(k, at)
<1> DEFINE below == {j \in at : j <= i}
           upto  == {j \in at : j <= k}
<1>1. IsFiniteSet(upto)
  BY FS_Subset
<1>2. below \in SUBSET upto /\ k \in upto /\ k \notin below
  <2>1. i \in Nat /\ k \in Nat /\ \A j \in at : j \in Nat
    OBVIOUS
  <2>2. \A j \in below : j \in upto
    BY <2>1
  <2>3. k \in upto /\ k \notin below
    BY <2>1
  <2> QED
    BY <2>2, <2>3
<1>3. /\ IsFiniteSet(below)
      /\ Cardinality(below) <= Cardinality(upto)
      /\ Cardinality(upto) = Cardinality(below) => upto = below
  BY <1>1, <1>2, FS_Subset
<1>4. Cardinality(below) \in Nat /\ Cardinality(upto) \in Nat
  BY <1>1, <1>3, FS_CardinalityType
<1> QED
  BY <1>2, <1>3, <1>4 DEF Rank

(* Ranks are different, so as many positions have every rank.                *)
LEMMA RankTaken ==
  ASSUME NEW at, at \subseteq Nat, IsFiniteSet(at), NEW n \in 1 .. Cardinality(at)
  PROVE  \E i \in at : Rank(i, at) = n
<1> DEFINE rank == [i \in at |-> Rank(i, at)]
           ranks == 1 .. Cardinality(at)
<1>1. Cardinality(at) \in Nat
  BY FS_CardinalityType
<1>2. IsFiniteSet(ranks) /\ Cardinality(ranks) = Cardinality(at)
  BY <1>1, FS_Interval
<1>3. rank \in [at -> ranks]
  BY RankType
<1>4. ASSUME NEW i \in at, NEW k \in at, rank[i] = rank[k] PROVE i = k
  <2>1. Rank(i, at) \in Nat /\ Rank(k, at) = Rank(i, at)
    BY <1>1, <1>3, <1>4
  <2>2. ~(Rank(i, at) < Rank(k, at)) /\ ~(Rank(k, at) < Rank(i, at))
    BY <2>1
  <2>3. ~(i < k) /\ ~(k < i)
    BY <2>2, RankGrows
  <2> QED
    BY <2>3
<1>5. rank \in Injection(at, ranks)
  BY <1>3, <1>4, Zenon DEF Injection, IsInjective
<1>6. rank \in Surjection(at, ranks)
  BY <1>2, <1>5, FS_Injection
<1> QED
  BY <1>6 DEF Surjection

LEMMA PickProperties ==
  ASSUME NEW S, NEW seq \in Seq(S), NEW at \in SUBSET DOMAIN seq
  PROVE  \E from \in [1 .. Cardinality(at) -> at] :
           /\ Cardinality(at) \in Nat
           /\ Pick(seq, at) = [k \in 1 .. Cardinality(at) |-> seq[from[k]]]
           /\ \A j, k \in DOMAIN from : j < k => from[j] < from[k]
           /\ \A i \in at : \E k \in DOMAIN from : from[k] = i
<1> DEFINE n == Cardinality(at)
           from == [k \in 1 .. n |-> CHOOSE i \in at : Rank(i, at) = k]
<1>1. DOMAIN seq = 1 .. Len(seq) /\ Len(seq) \in Nat
  OBVIOUS
<1>2. at \subseteq Nat /\ IsFiniteSet(at) /\ n \in Nat
  <2>1. IsFiniteSet(1 .. Len(seq))
    BY <1>1, FS_Interval
  <2> QED
    BY <1>1, <2>1, FS_Subset, FS_CardinalityType
<1>3. \A k \in 1 .. n : from[k] \in at /\ Rank(from[k], at) = k
  BY <1>2, RankTaken
<1>4. from \in [1 .. n -> at]
  BY <1>3
<1>5. Pick(seq, at) = [k \in 1 .. n |-> seq[from[k]]]
  BY DEF Pick, Rank
<1>6. ASSUME NEW j \in 1 .. n, NEW k \in 1 .. n, j < k PROVE from[j] < from[k]
  <2>1. from[j] \in Nat /\ from[k] \in Nat /\ from[j] # from[k]
    BY <1>2, <1>3, <1>6
  <2>2. ~(from[k] < from[j])
    BY <1>2, <1>3, <1>6, RankGrows
  <2> QED
    BY <2>1, <2>2
<1>7. ASSUME NEW i \in at PROVE \E k \in 1 .. n : from[k] = i
  <2> DEFINE k == Rank(i, at)
  <2>1. k \in 1 .. n
    BY <1>2, RankType
  <2>2. from[k] \in at /\ Rank(from[k], at) = Rank(i, at)
    BY <1>3, <2>1
  <2>3. ~(from[k] < i) /\ ~(i < from[k])
    BY <1>2, <2>2, <2>1, RankGrows
  <2>4. from[k] \in Nat /\ i \in Nat
    BY <1>2, <2>2
  <2> QED
    BY <2>1, <2>3, <2>4
<1> HIDE DEF from
<1> QED
  BY <1>2, <1>4, <1>5, <1>6, <1>7

(* So a filter invents nothing, loses nothing and repeats nothing.           *)
LEMMA PickElements ==
  ASSUME NEW S, NEW seq \in Seq(S), NEW at \in SUBSET DOMAIN seq
  PROVE  /\ Pick(seq, at) \in Seq(S)
         /\ \A k \in DOMAIN Pick(seq, at) : \E i \in at : Pick(seq, at)[k] = seq[i]
         /\ \A i \in at : \E k \in DOMAIN Pick(seq, at) : Pick(seq, at)[k] = seq[i]
<1>1. PICK from \in [1 .. Cardinality(at) -> at] :
        /\ Cardinality(at) \in Nat
        /\ Pick(seq, at) = [k \in 1 .. Cardinality(at) |-> seq[from[k]]]
        /\ \A i \in at : \E k \in DOMAIN from : from[k] = i
  BY PickProperties
<1> DEFINE n == Cardinality(at)
<1>2. \A k \in 1 .. n : from[k] \in DOMAIN seq /\ seq[from[k]] \in S
  <2>1. \A i \in DOMAIN seq : seq[i] \in S
    OBVIOUS
  <2> QED
    BY <1>1, <2>1
<1>3. Pick(seq, at) \in Seq(S)
  BY <1>1, <1>2, IsASeq
<1> QED
  BY <1>1, <1>3

(* One PSP, one route: what a validated table guarantees, and what keeps the *)
(* fallback of a decision apart from its selection.                          *)
Distinct(seq) == \A i, j \in DOMAIN seq : seq[i].psp = seq[j].psp => i = j

LEMMA PickDistinct ==
  ASSUME NEW S, NEW seq \in Seq(S), NEW at \in SUBSET DOMAIN seq, Distinct(seq)
  PROVE  Distinct(Pick(seq, at))
<1>1. PICK from \in [1 .. Cardinality(at) -> at] :
        /\ Cardinality(at) \in Nat
        /\ Pick(seq, at) = [k \in 1 .. Cardinality(at) |-> seq[from[k]]]
        /\ \A j, k \in DOMAIN from : j < k => from[j] < from[k]
  BY PickProperties
<1> SUFFICES ASSUME NEW j \in 1 .. Cardinality(at), NEW k \in 1 .. Cardinality(at),
                    seq[from[j]].psp = seq[from[k]].psp
             PROVE  j = k
  BY <1>1 DEF Distinct
<1>2. from[j] = from[k]
  BY <1>1 DEF Distinct
<1>3. \A i \in at : i \in Nat
  OBVIOUS
<1>4. ~(j < k) /\ ~(k < j)
  BY <1>1, <1>2, <1>3
<1> QED
  BY <1>1, <1>4

(* apply_merchant_preferences only drops and moves candidates.               *)
LEMMA PreferringElements ==
  ASSUME NEW S, NEW seq \in Seq(S), NEW kept \in SUBSET DOMAIN seq, NEW prefs
  PROVE  LET result == Preferring(seq, kept, prefs)
         IN  /\ result \in Seq(S)
             /\ \A k \in DOMAIN result : \E i \in kept : result[k] = seq[i]
             /\ Distinct(seq) => Distinct(result)
<1> DEFINE first == {i \in kept : seq[i].psp \in prefs.preferred}
           rest  == kept \ first
           a == Pick(seq, first)
           b == Pick(seq, rest)
           result == Preferring(seq, kept, prefs)
<1>1. first \in SUBSET DOMAIN seq /\ rest \in SUBSET DOMAIN seq
  OBVIOUS
<1>2. /\ a \in Seq(S) /\ b \in Seq(S)
      /\ \A k \in DOMAIN a : \E i \in first : a[k] = seq[i]
      /\ \A k \in DOMAIN b : \E i \in rest : b[k] = seq[i]
  BY <1>1, PickElements
<1>3. Distinct(seq) => Distinct(a) /\ Distinct(b)
  BY <1>1, PickDistinct
<1>4. result = a \o b
  BY DEF Preferring
<1> HIDE DEF a, b, result
<1>5. /\ result \in Seq(S)
      /\ Len(a) \in Nat /\ Len(b) \in Nat
      /\ DOMAIN a = 1 .. Len(a) /\ DOMAIN b = 1 .. Len(b)
      /\ DOMAIN result = 1 .. Len(a) + Len(b)
      /\ \A k \in DOMAIN result :
           result[k] = IF k <= Len(a) THEN a[k] ELSE b[k - Len(a)]
  BY <1>2, <1>4
<1>6. \A k \in DOMAIN result :
        \/ k \in DOMAIN a /\ result[k] = a[k]
        \/ k > Len(a) /\ k - Len(a) \in DOMAIN b /\ result[k] = b[k - Len(a)]
  BY <1>5
<1>7. \A k \in DOMAIN result : \E i \in kept : result[k] = seq[i]
  BY <1>2, <1>6
<1>8. ASSUME Distinct(seq), NEW j \in DOMAIN a, NEW k \in DOMAIN b
      PROVE  a[j].psp # b[k].psp
  <2>1. PICK i \in first : a[j] = seq[i]
    BY <1>2
  <2>2. PICK h \in rest : b[k] = seq[h]
    BY <1>2
  <2>3. i # h /\ i \in DOMAIN seq /\ h \in DOMAIN seq
    OBVIOUS
  <2> QED
    BY <1>8, <2>1, <2>2, <2>3 DEF Distinct
<1>9. ASSUME Distinct(seq), NEW j \in DOMAIN result, NEW k \in DOMAIN result,
             result[j].psp = result[k].psp
      PROVE  j = k
  <2>1. CASE j \in DOMAIN a /\ result[j] = a[j]
    <3>1. k \in DOMAIN a /\ result[k] = a[k]
      BY <1>6, <1>8, <1>9, <2>1
    <3> QED
      BY <1>3, <1>9, <2>1, <3>1 DEF Distinct
  <2>2. CASE j > Len(a) /\ j - Len(a) \in DOMAIN b /\ result[j] = b[j - Len(a)]
    <3>1. k > Len(a) /\ k - Len(a) \in DOMAIN b /\ result[k] = b[k - Len(a)]
      BY <1>6, <1>8, <1>9, <2>2
    <3>2. j - Len(a) = k - Len(a)
      BY <1>3, <1>9, <2>2, <3>1 DEF Distinct
    <3> QED
      BY <1>5, <3>2
  <2> QED
    BY <1>6, <2>1, <2>2
<1> QED
  BY <1>5, <1>7, <1>9 DEF result, Distinct

-----------------------------------------------------------------------------
(* What the router does to a breaker gives a breaker.                        *)

LEMMA TransitionToType ==
  ASSUME NEW b \in Breaker, NEW s \in CircuitState
  PROVE  TransitionTo(b, s) \in Breaker
  BY BreakerAssumption DEF TransitionTo, Breaker, CircuitState

LEMMA CountersInRange ==
  /\ \A n \in 0 .. FailureThreshold : Bump(n, FailureThreshold) \in 0 .. FailureThreshold
  /\ \A n \in 0 .. SuccessThreshold : Bump(n, SuccessThreshold) \in 0 .. SuccessThreshold
  /\ 0 \in 0 .. FailureThreshold /\ 0 \in 0 .. SuccessThreshold
  BY BreakerAssumption DEF Bump

LEMMA RecordType ==
  ASSUME NEW b \in Breaker
  PROVE  RecordSuccess(b) \in Breaker /\ RecordFailure(b) \in Breaker
<1> DEFINE succeeded == [b EXCEPT !.consecutive_successes = Bump(@, SuccessThreshold),
                                  !.consecutive_failures  = 0]
           failed    == [b EXCEPT !.consecutive_failures  = Bump(@, FailureThreshold),
                                  !.consecutive_successes = 0]
<1>1. succeeded \in Breaker /\ failed \in Breaker
  BY CountersInRange DEF Breaker
<1>2. TransitionTo(succeeded, "Closed") \in Breaker /\ TransitionTo(failed, "Open") \in Breaker
  BY <1>1, TransitionToType DEF CircuitState
<1> QED
  BY <1>1, <1>2 DEF RecordSuccess, RecordFailure

LEMMA BreakerTypes ==
  /\ NewBreaker("Closed") \in Breaker
  /\ \A b \in Breaker : StateQuery(b) \in Breaker
  /\ \A b \in Breaker : b.age < Timeout => ClockTick(b) \in Breaker
<1>1. NewBreaker("Closed") \in Breaker
  BY BreakerAssumption DEF NewBreaker, Breaker, CircuitState
<1>2. \A b \in Breaker : StateQuery(b) \in Breaker
  BY TransitionToType DEF StateQuery, CircuitState
<1>3. \A b \in Breaker : b.age < Timeout => ClockTick(b) \in Breaker
  BY BreakerAssumption DEF ClockTick, Breaker
<1> QED
  BY <1>1, <1>2, <1>3

-----------------------------------------------------------------------------
(***************************************************************************)
(* Types, with those of the workers' own variables, which TypeOK only      *)
(* states as far as the PSPs in them.                                      *)
(***************************************************************************)
Route == UNION {{table[i] : i \in DOMAIN table} : table \in RouteTables}

Types ==
  /\ TypeOK
  /\ cands \in [Workers -> Seq(Route)]
  /\ decision \in [Workers -> [selected : Outcomes, fallbacks : Seq(Outcomes)]]
  /\ erased \in [Outcomes -> Nat]

(* A table is a sequence of routes, one for each of its PSPs.                *)
LEMMA TableProperties ==
  ASSUME NEW table \in RouteTables
  PROVE  /\ table \in Seq(Route)
         /\ Distinct(table)
         /\ PspsOf(table) \subseteq Psps
<1>1. ValidConfig(table)
  BY RouterAssumption
<1>2. {table[i] : i \in DOMAIN table} \subseteq Route
  BY DEF Route
<1>3. table \in Seq(Route)
  BY <1>1, <1>2, SeqMonotonic DEF ValidConfig
<1> QED
  BY <1>1, <1>3 DEF ValidConfig, Distinct, Psps

LEMMA RoutePsps ==
  /\ \A route \in Route : route.psp \in Psps
  /\ \A seq \in Seq(Route) : PspsOf(seq) \subseteq Psps
<1>1. \A route \in Route : route.psp \in Psps
  BY DEF Route, Psps, PspsOf
<1> QED
  BY <1>1 DEF PspsOf

(* The candidates of a request accept it, and so do those left of them.      *)
LEMMA EligibleProperties ==
  ASSUME NEW table \in RouteTables, NEW tx
  PROVE  /\ FilterEligible(table, tx) \in Seq(Route)
         /\ Distinct(FilterEligible(table, tx))
         /\ \A k \in DOMAIN FilterEligible(table, tx) :
              \E i \in DOMAIN table : /\ FilterEligible(table, tx)[k] = table[i]
                                      /\ Accepts(table[i], tx)
<1> DEFINE at == {i \in DOMAIN table : Accepts(table[i], tx)}
<1>1. table \in Seq(Route) /\ Distinct(table)
  BY TableProperties
<1>2. at \in SUBSET DOMAIN table
  OBVIOUS
<1>3. FilterEligible(table, tx) = Pick(table, at)
  BY DEF FilterEligible
<1>4. \A i \in at : i \in DOMAIN table /\ Accepts(table[i], tx)
  OBVIOUS
<1> HIDE DEF at
<1>5. /\ Pick(table, at) \in Seq(Route)
      /\ \A k \in DOMAIN Pick(table, at) : \E i \in at : Pick(table, at)[k] = table[i]
  BY <1>1, <1>2, PickElements
<1>6. Distinct(Pick(table, at))
  BY <1>1, <1>2, PickDistinct
<1> QED
  BY <1>3, <1>4, <1>5, <1>6

(***************************************************************************)
(* The first locked region of route(): the candidates that are left have   *)
(* routes that accept the transaction and circuits that are not Open.      *)
(***************************************************************************)
LEMMA BeginEffect ==
  ASSUME Types, NEW w \in Workers, Begin(w)
  PROVE  \E tx \in Transactions, list \in Seq(Route) :
           /\ breakers' = PollBreakers(PspsOf(FilterEligible(routes, tx)))
           /\ request' = [request EXCEPT ![w] = tx]
           /\ Continue(w, list, "preferences")
           /\ Distinct(list)
           /\ \A k \in DOMAIN list : \E i \in DOMAIN routes :
                list[k] = routes[i] /\ Accepts(routes[i], tx)
           /\ \A k \in DOMAIN list :
                list[k].psp \in DOMAIN breakers => breakers'[list[k].psp].state # "Open"
<1>1. routes \in RouteTables
  BY DEF Types, TypeOK
<1>2. PICK tx \in Transactions :
        LET eligible == FilterEligible(routes, tx)
            usable == {i \in DOMAIN eligible :
              eligible[i].psp \in DOMAIN breakers => breakers'[eligible[i].psp].state # "Open"}
        IN  /\ request' = [request EXCEPT ![w] = tx]
            /\ breakers' = PollBreakers(PspsOf(eligible))
            /\ Continue(w, Pick(eligible, usable), "preferences")
  BY DEF Begin
<1> DEFINE eligible == FilterEligible(routes, tx)
           usable == {i \in DOMAIN eligible :
             eligible[i].psp \in DOMAIN breakers => breakers'[eligible[i].psp].state # "Open"}
           list == Pick(eligible, usable)
<1>3. /\ eligible \in Seq(Route) /\ Distinct(eligible)
      /\ \A k \in DOMAIN eligible : \E i \in DOMAIN routes :
           eligible[k] = routes[i] /\ Accepts(routes[i], tx)
  BY <1>1, EligibleProperties
<1>4. /\ breakers' = PollBreakers(PspsOf(eligible))
      /\ request' = [request EXCEPT ![w] = tx]
      /\ Continue(w, list, "preferences")
  BY <1>2
<1> HIDE DEF eligible
<1>5. /\ usable \in SUBSET DOMAIN eligible
      /\ \A i \in usable : eligible[i].psp \in DOMAIN breakers =>
                             breakers'[eligible[i].psp].state # "Open"
  OBVIOUS
<1> HIDE DEF usable
<1>6. /\ list \in Seq(Route)
      /\ \A k \in DOMAIN list : \E i \in usable : list[k] = eligible[i]
  BY <1>3, <1>5, PickElements
<1>7. Distinct(list)
  BY <1>3, <1>5, PickDistinct
<1> HIDE DEF list
<1>8. \A k \in DOMAIN list : \E i \in DOMAIN routes :
        list[k] = routes[i] /\ Accepts(routes[i], tx)
  BY <1>3, <1>5, <1>6
<1>9. \A k \in DOMAIN list :
        list[k].psp \in DOMAIN breakers => breakers'[list[k].psp].state # "Open"
  BY <1>5, <1>6
<1> QED
  BY <1>4, <1>6, <1>7, <1>8, <1>9 DEF eligible

(* The second: only candidates it had before, and none that is blocked.      *)
LEMMA PreferEffect ==
  ASSUME Types, NEW w \in Workers, Prefer(w)
  PROVE  \E list \in Seq(Route) :
           /\ Continue(w, list, "weights")
           /\ \A k \in DOMAIN list : \E i \in DOMAIN cands[w] :
                /\ list[k] = cands[w][i]
                /\ list[k].psp \notin preferences[request[w].merchant].blocked
           /\ Distinct(cands[w]) => Distinct(list)
<1> DEFINE prefs == preferences[request[w].merchant]
           kept == {i \in DOMAIN cands[w] : cands[w][i].psp \notin prefs.blocked}
           list == Preferring(cands[w], kept, prefs)
<1>1. Continue(w, list, "weights")
  BY DEF Prefer, ApplyPreferences
<1>2. cands[w] \in Seq(Route)
  BY DEF Types
<1>3. /\ kept \in SUBSET DOMAIN cands[w]
      /\ \A i \in kept : i \in DOMAIN cands[w] /\ cands[w][i].psp \notin prefs.blocked
  OBVIOUS
<1> HIDE DEF prefs, kept
<1>4. /\ list \in Seq(Route)
      /\ \A k \in DOMAIN list : \E i \in kept : list[k] = cands[w][i]
      /\ Distinct(cands[w]) => Distinct(list)
  BY <1>2, <1>3, PreferringElements
<1> HIDE DEF list
<1> QED
  BY <1>1, <1>3, <1>4 DEF prefs

(* The third: the PSP of one candidate, and that of another or none.         *)
LEMMA DecideEffect ==
  ASSUME Types, NEW w \in Workers, Decide(w)
  PROVE  \E i \in DOMAIN cands[w], backup \in Outcomes :
           /\ decision' = [decision EXCEPT ![w] =
                             [selected |-> cands[w][i].psp, fallbacks |-> <<backup>>]]
           /\ \/ backup = NoPsp
              \/ \E k \in DOMAIN cands[w] \ {i} : backup = cands[w][k].psp
<1> DEFINE custom  == preferences[request[w].merchant].weights
           weights == IF custom = NoWeights THEN DefaultWeights ELSE custom
<1>2. PICK i \in Primaries(cands[w], request[w], weights) :
        LET backups == Fallbacks(i, cands[w], request[w], weights)
            backup == IF backups = {} THEN NoPsp
                      ELSE cands[w][CHOOSE k \in backups : TRUE].psp
        IN  decision' = [decision EXCEPT ![w] =
                           [selected |-> cands[w][i].psp, fallbacks |-> <<backup>>]]
  BY DEF Decide
<1> HIDE DEF weights
<1> DEFINE backups == Fallbacks(i, cands[w], request[w], weights)
           backup == IF backups = {} THEN NoPsp
                     ELSE cands[w][CHOOSE k \in backups : TRUE].psp
<1>3. i \in DOMAIN cands[w]
  BY DEF Primaries, Best
<1>4. backups \subseteq DOMAIN cands[w] \ {i}
  BY DEF Fallbacks, Best
<1>5. decision' = [decision EXCEPT ![w] =
                     [selected |-> cands[w][i].psp, fallbacks |-> <<backup>>]]
  BY <1>2
<1> HIDE DEF backups
<1>6. backup = NoPsp \/ \E k \in DOMAIN cands[w] \ {i} : backup = cands[w][k].psp
  <2>1. ASSUME backups # {} PROVE (CHOOSE k \in backups : TRUE) \in backups
    BY <2>1
  <2> QED
    BY <1>4, <2>1
<1>7. backup \in Outcomes
  <2>1. \A k \in DOMAIN cands[w] : cands[w][k].psp \in Psps
    BY DEF Types, TypeOK, PspsOf
  <2> QED
    BY <1>6, <2>1 DEF Outcomes
<1> QED
  BY <1>3, <1>5, <1>6, <1>7

-----------------------------------------------------------------------------
(* Type correctness.                                                         *)

LEMMA PollType ==
  ASSUME Types
  PROVE  \A psps : /\ DOMAIN PollBreakers(psps) = DOMAIN breakers
                   /\ \A p \in DOMAIN breakers : PollBreakers(psps)[p] \in Breaker
  BY BreakerTypes DEF Types, TypeOK, PollBreakers

LEMMA ContinueType ==
  ASSUME Types, NEW w \in Workers, NEW list \in Seq(Route),
         NEW next \in {"preferences", "weights"}, Continue(w, list, next)
  PROVE  /\ cands' \in [Workers -> Seq(Route)]
         /\ pc' \in [Workers ->
              {"idle", "preferences", "weights", "audit_log", "metrics", "pay"}]
         /\ decision' = decision
  BY DEF Types, TypeOK, Continue

LEMMA ForgetType ==
  ASSUME Types, NEW w \in Workers, Forget(w)
  PROVE  /\ cands' \in [Workers -> Seq(Route)]
         /\ pc' \in [Workers ->
              {"idle", "preferences", "weights", "audit_log", "metrics", "pay"}]
         /\ decision' \in [Workers -> [selected : Outcomes, fallbacks : Seq(Outcomes)]]
         /\ request' \in [Workers -> Transactions \cup {NoTransaction}]
<1>1. <<>> \in Seq(Route) /\ <<>> \in Seq(Outcomes) /\ NoPsp \in Outcomes
  BY DEF Outcomes
<1>2. NoDecision \in [selected : Outcomes, fallbacks : Seq(Outcomes)]
  BY <1>1 DEF NoDecision
<1> QED
  BY <1>1, <1>2 DEF Types, TypeOK, Forget

(* What the types of the local variables say of the PSPs in them.            *)
LEMMA LocalPsps ==
  ASSUME cands \in [Workers -> Seq(Route)],
         decision \in [Workers -> [selected : Outcomes, fallbacks : Seq(Outcomes)]]
  PROVE  /\ \A w \in Workers : PspsOf(cands[w]) \subseteq Psps
         /\ \A w \in Workers : decision[w].selected \in Outcomes
<1>1. \A w \in Workers : cands[w] \in Seq(Route)
  OBVIOUS
<1>2. \A w \in Workers : PspsOf(cands[w]) \subseteq Psps
  BY <1>1, RoutePsps
<1> QED
  BY <1>2

LEMMA TypeInit ==
  Init => Types
<1> SUFFICES ASSUME Init PROVE Types
  OBVIOUS
<1>1. /\ cands \in [Workers -> Seq(Route)]
      /\ decision \in [Workers -> [selected : Outcomes, fallbacks : Seq(Outcomes)]]
  <2>1. <<>> \in Seq(Route) /\ <<>> \in Seq(Outcomes) /\ NoPsp \in Outcomes
    BY DEF Outcomes
  <2> QED
    BY <2>1 DEF Init, NoDecision
<1>2. DOMAIN breakers \subseteq Psps /\ \A p \in DOMAIN breakers : breakers[p] \in Breaker
  BY BreakerTypes, TableProperties DEF Init, FreshBreakers
<1>3. /\ audit_log \in [Outcomes -> Nat] /\ erased \in [Outcomes -> Nat]
      /\ metrics \in [ total_requests : Nat, successful_routes : Nat,
                       failed_routes : Nat, routes_selected : [Psps -> Nat] ]
  BY DEF Init, NoneOf
<1>4. /\ requests \in 0 .. MaxRequests /\ changes \in 0 .. MaxChanges
      /\ preferences \in [Merchants -> Preferences]
  BY RouterAssumption DEF Init
<1> QED
  BY <1>1, <1>2, <1>3, <1>4, LocalPsps DEF Init, Types, TypeOK

LEMMA CountedType ==
  ASSUME Types, NEW o \in Outcomes
  PROVE  Counted(o) \in [ total_requests : Nat, successful_routes : Nat,
                          failed_routes : Nat, routes_selected : [Psps -> Nat] ]
<1> DEFINE M == [ total_requests : Nat, successful_routes : Nat,
                  failed_routes : Nat, routes_selected : [Psps -> Nat] ]
           total  == [metrics EXCEPT !.total_requests = @ + 1]
           failed == [total EXCEPT !.failed_routes = @ + 1]
           routed == [total EXCEPT !.successful_routes = @ + 1]
<1>1. metrics \in M
  BY DEF Types, TypeOK
<1>2. total \in M
  BY <1>1
<1>3. failed \in M /\ routed \in M
  <2> HIDE DEF total
  <2>1. total.failed_routes + 1 \in Nat /\ total.successful_routes + 1 \in Nat
    BY <1>2
  <2>2. failed \in M
    BY <1>2, <2>1
  <2>3. routed \in M
    BY <1>2, <2>1
  <2> QED
    BY <2>2, <2>3
<1>4. CASE o = NoPsp
  BY <1>3, <1>4 DEF Counted
<1>5. CASE o # NoPsp
  <2>1. o \in Psps
    BY <1>5 DEF Outcomes
  <2>2. [metrics.routes_selected EXCEPT ![o] = @ + 1] \in [Psps -> Nat]
    BY <1>1, <2>1
  <2>3. Counted(o) = [routed EXCEPT !.routes_selected =
                                       [metrics.routes_selected EXCEPT ![o] = @ + 1]]
    BY <1>1, <1>5 DEF Counted
  <2> HIDE DEF routed
  <2> QED
    BY <1>3, <2>2, <2>3
<1> QED
  BY <1>4, <1>5

LEMMA TypeStep ==
  Types /\ [Next]_vars => Types'
<1> SUFFICES ASSUME Types, [Next]_vars PROVE Types'
  OBVIOUS
<1> DEFINE Pcs == {"idle", "preferences", "weights", "audit_log", "metrics", "pay"}
           Decisions == [selected : Outcomes, fallbacks : Seq(Outcomes)]
<1>a. ASSUME cands' \in [Workers -> Seq(Route)], decision' \in [Workers -> Decisions]
      PROVE  /\ \A w \in Workers : PspsOf(cands'[w]) \subseteq Psps
             /\ \A w \in Workers : decision'[w].selected \in Outcomes
  <2>1. \A w \in Workers : cands'[w] \in Seq(Route)
    BY <1>a
  <2> QED
    BY <1>a, <2>1, RoutePsps
<1>1. ASSUME NEW w \in Workers, Begin(w) PROVE Types'
  <2>1. PICK tx \in Transactions, list \in Seq(Route) :
          /\ breakers' = PollBreakers(PspsOf(FilterEligible(routes, tx)))
          /\ request' = [request EXCEPT ![w] = tx]
          /\ Continue(w, list, "preferences")
    BY <1>1, BeginEffect
  <2>2. cands' \in [Workers -> Seq(Route)] /\ pc' \in [Workers -> Pcs] /\ decision' = decision
    BY <2>1, ContinueType
  <2>3. request' \in [Workers -> Transactions \cup {NoTransaction}]
    BY <2>1 DEF Types, TypeOK
  <2>4. requests' \in 0 .. MaxRequests
    BY <1>1, RouterAssumption DEF Begin, Types, TypeOK
  <2> QED
    BY <1>1, <1>a, <2>1, <2>2, <2>3, <2>4, PollType
    DEF Begin, Types, TypeOK, config, books
<1>2. ASSUME NEW w \in Workers, Prefer(w) PROVE Types'
  <2>1. PICK list \in Seq(Route) : Continue(w, list, "weights")
    BY <1>2, PreferEffect
  <2>2. cands' \in [Workers -> Seq(Route)] /\ pc' \in [Workers -> Pcs] /\ decision' = decision
    BY <2>1, ContinueType
  <2> QED
    BY <1>2, <1>a, <2>2 DEF Prefer, Types, TypeOK, config, books, bounds
<1>3. ASSUME NEW w \in Workers, Decide(w) PROVE Types'
  <2>1. PICK i \in DOMAIN cands[w], backup \in Outcomes :
          /\ decision' = [decision EXCEPT ![w] =
                            [selected |-> cands[w][i].psp, fallbacks |-> <<backup>>]]
          /\ \/ backup = NoPsp
             \/ \E k \in DOMAIN cands[w] \ {i} : backup = cands[w][k].psp
    BY <1>3, DecideEffect
  <2>2. \A k \in DOMAIN cands[w] : cands[w][k].psp \in Psps
    BY DEF Types, TypeOK, PspsOf
  <2>3. cands[w][i].psp \in Outcomes
    BY <2>2 DEF Outcomes
  <2>4. decision' \in [Workers -> Decisions]
    BY <2>1, <2>3 DEF Types
  <2>5. pc' \in [Workers -> Pcs]
    BY <1>3 DEF Decide, Types, TypeOK
  <2> QED
    BY <1>3, <1>a, <2>4, <2>5 DEF Decide, Types, TypeOK, config, books, bounds
<1>4. ASSUME NEW w \in Workers, Record(w) PROVE Types'
  <2>1. decision[w].selected \in Outcomes
    BY DEF Types, TypeOK
  <2>2. audit_log' \in [Outcomes -> Nat] /\ pc' \in [Workers -> Pcs]
    BY <1>4, <2>1 DEF Record, Types, TypeOK
  <2> QED
    BY <1>4, <1>a, <2>2 DEF Record, Types, TypeOK, config, bounds
<1>5. ASSUME NEW w \in Workers, Count(w) PROVE Types'
  <2>1. metrics' \in [ total_requests : Nat, successful_routes : Nat,
                       failed_routes : Nat, routes_selected : [Psps -> Nat] ]
    BY <1>5, CountedType DEF Count, Types, TypeOK
  <2>2. /\ cands' \in [Workers -> Seq(Route)] /\ pc' \in [Workers -> Pcs]
        /\ decision' \in [Workers -> Decisions]
        /\ request' \in [Workers -> Transactions \cup {NoTransaction}]
    <3>1. CASE Forget(w)
      BY <3>1, ForgetType
    <3>2. CASE pc' = [pc EXCEPT ![w] = "pay"] /\ UNCHANGED <<request, cands, decision>>
      BY <3>2 DEF Types, TypeOK
    <3> QED
      BY <1>5, <3>1, <3>2 DEF Count
  <2> QED
    BY <1>5, <1>a, <2>1, <2>2 DEF Count, Types, TypeOK, config, bounds
<1>6. ASSUME NEW w \in Workers, Report(w) PROVE Types'
  <2>1. /\ cands' \in [Workers -> Seq(Route)] /\ pc' \in [Workers -> Pcs]
        /\ decision' \in [Workers -> Decisions]
        /\ request' \in [Workers -> Transactions \cup {NoTransaction}]
    BY <1>6, ForgetType DEF Report
  <2>2. DOMAIN breakers' = DOMAIN breakers /\ \A p \in DOMAIN breakers : breakers'[p] \in Breaker
    <3> DEFINE psp == decision[w].selected
    <3>1. CASE breakers' = breakers
      BY <3>1 DEF Types, TypeOK
    <3>2. ASSUME psp \in DOMAIN breakers,
                 NEW b \in {RecordSuccess(breakers[psp]), RecordFailure(breakers[psp])},
                 breakers' = [breakers EXCEPT ![psp] = b]
          PROVE  DOMAIN breakers' = DOMAIN breakers
                   /\ \A p \in DOMAIN breakers : breakers'[p] \in Breaker
      <4>1. b \in Breaker
        BY <3>2, RecordType DEF Types, TypeOK
      <4> QED
        BY <3>2, <4>1 DEF Types, TypeOK
    <3> QED
      BY <1>6, <3>1, <3>2 DEF Report
  <2> QED
    BY <1>6, <1>a, <2>1, <2>2 DEF Report, Types, TypeOK, config, books, bounds
<1>7. ASSUME NEW m \in Merchants, SetPreferences(m) PROVE Types'
  <2>1. preferences' \in [Merchants -> Preferences]
    BY <1>7 DEF SetPreferences, Types, TypeOK
  <2>2. changes' \in 0 .. MaxChanges
    BY <1>7, RouterAssumption DEF SetPreferences, Types, TypeOK
  <2> QED
    BY <1>7, <1>a, <2>1, <2>2 DEF SetPreferences, Types, TypeOK, local, books
<1>8. ASSUME UpdateRoutes PROVE Types'
  <2>1. PICK table \in RouteTables : breakers' = UpdatedBreakers(table) /\ routes' = table
    BY <1>8 DEF UpdateRoutes
  <2>2. DOMAIN breakers' \subseteq Psps /\ \A p \in DOMAIN breakers' : breakers'[p] \in Breaker
    BY <2>1, TableProperties, BreakerTypes DEF UpdatedBreakers, Types, TypeOK
  <2>3. changes' \in 0 .. MaxChanges
    BY <1>8, RouterAssumption DEF UpdateRoutes, Types, TypeOK
  <2> QED
    BY <1>8, <1>a, <2>1, <2>2, <2>3 DEF UpdateRoutes, Types, TypeOK, local, books
<1>9. ASSUME PollAll PROVE Types'
  BY <1>9, <1>a, PollType DEF PollAll, Types, TypeOK, config, local, books, bounds
<1>10. ASSUME ClearAuditLog PROVE Types'
  <2>1. audit_log' \in [Outcomes -> Nat] /\ erased' \in [Outcomes -> Nat]
    BY <1>10 DEF ClearAuditLog, NoneOf, Types, TypeOK
  <2> QED
    BY <1>10, <1>a, <2>1 DEF ClearAuditLog, Types, TypeOK, config, local, bounds
<1>11. ASSUME Tick PROVE Types'
  <2>1. DOMAIN breakers' = DOMAIN breakers /\ \A p \in DOMAIN breakers : breakers'[p] \in Breaker
    BY <1>11, BreakerTypes DEF Tick, Types, TypeOK
  <2> QED
    BY <1>11, <1>a, <2>1 DEF Tick, Types, TypeOK, config, local, books, bounds
<1>12. ASSUME UNCHANGED vars PROVE Types'
  BY <1>12, <1>a DEF Types, TypeOK, vars, config, local, books, bounds
<1> QED
  BY <1>1, <1>2, <1>3, <1>4, <1>5, <1>6, <1>7, <1>8, <1>9, <1>10, <1>11, <1>12
  DEF Next, WorkerStep

(* The router and its workers stay within their types: a worker never holds  *)
(* a decision its step does not have (route, update_routes).                 *)
THEOREM TypeCorrect ==
  Spec => []TypeOK
<1>1. Types => TypeOK
  BY DEF Types
<1> QED
  BY <1>1, TypeInit, TypeStep, PTL DEF Spec

-----------------------------------------------------------------------------
(***************************************************************************)
(* Every configured PSP has a circuit breaker (new, update_routes): reloads *)
(* add breakers and nothing takes one away.                                *)
(***************************************************************************)
LEMMA BreakersKept ==
  ASSUME Types, [Next]_vars
  PROVE  DOMAIN breakers \subseteq DOMAIN breakers'
<1>1. ASSUME NEW w \in Workers, WorkerStep(w) PROVE DOMAIN breakers \subseteq DOMAIN breakers'
  <2>1. ASSUME Begin(w) PROVE DOMAIN breakers' = DOMAIN breakers
    BY <2>1, BeginEffect, PollType
  <2> QED
    BY <1>1, <2>1 DEF WorkerStep, Prefer, Decide, Record, Count, Report
<1>2. ASSUME UpdateRoutes PROVE DOMAIN breakers \subseteq DOMAIN breakers'
  BY <1>2 DEF UpdateRoutes, UpdatedBreakers
<1>3. ASSUME PollAll \/ Tick PROVE DOMAIN breakers' = DOMAIN breakers
  BY <1>3, PollType DEF PollAll, Tick
<1>4. ASSUME (\E m \in Merchants : SetPreferences(m)) \/ ClearAuditLog \/ UNCHANGED vars
      PROVE  breakers' = breakers
  BY <1>4 DEF SetPreferences, ClearAuditLog, vars
<1> QED
  BY <1>1, <1>2, <1>3, <1>4 DEF Next

LEMMA GuardedStep ==
  Types /\ EveryRouteGuarded /\ [Next]_vars => EveryRouteGuarded'
<1> SUFFICES ASSUME Types, EveryRouteGuarded, [Next]_vars PROVE EveryRouteGuarded'
  OBVIOUS
<1>1. CASE UpdateRoutes
  BY <1>1 DEF UpdateRoutes, UpdatedBreakers, EveryRouteGuarded
<1>2. CASE routes' = routes
  BY <1>2, BreakersKept DEF EveryRouteGuarded
<1>3. UpdateRoutes \/ routes' = routes
  BY DEF Next, WorkerStep, Begin, Prefer, Decide, Record, Count, Report, SetPreferences,
         PollAll, ClearAuditLog, Tick, vars, config
<1> QED
  BY <1>1, <1>2, <1>3

(***************************************************************************)
(* Every PSP of the routes in use has a circuit breaker, through every     *)
(* reload (update_routes): route() never meets one without.                *)
(***************************************************************************)
THEOREM RoutesGuarded ==
  Spec => []EveryRouteGuarded
<1>1. Init => EveryRouteGuarded
  BY DEF Init, FreshBreakers, EveryRouteGuarded
<1> QED
  BY <1>1, GuardedStep, TypeInit, TypeStep, PTL DEF Spec

(* A reload moves no breaker that exists, whatever its state (update_routes). *)
THEOREM CircuitsSurviveReloads ==
  Spec => ReloadKeepsCircuits
<1> DEFINE Kept == /\ DOMAIN breakers \subseteq DOMAIN breakers'
                   /\ routes' # routes => \A p \in DOMAIN breakers : breakers'[p] = breakers[p]
<1>1. Types /\ [Next]_vars => [Kept]_vars
  <2> SUFFICES ASSUME Types, [Next]_vars PROVE Kept
    OBVIOUS
  <2>1. CASE UpdateRoutes
    BY <2>1, BreakersKept DEF UpdateRoutes, UpdatedBreakers
  <2>2. UpdateRoutes \/ routes' = routes
    BY DEF Next, WorkerStep, Begin, Prefer, Decide, Record, Count, Report, SetPreferences,
           PollAll, ClearAuditLog, Tick, vars, config
  <2> QED
    BY <2>1, <2>2, BreakersKept
<1> QED
  BY <1>1, TypeInit, TypeStep, PTL DEF Spec, ReloadKeepsCircuits

-----------------------------------------------------------------------------
(***************************************************************************)
(* The books agree: what the audit log has of an outcome is what the       *)
(* metrics have of it and the workers between the two locks.               *)
(***************************************************************************)
LEMMA CountersFinite ==
  RouterAssumption =>
    \A o : /\ IsFiniteSet(AboutToCount(o)) /\ Cardinality(AboutToCount(o)) \in Nat
           /\ IsFiniteSet(AboutToCount(o)') /\ Cardinality(AboutToCount(o)') \in Nat
  BY FS_Subset, FS_CardinalityType DEF RouterAssumption, AboutToCount

LEMMA CountedAsType ==
  ASSUME Types, NEW o \in Outcomes
  PROVE  CountedAs(o) \in Nat /\ audit_log[o] \in Nat /\ erased[o] \in Nat
  BY DEF Types, TypeOK, CountedAs, Outcomes

(* One more in the log: the worker is about to count it.                     *)
LEMMA RecordBalances ==
  ASSUME Types, AuditMatchesMetrics, NEW w \in Workers, Record(w), NEW o \in Outcomes
  PROVE  audit_log'[o] + erased'[o] = CountedAs(o)' + Cardinality(AboutToCount(o)')
<1>1. CountedAs(o)' = CountedAs(o) /\ erased' = erased
  BY DEF Record, CountedAs
<1>2. /\ CountedAs(o) \in Nat /\ audit_log[o] \in Nat /\ erased[o] \in Nat
      /\ IsFiniteSet(AboutToCount(o)) /\ Cardinality(AboutToCount(o)) \in Nat
      /\ audit_log[o] + erased[o] = CountedAs(o) + Cardinality(AboutToCount(o))
  BY CountersFinite, CountedAsType, RouterAssumption DEF AuditMatchesMetrics
<1>3. CASE o = decision[w].selected
  <2>1. audit_log'[o] = audit_log[o] + 1
    BY <1>3 DEF Record, Types, TypeOK
  <2>2. AboutToCount(o)' = AboutToCount(o) \cup {w} /\ w \notin AboutToCount(o)
    BY <1>3 DEF Record, AboutToCount, Types, TypeOK
  <2>3. Cardinality(AboutToCount(o)') = Cardinality(AboutToCount(o)) + 1
    BY <1>2, <2>2, FS_AddElement
  <2> QED
    BY <1>1, <1>2, <2>1, <2>3
<1>4. CASE o # decision[w].selected
  <2>1. audit_log'[o] = audit_log[o]
    BY <1>4 DEF Record, Types, TypeOK
  <2>2. AboutToCount(o)' = AboutToCount(o)
    BY <1>4 DEF Record, AboutToCount, Types, TypeOK
  <2> QED
    BY <1>1, <1>2, <2>1, <2>2
<1> QED
  BY <1>3, <1>4

LEMMA CountBalances ==
  ASSUME Types, AuditMatchesMetrics, NEW w \in Workers, Count(w), NEW o \in Outcomes
  PROVE  audit_log'[o] + erased'[o] = CountedAs(o)' + Cardinality(AboutToCount(o)')
<1> DEFINE chosen == decision[w].selected
<1>1. audit_log' = audit_log /\ erased' = erased /\ metrics' = Counted(chosen)
  BY DEF Count
<1>2. /\ CountedAs(o) \in Nat /\ audit_log[o] \in Nat /\ erased[o] \in Nat
      /\ IsFiniteSet(AboutToCount(o)) /\ Cardinality(AboutToCount(o)) \in Nat
      /\ audit_log[o] + erased[o] = CountedAs(o) + Cardinality(AboutToCount(o))
  BY CountersFinite, CountedAsType, RouterAssumption DEF AuditMatchesMetrics
<1>3. chosen \in Outcomes /\ NoPsp \notin Psps
  BY RouterAssumption DEF Types, TypeOK
<1>4. pc[w] = "metrics" /\ pc'[w] # "metrics"
  BY DEF Count, Forget, Types, TypeOK
<1>5. \A v \in Workers \ {w} : pc'[v] = pc[v] /\ decision'[v] = decision[v]
  BY DEF Count, Forget, Types, TypeOK
<1>6. CASE o = chosen
  <2>1. CountedAs(o)' = CountedAs(o) + 1
    <3>1. CASE o = NoPsp
      BY <1>1, <1>6, <3>1 DEF CountedAs, Counted, Types, TypeOK
    <3>2. CASE o # NoPsp
      BY <1>1, <1>3, <1>6, <3>2 DEF CountedAs, Counted, Outcomes, Types, TypeOK
    <3> QED
      BY <3>1, <3>2
  <2>2. AboutToCount(o)' = AboutToCount(o) \ {w} /\ w \in AboutToCount(o)
    BY <1>4, <1>5, <1>6 DEF AboutToCount
  <2>3. Cardinality(AboutToCount(o)') = Cardinality(AboutToCount(o)) - 1
    BY <1>2, <2>2, FS_RemoveElement
  <2> QED
    BY <1>1, <1>2, <2>1, <2>3
<1>7. CASE o # chosen
  <2>1. CountedAs(o)' = CountedAs(o)
    <3>1. CASE chosen = NoPsp
      BY <1>1, <1>7, <3>1 DEF CountedAs, Counted, Types, TypeOK
    <3>2. CASE chosen # NoPsp
      BY <1>1, <1>3, <1>7, <3>2 DEF CountedAs, Counted, Outcomes, Types, TypeOK
    <3> QED
      BY <3>1, <3>2
  <2>2. AboutToCount(o)' = AboutToCount(o)
    BY <1>4, <1>5, <1>7 DEF AboutToCount
  <2> QED
    BY <1>1, <1>2, <2>1, <2>2
<1> QED
  BY <1>6, <1>7

(* Every other step leaves the counters alone, and those about to count.     *)
LEMMA OthersBalance ==
  ASSUME Types, AuditMatchesMetrics, NEW o \in Outcomes,
         audit_log'[o] + erased'[o] = audit_log[o] + erased[o],
         metrics' = metrics,
         \A v \in Workers : \/ pc'[v] = pc[v] /\ decision'[v] = decision[v]
                            \/ pc[v] # "metrics" /\ pc'[v] # "metrics"
  PROVE  audit_log'[o] + erased'[o] = CountedAs(o)' + Cardinality(AboutToCount(o)')
<1>1. CountedAs(o)' = CountedAs(o)
  BY DEF CountedAs
<1>2. AboutToCount(o)' = AboutToCount(o)
  BY DEF AboutToCount
<1> QED
  BY <1>1, <1>2 DEF AuditMatchesMetrics

LEMMA AuditStep ==
  Types /\ AuditMatchesMetrics /\ [Next]_vars => AuditMatchesMetrics'
<1> SUFFICES ASSUME Types, AuditMatchesMetrics, [Next]_vars, NEW o \in Outcomes
             PROVE  audit_log'[o] + erased'[o] = CountedAs(o)' + Cardinality(AboutToCount(o)')
  BY TypeStep DEF AuditMatchesMetrics, Types
<1> DEFINE Quiet == \A v \in Workers : \/ pc'[v] = pc[v] /\ decision'[v] = decision[v]
                                       \/ pc[v] # "metrics" /\ pc'[v] # "metrics"
<1>1. ASSUME NEW w \in Workers, Begin(w) \/ Prefer(w) \/ Decide(w) \/ Report(w)
      PROVE  Quiet /\ UNCHANGED <<audit_log, erased, metrics>>
  <2>1. UNCHANGED <<audit_log, erased, metrics>>
    BY <1>1 DEF Begin, Prefer, Decide, Report, books
  <2>2. pc[w] # "metrics" /\ pc'[w] # "metrics"
    BY <1>1 DEF Begin, Prefer, Decide, Report, Continue, Forget, Types, TypeOK
  <2>3. \A v \in Workers \ {w} : pc'[v] = pc[v] /\ decision'[v] = decision[v]
    BY <1>1 DEF Begin, Prefer, Decide, Report, Continue, Forget, Types, TypeOK
  <2> QED
    BY <2>1, <2>2, <2>3
<1>2. ASSUME \/ \E m \in Merchants : SetPreferences(m)
             \/ UpdateRoutes \/ PollAll \/ Tick \/ UNCHANGED vars
      PROVE  Quiet /\ UNCHANGED <<audit_log, erased, metrics>>
  BY <1>2 DEF SetPreferences, UpdateRoutes, PollAll, Tick, vars, local, books
<1>3. ASSUME ClearAuditLog
      PROVE  Quiet /\ metrics' = metrics
               /\ audit_log'[o] + erased'[o] = audit_log[o] + erased[o]
  BY <1>3, CountedAsType DEF ClearAuditLog, NoneOf, local
<1>4. ASSUME NEW w \in Workers, Record(w) \/ Count(w)
      PROVE  audit_log'[o] + erased'[o] = CountedAs(o)' + Cardinality(AboutToCount(o)')
  BY <1>4, RecordBalances, CountBalances
<1>5. \/ \E w \in Workers : Record(w) \/ Count(w)
      \/ Quiet /\ metrics' = metrics
           /\ audit_log'[o] + erased'[o] = audit_log[o] + erased[o]
  BY <1>1, <1>2, <1>3 DEF Next, WorkerStep
<1> QED
  BY <1>4, <1>5, OthersBalance

(***************************************************************************)
(* The audit log and the metrics count the same decisions, but for those   *)
(* of calls between the two locks (record_decision, clear_audit_log).      *)
(***************************************************************************)
THEOREM BooksAgree ==
  Spec => []AuditMatchesMetrics
<1>1. Init => AuditMatchesMetrics
  <2> SUFFICES ASSUME Init, NEW o \in Outcomes
               PROVE  audit_log[o] + erased[o] = CountedAs(o) + Cardinality(AboutToCount(o))
    BY TypeInit DEF AuditMatchesMetrics, Types
  <2>1. AboutToCount(o) = {}
    BY DEF Init, AboutToCount
  <2>2. audit_log[o] = 0 /\ erased[o] = 0 /\ CountedAs(o) = 0
    BY DEF Init, NoneOf, CountedAs, Outcomes
  <2> QED
    BY <2>1, <2>2, FS_EmptySet
<1> QED
  BY <1>1, AuditStep, TypeInit, TypeStep, PTL DEF Spec

-----------------------------------------------------------------------------
(***************************************************************************)
(* Decisions are sound.  The inductive invariant says of every worker what *)
(* its candidates satisfy at each lock it has passed, since that is all    *)
(* create_decision has to go by.                                           *)
(***************************************************************************)
Fits(psp, w) == \E i \in DOMAIN routes : routes[i].psp = psp /\ Accepts(routes[i], request[w])

CandidatesSound(w) ==
  /\ Distinct(cands[w])
  /\ \A k \in DOMAIN cands[w] :
       /\ Fits(cands[w][k].psp, w)
       /\ cands[w][k].psp \notin refused[w]
       /\ pc[w] = "weights" => cands[w][k].psp \notin barred[w]

DecisionSound(w) ==
  /\ Len(decision[w].fallbacks) = 1
  /\ decision[w].fallbacks[1] # decision[w].selected
  /\ \A p \in Named(decision[w]) \ {NoPsp} : p \notin refused[w] \cup barred[w] /\ Fits(p, w)

Sound(w) ==
  /\ pc[w] \in {"idle", "preferences", "weights"} => decision[w] = NoDecision
  /\ pc[w] \in {"preferences", "weights"} => CandidatesSound(w)
  /\ pc[w] \in {"audit_log", "metrics"} /\ decision[w].selected # NoPsp => DecisionSound(w)

(* During a request the history variables only shrink.                       *)
LEMMA HistoryShrinks ==
  ASSUME [Next]_vars, NEW w \in Workers, pc[w] # "idle"
  PROVE  refused'[w] \subseteq refused[w] /\ barred'[w] \subseteq barred[w]
<1>1. CASE UNCHANGED vars
  BY <1>1 DEF vars, history
<1>2. CASE RecordHistory
  BY <1>2 DEF RecordHistory, Keep
<1>3. Next => RecordHistory
  BY DEF Next, WorkerStep, Begin, Prefer, Decide, Record, Count, Report, SetPreferences,
         UpdateRoutes, PollAll, ClearAuditLog, Tick
<1> QED
  BY <1>1, <1>2, <1>3

(* What others do, reloads apart, cannot make a worker's decision unsound.   *)
LEMMA OthersKeepSound ==
  ASSUME [Next]_vars, NEW w \in Workers, Sound(w), routes' = routes,
         pc'[w] = pc[w], request'[w] = request[w], cands'[w] = cands[w],
         decision'[w] = decision[w]
  PROVE  Sound(w)'
<1>1. CASE pc[w] = "idle"
  BY <1>1 DEF Sound
<1>2. CASE pc[w] # "idle"
  <2>1. refused'[w] \subseteq refused[w] /\ barred'[w] \subseteq barred[w]
    BY <1>2, HistoryShrinks
  <2>2. \A p : Fits(p, w) => Fits(p, w)'
    BY DEF Fits
  <2>3. CandidatesSound(w) => CandidatesSound(w)'
    BY <2>1, <2>2 DEF CandidatesSound, Distinct
  <2>4. DecisionSound(w) => DecisionSound(w)'
    BY <2>1, <2>2 DEF DecisionSound, Named
  <2> QED
    BY <2>3, <2>4 DEF Sound
<1> QED
  BY <1>1, <1>2

LEMMA BeginSound ==
  ASSUME Types, NEW w \in Workers, Sound(w), Begin(w)
  PROVE  Sound(w)'
<1>1. PICK tx \in Transactions, list \in Seq(Route) :
        /\ breakers' = PollBreakers(PspsOf(FilterEligible(routes, tx)))
        /\ request' = [request EXCEPT ![w] = tx]
        /\ Continue(w, list, "preferences")
        /\ Distinct(list)
        /\ \A k \in DOMAIN list : \E i \in DOMAIN routes :
             list[k] = routes[i] /\ Accepts(routes[i], tx)
        /\ \A k \in DOMAIN list :
             list[k].psp \in DOMAIN breakers => breakers'[list[k].psp].state # "Open"
  BY BeginEffect
<1>2. /\ pc[w] = "idle" /\ routes' = routes
      /\ request'[w] = tx /\ cands'[w] = list /\ decision'[w] = NoDecision
      /\ pc'[w] \in {"preferences", "audit_log"}
  BY <1>1 DEF Begin, Continue, config, Sound, Types, TypeOK
<1>3. refused'[w] = Refusing(breakers')
  BY <1>2 DEF Begin, RecordHistory, Keep
<1>4. DOMAIN breakers' = DOMAIN breakers
  BY <1>1 DEF PollBreakers
<1>5. \A k \in DOMAIN list : list[k].psp \notin refused'[w]
  BY <1>1, <1>3, <1>4 DEF Refusing
<1>6. \A k \in DOMAIN list : Fits(list[k].psp, w)'
  BY <1>1, <1>2 DEF Fits
<1>7. pc'[w] = "preferences" => CandidatesSound(w)'
  BY <1>1, <1>2, <1>5, <1>6 DEF CandidatesSound, Distinct
<1> QED
  BY <1>2, <1>7 DEF Sound, NoDecision

LEMMA PreferSound ==
  ASSUME Types, NEW w \in Workers, Sound(w), Prefer(w), [Next]_vars
  PROVE  Sound(w)'
<1>1. PICK list \in Seq(Route) :
        /\ Continue(w, list, "weights")
        /\ \A k \in DOMAIN list : \E i \in DOMAIN cands[w] :
             /\ list[k] = cands[w][i]
             /\ list[k].psp \notin preferences[request[w].merchant].blocked
        /\ Distinct(cands[w]) => Distinct(list)
  BY PreferEffect
<1>2. /\ pc[w] = "preferences" /\ routes' = routes /\ request' = request
      /\ preferences' = preferences
      /\ cands'[w] = list /\ decision'[w] = NoDecision
      /\ pc'[w] \in {"weights", "audit_log"}
  BY <1>1 DEF Prefer, Continue, config, Sound, Types, TypeOK
<1>3. CandidatesSound(w)
  BY <1>2 DEF Sound
<1>4. refused'[w] \subseteq refused[w]
  BY <1>2, HistoryShrinks
<1>5. barred'[w] \subseteq preferences[request[w].merchant].blocked
  BY <1>2 DEF Prefer, RecordHistory, Keep
<1>6. \A k \in DOMAIN list : Fits(list[k].psp, w)'
  BY <1>1, <1>2, <1>3 DEF Fits, CandidatesSound
<1>7. pc'[w] = "weights" => CandidatesSound(w)'
  BY <1>1, <1>2, <1>3, <1>4, <1>5, <1>6 DEF CandidatesSound, Distinct
<1> QED
  BY <1>2, <1>7 DEF Sound, NoDecision

LEMMA DecideSound ==
  ASSUME Types, NEW w \in Workers, Sound(w), Decide(w), [Next]_vars
  PROVE  Sound(w)'
<1>1. PICK i \in DOMAIN cands[w], backup \in Outcomes :
        /\ decision' = [decision EXCEPT ![w] =
                          [selected |-> cands[w][i].psp, fallbacks |-> <<backup>>]]
        /\ \/ backup = NoPsp
           \/ \E k \in DOMAIN cands[w] \ {i} : backup = cands[w][k].psp
  BY DecideEffect
<1>2. /\ pc[w] = "weights" /\ routes' = routes /\ request' = request
      /\ pc'[w] = "audit_log"
      /\ decision'[w] = [selected |-> cands[w][i].psp, fallbacks |-> <<backup>>]
  BY <1>1 DEF Decide, config, Types, TypeOK
<1>3. CandidatesSound(w)
  BY <1>2 DEF Sound
<1>4. refused'[w] \subseteq refused[w] /\ barred'[w] \subseteq barred[w]
  BY <1>2, HistoryShrinks
<1>5. backup # cands[w][i].psp
  <2>1. cands[w][i].psp \in Psps /\ NoPsp \notin Psps
    BY RouterAssumption DEF Types, TypeOK, PspsOf
  <2> QED
    BY <1>1, <1>3, <2>1 DEF CandidatesSound, Distinct
<1>6. Named(decision'[w]) = {cands[w][i].psp, backup}
  BY <1>2 DEF Named
<1>7. \A p \in Named(decision'[w]) \ {NoPsp} : \E k \in DOMAIN cands[w] : p = cands[w][k].psp
  BY <1>1, <1>6
<1>8. \A p : Fits(p, w) => Fits(p, w)'
  BY <1>2 DEF Fits
<1>9. \A p \in Named(decision'[w]) \ {NoPsp} :
        p \notin refused'[w] \cup barred'[w] /\ Fits(p, w)'
  BY <1>2, <1>3, <1>4, <1>7, <1>8 DEF CandidatesSound
<1>10. Len(decision'[w].fallbacks) = 1 /\ decision'[w].fallbacks[1] # decision'[w].selected
  BY <1>2, <1>5
<1> QED
  BY <1>2, <1>9, <1>10 DEF Sound, DecisionSound

LEMMA RecordSound ==
  ASSUME Types, NEW w \in Workers, Sound(w), Record(w), [Next]_vars
  PROVE  Sound(w)'
<1>1. /\ pc[w] = "audit_log" /\ pc'[w] = "metrics" /\ routes' = routes
      /\ request' = request /\ decision' = decision
  BY DEF Record, config, Types, TypeOK
<1>2. refused'[w] \subseteq refused[w] /\ barred'[w] \subseteq barred[w]
  BY <1>1, HistoryShrinks
<1>3. \A p : Fits(p, w) => Fits(p, w)'
  BY <1>1 DEF Fits
<1>4. DecisionSound(w) => DecisionSound(w)'
  BY <1>1, <1>2, <1>3 DEF DecisionSound, Named
<1> QED
  BY <1>1, <1>4 DEF Sound

LEMMA ReturnSound ==
  ASSUME Types, NEW w \in Workers, Sound(w), Count(w) \/ Report(w)
  PROVE  Sound(w)'
<1>1. CASE Forget(w)
  BY <1>1 DEF Forget, Sound, Types, TypeOK
<1>2. CASE pc' = [pc EXCEPT ![w] = "pay"]
  BY <1>2 DEF Sound, Types, TypeOK
<1> QED
  BY <1>1, <1>2 DEF Count, Report

LEMMA SoundStep ==
  Types /\ (\A w \in Workers : Sound(w)) /\ [Next]_vars => \A w \in Workers : Sound(w)'
<1> SUFFICES ASSUME Types, \A w \in Workers : Sound(w), [Next]_vars, NEW w \in Workers
             PROVE  Sound(w)'
  OBVIOUS
<1> DEFINE Untouched(v) == /\ pc'[v] = pc[v] /\ request'[v] = request[v]
                           /\ cands'[v] = cands[v] /\ decision'[v] = decision[v]
<1>1. ASSUME NEW v \in Workers \ {w}, WorkerStep(v) PROVE Sound(w)'
  <2>1. Untouched(w) /\ routes' = routes
    BY <1>1 DEF WorkerStep, Begin, Prefer, Decide, Record, Count, Report, Continue, Forget,
                config, Types, TypeOK
  <2> QED
    BY <2>1, OthersKeepSound
<1>2. ASSUME WorkerStep(w) PROVE Sound(w)'
  BY <1>2, BeginSound, PreferSound, DecideSound, RecordSound, ReturnSound DEF WorkerStep
<1>3. ASSUME \/ \E m \in Merchants : SetPreferences(m)
             \/ PollAll \/ ClearAuditLog \/ Tick \/ UNCHANGED vars
      PROVE  Sound(w)'
  <2>1. Untouched(w) /\ routes' = routes
    BY <1>3 DEF SetPreferences, PollAll, ClearAuditLog, Tick, vars, config, local
  <2> QED
    BY <2>1, OthersKeepSound
<1>4. ASSUME UpdateRoutes PROVE Sound(w)'
  BY <1>4 DEF UpdateRoutes, local, Sound
<1> QED
  BY <1>1, <1>2, <1>3, <1>4 DEF Next

(***************************************************************************)
(* Whatever is reconfigured between the locks of a route() call, the PSPs  *)
(* its decision names accept the transaction and were neither refused nor  *)
(* blocked throughout.                                                     *)
(***************************************************************************)
THEOREM SoundDecisions ==
  Spec => []DecisionsSound
<1>1. Init => \A w \in Workers : Sound(w)
  BY DEF Init, Sound
<1>2. (\A w \in Workers : Sound(w)) => DecisionsSound
  BY DEF Sound, DecisionSound, Fits, DecisionsSound
<1> DEFINE AllSound == \A w \in Workers : Sound(w)
<1>3. Types /\ AllSound /\ [Next]_vars => AllSound'
  BY SoundStep
<1>4. (Init => AllSound) /\ (AllSound => DecisionsSound)
  BY <1>1, <1>2
<1> HIDE DEF AllSound
<1> QED
  BY <1>3, <1>4, TypeInit, TypeStep, PTL DEF Spec

-----------------------------------------------------------------------------
(* Scores and selections.  Numbers have a least one, finitely many of them a *)
(* greatest; induction over a bounded range rests on the first.              *)
LEMMA LeastNatural ==
  ASSUME NEW T \in SUBSET Nat, T # {}
  PROVE  \E n \in T : \A m \in T : n <= m
<1> DEFINE R == OpToRel(<, Nat)
<1>1. IsWellFoundedOn(R, Nat)
  BY NatLessThanWellFounded
<1>2. \A x, y \in Nat : <<x, y>> \in R <=> x < y
  BY DEF OpToRel
<1> HIDE DEF R
<1>3. PICK n \in T : \A m \in T : <<m, n>> \notin R
  BY <1>1, WFMin
<1>4. \A m \in T : m \in Nat /\ n \in Nat /\ ~(m < n)
  BY <1>2, <1>3
<1>5. \A m \in T : n <= m
  BY <1>4
<1> QED
  BY <1>5

LEMMA GreatestBelow ==
  ASSUME NEW T \in SUBSET Int, T # {}, NEW b \in Int, \A x \in T : x <= b
  PROVE  \E n \in T : \A m \in T : m <= n
<1> DEFINE U == {b - x : x \in T}
<1>1. U \in SUBSET Nat /\ U # {}
  <2>1. \A x \in T : b - x \in Nat
    OBVIOUS
  <2> QED
    BY <2>1
<1>2. PICK u \in U : \A v \in U : u <= v
  BY <1>1, LeastNatural
<1>3. PICK n \in T : u = b - n
  BY <1>2
<1>4. ASSUME NEW m \in T PROVE m <= n
  <2>1. b - n <= b - m /\ m \in Int /\ n \in Int
    BY <1>2, <1>3
  <2> QED
    BY <2>1
<1> QED
  BY <1>4

LEMMA BoundOfFunction ==
  ASSUME NEW n \in Nat, NEW f \in [1 .. n -> Int]
  PROVE  \E b \in Nat : \A i \in 1 .. n : f[i] <= b
<1> DEFINE Bounded(m) == \E b \in Nat : \A i \in 1 .. m : f[i] <= b
           T == {m \in 0 .. n : ~Bounded(m)}
<1> SUFFICES ASSUME T # {} PROVE FALSE
  <2>1. n \in 0 .. n
    OBVIOUS
  <2> QED
    BY <2>1
<1>1. T \in SUBSET Nat
  OBVIOUS
<1>2. PICK m \in T : \A k \in T : m <= k
  BY <1>1, LeastNatural
<1>3. Bounded(0)
  <2>1. 0 \in Nat /\ \A i \in 1 .. 0 : f[i] <= 0
    OBVIOUS
  <2> QED
    BY <2>1
<1>4. m \in 0 .. n /\ ~Bounded(m)
  OBVIOUS
<1>5. m # 0
  BY <1>3, <1>4
<1>6. m \in 1 .. n /\ m - 1 \in 0 .. n /\ ~(m <= m - 1)
  BY <1>4, <1>5
<1>7. PICK b \in Nat : \A i \in 1 .. m - 1 : f[i] <= b
  <2>1. m - 1 \notin T
    BY <1>2, <1>6
  <2>2. Bounded(m - 1)
    BY <1>6, <2>1
  <2> QED
    BY <2>2
<1>8. Bounded(m)
  <2> HIDE DEF T
  <2>1. f[m] \in Int
    BY <1>6
  <2>2. PICK c \in Nat : b <= c /\ f[m] <= c
    <3> DEFINE y == f[m]
    <3> HIDE DEF y
    <3>1. y \in Int
      BY <2>1 DEF y
    <3>2. \E c \in Nat : b <= c /\ y <= c
      <4>1. CASE y <= b
        BY <4>1
      <4>2. CASE ~(y <= b)
        <5>1. y \in Nat /\ b <= y /\ y <= y
          BY <3>1, <4>2
        <5> QED
          BY <5>1
      <4> QED
        BY <4>1, <4>2
    <3> QED
      BY <3>2 DEF y
  <2>3. ASSUME NEW i \in 1 .. m PROVE f[i] <= c
    <3>1. i \in 1 .. n /\ f[i] \in Int
      BY <1>4, <1>6
    <3>2. CASE i = m
      BY <2>2, <3>2
    <3>3. CASE i # m
      <4>1. i \in 1 .. m - 1
        BY <1>6, <3>3
      <4>2. f[i] <= b
        BY <1>7, <4>1
      <4> QED
        BY <2>2, <3>1, <4>2
    <3> QED
      BY <3>2, <3>3
  <2> QED
    BY <2>2, <2>3
<1> QED
  BY <1>4, <1>8

(* What scores are computed from, and what keeps them within bounds.         *)
Numeric(seq, tx, weights) ==
  /\ \A i \in DOMAIN seq : /\ seq[i].fee \in Int
                           /\ seq[i].percent \in Int
                           /\ seq[i].priority \in Int
  /\ tx.amount \in Int
  /\ weights.latency \in Int
  /\ weights.cost \in Int

NoneNegative(seq, tx, weights) ==
  /\ \A i \in DOMAIN seq : seq[i].fee >= 0 /\ seq[i].percent >= 0
  /\ tx.amount >= 0
  /\ weights.latency >= 0
  /\ weights.cost >= 0

LEMMA CostIsNumber ==
  ASSUME NEW seq, NEW tx, NEW weights, Numeric(seq, tx, weights), NEW i \in DOMAIN seq
  PROVE  /\ Cost(seq[i], tx) \in Int
         /\ NoneNegative(seq, tx, weights) => Cost(seq[i], tx) >= 0
<1> DEFINE a == tx.amount
           fee == seq[i].fee
           rate == seq[i].percent
<1>1. a \in Int /\ fee \in Int /\ rate \in Int
  BY DEF Numeric
<1>2. Cost(seq[i], tx) = 100 * fee + a * rate
  BY DEF Cost
<1>3. NoneNegative(seq, tx, weights) => a >= 0 /\ fee >= 0 /\ rate >= 0
  BY DEF NoneNegative
<1> HIDE DEF a, fee, rate
<1>4. a * rate \in Int
  BY <1>1
<1>5. ASSUME a >= 0, rate >= 0 PROVE a * rate >= 0
  <2>1. a \in Nat /\ rate \in Nat
    BY <1>1, <1>5
  <2>2. a * rate \in Nat
    BY <2>1
  <2> QED
    BY <2>2
<1> DEFINE v == a * rate
<1> HIDE DEF v
<1>6. v \in Int /\ Cost(seq[i], tx) = 100 * fee + v
  BY <1>2, <1>4 DEF v
<1>7. NoneNegative(seq, tx, weights) => v >= 0
  BY <1>3, <1>5 DEF v
<1> QED
  BY <1>1, <1>3, <1>6, <1>7

(* The dearest candidate: an upper bound of all costs.                       *)
LEMMA MaxCostBounds ==
  ASSUME NEW S, NEW seq \in Seq(S), NEW tx, NEW weights, Numeric(seq, tx, weights)
  PROVE  /\ MaxCost(seq, tx) \in Nat
         /\ \A i \in DOMAIN seq : Cost(seq[i], tx) \in Int /\ Cost(seq[i], tx) <= MaxCost(seq, tx)
<1> DEFINE n == Len(seq)
           f == [i \in 1 .. n |-> Cost(seq[i], tx)]
           costs == {Cost(seq[i], tx) : i \in DOMAIN seq} \cup {0}
<1>1. n \in Nat /\ DOMAIN seq = 1 .. n
  OBVIOUS
<1>2. \A i \in DOMAIN seq : Cost(seq[i], tx) \in Int
  BY CostIsNumber
<1>3. f \in [1 .. n -> Int]
  BY <1>1, <1>2
<1>4. PICK b \in Nat : \A i \in 1 .. n : f[i] <= b
  BY <1>1, <1>3, BoundOfFunction
<1>5. b \in Int /\ costs \in SUBSET Int /\ 0 \in costs /\ \A x \in costs : x <= b
  BY <1>1, <1>2, <1>4
<1>6. \E m \in costs : \A c \in costs : c <= m
  <2> HIDE DEF costs
  <2> QED
    BY <1>5, GreatestBelow
<1>7. MaxCost(seq, tx) = CHOOSE m \in costs : \A c \in costs : c <= m
  BY DEF MaxCost
<1>8. \A i \in DOMAIN seq : Cost(seq[i], tx) \in costs
  OBVIOUS
<1> HIDE DEF costs
<1>9. MaxCost(seq, tx) \in costs /\ \A c \in costs : c <= MaxCost(seq, tx)
  BY <1>6, <1>7
<1>10. MaxCost(seq, tx) \in Int /\ 0 <= MaxCost(seq, tx)
  BY <1>5, <1>9
<1> QED
  BY <1>2, <1>8, <1>9, <1>10

LEMMA ScoreIsNumber ==
  ASSUME NEW S, NEW seq \in Seq(S), NEW tx, NEW weights, Numeric(seq, tx, weights),
         NEW i \in DOMAIN seq
  PROVE  Score(seq[i], seq, tx, weights) \in Int
<1> DEFINE m == MaxCost(seq, tx)
           l == weights.latency
           c == weights.cost
           p == LatencyPoints(seq[i])
           d == Cost(seq[i], tx)
<1>1. m \in Int /\ d \in Int
  BY MaxCostBounds
<1>2. l \in Int /\ c \in Int /\ p \in Int
  BY DEF Numeric, LatencyPoints
<1>3. Score(seq[i], seq, tx, weights)
        = IF m = 0 THEN l * p + c * 20 ELSE l * p * m + c * 20 * (m - d)
  BY DEF Score
<1> HIDE DEF m, l, c, p, d
<1>4. l * p + c * 20 \in Int /\ l * p * m + c * 20 * (m - d) \in Int
  BY <1>1, <1>2
<1> QED
  BY <1>3, <1>4

(* A product with a factor that grows.                                       *)
LEMMA ProductGrows ==
  ASSUME NEW a \in Nat, NEW b \in Nat, NEW c \in Nat, b <= c
  PROVE  a * b \in Nat /\ a * b <= a * c
<1>1. c = b + (c - b) /\ c - b \in Nat
  OBVIOUS
<1>2. a * (c - b) \in Nat /\ a * b \in Nat /\ a * c = a * b + a * (c - b)
  BY <1>1
<1> QED
  BY <1>2

(***************************************************************************)
(* Without negative fees or weights no score is negative or above its      *)
(* weights, which is what score_route's normalising by the dearest         *)
(* candidate is for: relative to the common scale of 20 (times the largest *)
(* cost, unless that is zero) a score lies between 0 and the sum of the    *)
(* two weights.  RouteConfig::validate does not ask for fixed_fee >= 0.    *)
(***************************************************************************)
THEOREM ScoresNormalised ==
  ASSUME NEW S, NEW seq \in Seq(S), NEW tx, NEW weights, Numeric(seq, tx, weights),
         NoneNegative(seq, tx, weights), NEW i \in DOMAIN seq
  PROVE  LET m == MaxCost(seq, tx)
             scale == 20 * (IF m = 0 THEN 1 ELSE m)
         IN  /\ Score(seq[i], seq, tx, weights) \in Nat
             /\ Score(seq[i], seq, tx, weights) <= (weights.latency + weights.cost) * scale
<1> DEFINE m == MaxCost(seq, tx)
           l == weights.latency
           c == weights.cost
           p == LatencyPoints(seq[i])
           d == Cost(seq[i], tx)
           s == Score(seq[i], seq, tx, weights)
<1>1. m \in Nat /\ d \in Nat /\ d <= m
  BY MaxCostBounds, CostIsNumber
<1>2. l \in Nat /\ c \in Nat /\ p \in Nat /\ p <= 20
  <2>1. l \in Nat /\ c \in Nat
    BY DEF Numeric, NoneNegative
  <2>2. p \in Nat /\ p <= 20
    BY DEF Numeric, LatencyPoints
  <2> QED
    BY <2>1, <2>2
<1>3. s = IF m = 0 THEN l * p + c * 20 ELSE l * p * m + c * 20 * (m - d)
  BY DEF Score
<1> HIDE DEF m, l, c, p, d, s
<1>4. l * p \in Nat /\ l * p <= l * 20 /\ l * 20 \in Nat /\ c * 20 \in Nat
  BY <1>2, ProductGrows
<1>5. CASE m = 0
  <2>1. (l + c) * (20 * 1) = l * 20 + c * 20
    BY <1>2
  <2>2. s \in Nat /\ s <= (l + c) * (20 * 1)
    BY <1>3, <1>4, <1>5, <2>1
  <2> QED
    BY <1>5, <2>2 DEF m, l, c, s
<1>6. CASE m # 0
  <2>1. m - d \in Nat /\ m - d <= m
    BY <1>1
  <2>2. l * p * m \in Nat /\ l * p * m <= l * 20 * m
    <3>1. m * (l * p) \in Nat /\ m * (l * p) <= m * (l * 20)
      BY <1>1, <1>4, ProductGrows
    <3>2. l * p * m = m * (l * p) /\ l * 20 * m = m * (l * 20)
      BY <1>1, <1>2
    <3> QED
      BY <3>1, <3>2
  <2>3. c * 20 * (m - d) \in Nat /\ c * 20 * (m - d) <= c * 20 * m
    BY <1>1, <1>4, <2>1, ProductGrows
  <2>4. (l + c) * (20 * m) = l * 20 * m + c * 20 * m /\ l * 20 * m \in Nat /\ c * 20 * m \in Nat
    BY <1>1, <1>2
  <2>5. s \in Nat /\ s <= (l + c) * (20 * m)
    <3> DEFINE x == l * p * m
               y == c * 20 * (m - d)
               u == l * 20 * m
               v == c * 20 * m
    <3>1. s = x + y
      BY <1>3, <1>6
    <3>2. (l + c) * (20 * m) = u + v
      BY <2>4
    <3>3. x \in Nat /\ y \in Nat /\ u \in Nat /\ v \in Nat /\ x <= u /\ y <= v
      BY <2>2, <2>3, <2>4
    <3> HIDE DEF x, y, u, v
    <3> QED
      BY <3>1, <3>2, <3>3
  <2> QED
    BY <1>6, <2>5 DEF m, l, c, s
<1> QED
  BY <1>5, <1>6

LEMMA BestExists ==
  ASSUME NEW S, NEW seq \in Seq(S), NEW tx, NEW weights, Numeric(seq, tx, weights),
         NEW at \in SUBSET DOMAIN seq, at # {}
  PROVE  /\ Best(at, seq, tx, weights) \in SUBSET at
         /\ Best(at, seq, tx, weights) # {}
<1> DEFINE Of(i) == Score(seq[i], seq, tx, weights)
           n == Len(seq)
           f == [i \in 1 .. n |-> Of(i)]
           scores == {Of(i) : i \in at}
<1>1. n \in Nat /\ DOMAIN seq = 1 .. n /\ \A i \in at : i \in 1 .. n
  OBVIOUS
<1>2. \A i \in 1 .. n : Of(i) \in Int
  BY <1>1, ScoreIsNumber
<1> HIDE DEF Of
<1>3. f \in [1 .. n -> Int]
  BY <1>2
<1>4. PICK b \in Nat : \A i \in 1 .. n : f[i] <= b
  BY <1>1, <1>3, BoundOfFunction
<1>5. b \in Int /\ scores \in SUBSET Int /\ scores # {} /\ \A x \in scores : x <= b
  BY <1>1, <1>2, <1>4
<1>6. PICK g \in scores : \A x \in scores : x <= g
  <2> HIDE DEF scores
  <2> QED
    BY <1>5, GreatestBelow
<1>7. PICK i \in at : g = Of(i)
  BY <1>6
<1>8. \A j \in at : Of(j) <= Of(i)
  BY <1>6, <1>7
<1> QED
  BY <1>8 DEF Best, Of

(***************************************************************************)
(* select and get_fallback_routes always answer: with any candidate at all *)
(* a route is selected, by score one of the highest, and only one can be;  *)
(* the fallback is another candidate, the same one every time and none of  *)
(* the others scores higher; it is missing only when there is no other     *)
(* candidate.  A tie, a score of zero or free candidates change nothing.   *)
(***************************************************************************)
THEOREM SelectionMade ==
  ASSUME NEW S, NEW seq \in Seq(S), seq # <<>>, NEW tx, NEW weights, Numeric(seq, tx, weights)
  PROVE  LET Of(i) == Score(seq[i], seq, tx, weights)
             primaries == Primaries(seq, tx, weights)
         IN  /\ primaries # {}
             /\ \A p \in primaries :
                  LET backups == Fallbacks(p, seq, tx, weights)
                  IN  /\ p \in DOMAIN seq
                      /\ Strategy = "HighestScore" =>
                           primaries = {p} /\ \A i \in DOMAIN seq : Of(i) <= Of(p)
                      /\ backups = {} <=> Len(seq) = 1
                      /\ \A f \in backups :
                           /\ backups = {f}
                           /\ f \in DOMAIN seq \ {p}
                           /\ \A i \in DOMAIN seq \ {p} : Of(i) <= Of(f)
<1> DEFINE Of(i) == Score(seq[i], seq, tx, weights)
           n == Len(seq)
           primaries == Primaries(seq, tx, weights)
<1>1. n \in Nat /\ DOMAIN seq = 1 .. n /\ 1 \in DOMAIN seq /\ DOMAIN seq \in SUBSET Nat
  OBVIOUS
<1>2. primaries # {}
  <2>1. CASE Strategy = "HighestScore"
    <3> DEFINE best == Best(DOMAIN seq, seq, tx, weights)
    <3>1. best \in SUBSET DOMAIN seq /\ best # {}
      BY <1>1, BestExists
    <3>2. n \in Int /\ best \in SUBSET Int /\ \A i \in best : i <= n
      BY <1>1, <3>1
    <3>3. primaries = {i \in best : \A j \in best : j <= i}
      BY <2>1 DEF Primaries
    <3> HIDE DEF best
    <3>4. \E i \in best : \A j \in best : j <= i
      BY <3>1, <3>2, GreatestBelow
    <3> QED
      BY <3>3, <3>4
  <2>2. CASE Strategy # "HighestScore"
    BY <1>1, <2>2 DEF Primaries
  <2> QED
    BY <2>1, <2>2
<1>3. ASSUME NEW p \in primaries
      PROVE  /\ p \in DOMAIN seq
             /\ Strategy = "HighestScore" =>
                  primaries = {p} /\ \A i \in DOMAIN seq : Of(i) <= Of(p)
  <2>1. CASE Strategy = "HighestScore"
    <3> DEFINE best == Best(DOMAIN seq, seq, tx, weights)
    <3>1. primaries = {i \in best : \A j \in best : j <= i}
      BY <2>1 DEF Primaries
    <3>2. best \in SUBSET DOMAIN seq /\ \A i \in best : \A j \in DOMAIN seq : Of(j) <= Of(i)
      BY DEF Best
    <3> HIDE DEF best, primaries, Of
    <3>3. p \in best /\ p \in Nat /\ \A j \in best : j \in Nat /\ j <= p
      BY <1>1, <1>3, <3>1, <3>2
    <3>4. ASSUME NEW q \in primaries PROVE q = p
      <4>1. q \in best /\ q \in Nat /\ p <= q /\ q <= p
        BY <3>1, <3>3
      <4> QED
        BY <3>3, <4>1
    <3>5. primaries = {p}
      BY <1>3, <3>4
    <3> QED
      BY <3>2, <3>3, <3>5
  <2>2. CASE Strategy # "HighestScore"
    BY <1>3, <2>2 DEF Primaries
  <2> QED
    BY <2>1, <2>2
<1>4. ASSUME NEW p \in DOMAIN seq
      PROVE  LET backups == Fallbacks(p, seq, tx, weights)
             IN  /\ backups = {} <=> Len(seq) = 1
                 /\ \A f \in backups :
                      /\ backups = {f}
                      /\ f \in DOMAIN seq \ {p}
                      /\ \A i \in DOMAIN seq \ {p} : Of(i) <= Of(f)
  <2> DEFINE others == DOMAIN seq \ {p}
             best == Best(others, seq, tx, weights)
             backups == Fallbacks(p, seq, tx, weights)
  <2>1. backups = {i \in best : \A j \in best : i <= j}
    BY DEF Fallbacks
  <2>2. best \in SUBSET others /\ \A i \in best : \A j \in others : Of(j) <= Of(i)
    BY DEF Best
  <2>3. others # {} => best # {}
    BY BestExists
  <2>4. others = {} <=> n = 1
    <3>1. CASE n = 1
      BY <1>1, <3>1
    <3>2. CASE n # 1
      <4>1. 1 \in 1 .. n /\ 2 \in 1 .. n
        BY <1>1, <3>2
      <4> QED
        BY <1>1, <3>2, <4>1
    <3> QED
      BY <3>1, <3>2
  <2> HIDE DEF best, backups, Of, others
  <2>5. best \in SUBSET Nat
    BY <1>1, <2>2 DEF others
  <2>6. backups = {} <=> n = 1
    <3>1. best # {} => backups # {}
      BY <2>1, <2>5, LeastNatural
    <3> QED
      BY <2>1, <2>2, <2>3, <2>4, <3>1
  <2>7. ASSUME NEW f \in backups PROVE backups = {f} /\ f \in best
    <3>1. \A g \in backups : g \in best /\ f \in best /\ g <= f /\ f <= g /\ g \in Nat /\ f \in Nat
      BY <2>1, <2>5, <2>7
    <3>2. \A g \in backups : g = f
      BY <3>1
    <3> QED
      BY <2>7, <3>1, <3>2
  <2>8. \A f \in backups : backups = {f} /\ f \in others /\ \A i \in others : Of(i) <= Of(f)
    BY <2>2, <2>7
  <2> QED
    BY <2>6, <2>8 DEF backups, others, Of
<1> HIDE DEF primaries
<1>5. \A p \in primaries : p \in DOMAIN seq
  BY <1>3
<1> QED
  BY <1>2, <1>3, <1>4, <1>5 DEF primaries

-----------------------------------------------------------------------------
(***************************************************************************)
(* apply_merchant_preferences: retain and the stable sort lose no          *)
(* candidate that is not blocked, keep none that is, put the preferred     *)
(* ones first and leave the order within both groups alone.                *)
(***************************************************************************)
THEOREM PreferencesHonoured ==
  ASSUME NEW S, NEW seq \in Seq(S), NEW prefs
  PROVE  LET result == ApplyPreferences(seq, prefs)
             kept == {i \in DOMAIN seq : seq[i].psp \notin prefs.blocked}
             Likes(i) == seq[i].psp \in prefs.preferred
         IN  \E from \in [1 .. Len(result) -> kept] :
               /\ result \in Seq(S)
               /\ \A k \in 1 .. Len(result) : result[k] = seq[from[k]]
               /\ \A i \in kept : \E k \in 1 .. Len(result) : from[k] = i
               /\ \A j, k \in 1 .. Len(result) : j < k =>
                    /\ Likes(from[k]) => Likes(from[j])
                    /\ (Likes(from[j]) <=> Likes(from[k])) => from[j] < from[k]
<1> DEFINE result == ApplyPreferences(seq, prefs)
           kept == {i \in DOMAIN seq : seq[i].psp \notin prefs.blocked}
           Likes(i) == seq[i].psp \in prefs.preferred
           first == {i \in kept : Likes(i)}
           rest == kept \ first
           m == Cardinality(first)
           n == Cardinality(rest)
<1>1. /\ first \in SUBSET DOMAIN seq /\ rest \in SUBSET DOMAIN seq
      /\ \A i \in first : i \in kept /\ Likes(i)
      /\ \A i \in rest : i \in kept /\ ~Likes(i)
      /\ \A i \in kept : i \in first \/ i \in rest
  OBVIOUS
<1>2. result = Pick(seq, first) \o Pick(seq, rest)
  BY DEF ApplyPreferences, Preferring
<1>3. Pick(seq, first) \in Seq(S) /\ Pick(seq, rest) \in Seq(S)
  BY <1>1, PickElements
<1> HIDE DEF result, kept, first, rest, Likes
<1>4. \E b \in [1 .. n -> rest] :
        /\ n \in Nat
        /\ Pick(seq, rest) = [k \in 1 .. n |-> seq[b[k]]]
        /\ \A j, k \in DOMAIN b : j < k => b[j] < b[k]
        /\ \A i \in rest : \E k \in DOMAIN b : b[k] = i
  BY <1>1, PickProperties
<1>5. PICK a \in [1 .. m -> first] :
        /\ m \in Nat
        /\ Pick(seq, first) = [k \in 1 .. m |-> seq[a[k]]]
        /\ \A j, k \in DOMAIN a : j < k => a[j] < a[k]
        /\ \A i \in first : \E k \in DOMAIN a : a[k] = i
  BY <1>1, PickProperties
<1>6. PICK b \in [1 .. n -> rest] :
        /\ n \in Nat
        /\ Pick(seq, rest) = [k \in 1 .. n |-> seq[b[k]]]
        /\ \A j, k \in DOMAIN b : j < k => b[j] < b[k]
        /\ \A i \in rest : \E k \in DOMAIN b : b[k] = i
  BY <1>4
<1> HIDE DEF m, n
<1> DEFINE from == [k \in 1 .. m + n |-> IF k <= m THEN a[k] ELSE b[k - m]]
<1>7. Len(Pick(seq, first)) = m /\ Len(Pick(seq, rest)) = n
  BY <1>3, <1>5, <1>6
<1>8. result \in Seq(S) /\ Len(result) = m + n
  BY <1>2, <1>3, <1>7
<1>9. \A k \in 1 .. m + n :
        \/ k \in 1 .. m /\ k <= m /\ from[k] = a[k] /\ a[k] \in first
        \/ k - m \in 1 .. n /\ ~(k <= m) /\ from[k] = b[k - m] /\ b[k - m] \in rest
  BY <1>5, <1>6
<1>10. from \in [1 .. m + n -> kept]
  BY <1>1, <1>9
<1>11. ASSUME NEW k \in 1 .. m + n PROVE result[k] = seq[from[k]]
  <2>1. result[k] = IF k <= m THEN Pick(seq, first)[k] ELSE Pick(seq, rest)[k - m]
    BY <1>2, <1>3, <1>5, <1>6, <1>7
  <2> HIDE DEF from
  <2>2. CASE k \in 1 .. m /\ k <= m /\ from[k] = a[k]
    BY <1>5, <2>1, <2>2
  <2>3. CASE k - m \in 1 .. n /\ ~(k <= m) /\ from[k] = b[k - m]
    BY <1>6, <2>1, <2>3
  <2> QED
    BY <1>9, <2>2, <2>3
<1>12. ASSUME NEW i \in kept PROVE \E k \in 1 .. m + n : from[k] = i
  <2>1. CASE i \in first
    <3>1. PICK k \in 1 .. m : a[k] = i
      BY <1>5, <2>1
    <3>2. k \in 1 .. m + n /\ k <= m
      BY <1>5, <1>6
    <3> QED
      BY <3>1, <3>2
  <2>2. CASE i \in rest
    <3>1. PICK k \in 1 .. n : b[k] = i
      BY <1>6, <2>2
    <3>2. k + m \in 1 .. m + n /\ ~(k + m <= m) /\ k + m - m = k
      BY <1>5, <1>6
    <3>3. from[k + m] = b[k]
      BY <1>5, <1>6, <3>2
    <3> HIDE DEF from
    <3> QED
      BY <3>1, <3>2, <3>3
  <2> QED
    BY <1>1, <2>1, <2>2
<1>13. ASSUME NEW j \in 1 .. m + n, NEW k \in 1 .. m + n, j < k
       PROVE  /\ Likes(from[k]) => Likes(from[j])
              /\ (Likes(from[j]) <=> Likes(from[k])) => from[j] < from[k]
  <2> HIDE DEF from
  <2>1. CASE j \in 1 .. m /\ from[j] = a[j] /\ a[j] \in first
    <3>1. Likes(from[j])
      BY <1>1, <2>1
    <3>2. CASE k \in 1 .. m /\ from[k] = a[k] /\ a[k] \in first
      <4>1. a[j] < a[k]
        BY <1>5, <1>13, <2>1, <3>2
      <4> QED
        BY <2>1, <3>1, <3>2, <4>1
    <3>3. CASE from[k] = b[k - m] /\ b[k - m] \in rest
      BY <1>1, <3>1, <3>3
    <3> QED
      BY <1>9, <3>2, <3>3
  <2>2. CASE j - m \in 1 .. n /\ ~(j <= m) /\ from[j] = b[j - m] /\ b[j - m] \in rest
    <3>1. ~(k <= m)
      BY <1>5, <1>13, <2>2
    <3>2. k - m \in 1 .. n /\ from[k] = b[k - m] /\ b[k - m] \in rest
      BY <1>9, <3>1
    <3>3. ~Likes(from[j]) /\ ~Likes(from[k])
      BY <1>1, <2>2, <3>2
    <3>4. j - m < k - m
      BY <1>5, <1>13
    <3>5. b[j - m] < b[k - m]
      BY <1>6, <2>2, <3>2, <3>4
    <3> QED
      BY <2>2, <3>2, <3>3, <3>5
  <2> QED
    BY <1>9, <2>1, <2>2
<1> HIDE DEF from
<1> QED
  BY <1>8, <1>10, <1>11, <1>12, <1>13 DEF result, kept, Likes

-----------------------------------------------------------------------------
(* What Decide scores the candidates with.                                   *)
WeightsOf(w) ==
  LET custom == preferences[request[w].merchant].weights
  IN  IF custom = NoWeights THEN DefaultWeights ELSE custom

(* A worker goes on with a transaction of the program and candidates for it. *)
Ready ==
  \A w \in Workers : pc[w] \in {"preferences", "weights"} =>
    request[w] \in Transactions /\ cands[w] # <<>>

LEMMA ReadyStep ==
  Types /\ Ready /\ [Next]_vars => Ready'
<1> SUFFICES ASSUME Types, Ready, [Next]_vars,
                    NEW u \in Workers, pc'[u] \in {"preferences", "weights"}
             PROVE  request'[u] \in Transactions /\ cands'[u] # <<>>
  BY DEF Ready
<1> USE DEF Types, TypeOK
<1>1. ASSUME NEW w \in Workers, NEW cs, NEW next, Continue(w, cs, next)
      PROVE  /\ \A v \in Workers \ {w} : cands'[v] = cands[v] /\ pc'[v] = pc[v]
             /\ cands'[w] = cs
             /\ pc'[w] = "audit_log" \/ cs # <<>>
  BY <1>1 DEF Continue
<1>2. ASSUME NEW w \in Workers, Begin(w) PROVE request'[u] \in Transactions /\ cands'[u] # <<>>
  <2>1. PICK tx \in Transactions, list \in Seq(Route) :
          request' = [request EXCEPT ![w] = tx] /\ Continue(w, list, "preferences")
    BY <1>2, BeginEffect
  <2>2. CASE u = w
    BY <1>1, <2>1, <2>2
  <2>3. CASE u # w
    <3>1. request'[u] = request[u] /\ cands'[u] = cands[u] /\ pc'[u] = pc[u]
      BY <1>1, <2>1, <2>3
    <3> QED
      BY <3>1 DEF Ready
  <2> QED
    BY <2>2, <2>3
<1>3. ASSUME NEW w \in Workers, Prefer(w) PROVE request'[u] \in Transactions /\ cands'[u] # <<>>
  <2>1. PICK list : Continue(w, list, "weights")
    BY <1>3 DEF Prefer
  <2>2. request' = request /\ pc[w] = "preferences"
    BY <1>3 DEF Prefer
  <2>3. CASE u = w
    BY <1>1, <2>1, <2>2, <2>3 DEF Ready
  <2>4. CASE u # w
    <3>1. request'[u] = request[u] /\ cands'[u] = cands[u] /\ pc'[u] = pc[u]
      BY <1>1, <2>1, <2>2, <2>4
    <3> QED
      BY <3>1 DEF Ready
  <2> QED
    BY <2>3, <2>4
<1>4. ASSUME NEW w \in Workers, Decide(w) \/ Record(w) \/ Count(w) \/ Report(w)
      PROVE  request'[u] \in Transactions /\ cands'[u] # <<>>
  <2>1. pc'[w] \notin {"preferences", "weights"}
    BY <1>4 DEF Decide, Record, Count, Report, Forget
  <2>2. u # w
    BY <2>1
  <2>3. request'[u] = request[u] /\ cands'[u] = cands[u] /\ pc'[u] = pc[u]
    BY <1>4, <2>2 DEF Decide, Record, Count, Report, Forget
  <2> QED
    BY <2>3 DEF Ready
<1>5. ASSUME UNCHANGED local PROVE request'[u] \in Transactions /\ cands'[u] # <<>>
  BY <1>5 DEF Ready, local
<1>6. \/ \E w \in Workers : WorkerStep(w)
      \/ UNCHANGED local
  BY DEF Next, SetPreferences, UpdateRoutes, PollAll, ClearAuditLog, Tick, vars
<1> QED
  BY <1>2, <1>3, <1>4, <1>5, <1>6 DEF WorkerStep

(* So whatever Decide scores is numbers, and there is something to score.    *)
LEMMA ReadyToScore ==
  ASSUME Types, Ready, NEW w \in Workers, pc[w] = "weights"
  PROVE  /\ cands[w] \in Seq(Route) /\ cands[w] # <<>>
         /\ Numeric(cands[w], request[w], WeightsOf(w))
<1>1. /\ cands[w] \in Seq(Route) /\ cands[w] # <<>> /\ request[w] \in Transactions
      /\ \A i \in DOMAIN cands[w] : cands[w][i] \in Route
  BY DEF Types, Ready
<1>2. ASSUME NEW route \in Route
      PROVE  route.fee \in Int /\ route.priority \in Int /\ route.percent \in Int
  <2>1. PICK table \in RouteTables : \E i \in DOMAIN table : route = table[i]
    BY DEF Route
  <2>2. PICK i \in DOMAIN table : route = table[i]
    BY <2>1
  <2>3. ValidRoute(table[i])
    BY RouterAssumption DEF ValidConfig
  <2>4. table[i].percent \in Int
    BY <2>3 DEF ValidRoute
  <2>5. table[i].fee \in Int /\ table[i].priority \in Int
    BY NumbersAssumption
  <2> QED
    BY <2>2, <2>4, <2>5
<1>3. request[w].amount \in Int
  BY <1>1, NumbersAssumption
<1>4. WeightsOf(w).latency \in Int /\ WeightsOf(w).cost \in Int
  <2>1. request[w].merchant \in Merchants
    BY <1>1, RouterAssumption DEF ValidTransaction
  <2>2. preferences[request[w].merchant] \in Preferences
    BY <2>1 DEF Types, TypeOK
  <2>3. WeightsOf(w) \in {DefaultWeights} \cup {prefs.weights : prefs \in Preferences}
    BY <2>2 DEF WeightsOf
  <2> QED
    BY <2>3, NumbersAssumption
<1> QED
  BY <1>1, <1>2, <1>3, <1>4 DEF Numeric

LEMMA AlwaysReady ==
  Spec => [](Types /\ Ready)
<1>1. Init => Ready
  BY DEF Init, Ready
<1> QED
  BY <1>1, ReadyStep, TypeInit, TypeStep, PTL DEF Spec

(***************************************************************************)
(* A request that still has candidates after circuits and preferences gets *)
(* a route (route, select): whatever others have changed since it filtered *)
(* them, the selection never comes back empty-handed, so the unnamed       *)
(* decision is only made when there is no candidate.                       *)
(***************************************************************************)
RouteFound ==
  \A w \in Workers : pc[w] = "weights" =>
    Primaries(cands[w], request[w], WeightsOf(w)) # {}

THEOREM RouteAlwaysFound ==
  Spec => []RouteFound
<1>1. Types /\ Ready => RouteFound
  BY ReadyToScore, SelectionMade DEF RouteFound
<1> QED
  BY <1>1, AlwaysReady, PTL

(***************************************************************************)
(* A decision comes without a fallback, with the empty name that           *)
(* create_decision pushes, exactly if there was one candidate; otherwise   *)
(* it names another PSP than the selected one.                             *)
(***************************************************************************)
FallbackGiven ==
  \A w \in Workers : Decide(w) =>
    LET d == decision'[w]
    IN  /\ d.selected # NoPsp
        /\ d.fallbacks = <<NoPsp>> <=> Len(cands[w]) = 1
        /\ d.fallbacks # <<d.selected>>

FallbackUnlessAlone == [][FallbackGiven]_vars

THEOREM FallbacksNamed ==
  Spec => FallbackUnlessAlone
<1>1. Types /\ Ready /\ (\A w \in Workers : Sound(w)) => FallbackGiven
  <2> SUFFICES ASSUME Types, Ready, \A w \in Workers : Sound(w), NEW w \in Workers, Decide(w)
               PROVE  LET d == decision'[w]
                      IN  /\ d.selected # NoPsp
                          /\ d.fallbacks = <<NoPsp>> <=> Len(cands[w]) = 1
                          /\ d.fallbacks # <<d.selected>>
    BY DEF FallbackGiven
  <2>1. /\ pc[w] = "weights"
        /\ cands[w] \in Seq(Route) /\ cands[w] # <<>>
        /\ Numeric(cands[w], request[w], WeightsOf(w))
    BY ReadyToScore DEF Decide
  <2>2. Distinct(cands[w])
    BY <2>1 DEF Sound, CandidatesSound
  <2>3. PICK p \in Primaries(cands[w], request[w], WeightsOf(w)) :
          LET backups == Fallbacks(p, cands[w], request[w], WeightsOf(w))
              backup == IF backups = {} THEN NoPsp
                        ELSE cands[w][CHOOSE k \in backups : TRUE].psp
          IN  decision' = [decision EXCEPT ![w] =
                             [selected |-> cands[w][p].psp, fallbacks |-> <<backup>>]]
    BY DEF Decide, WeightsOf
  <2> DEFINE backups == Fallbacks(p, cands[w], request[w], WeightsOf(w))
             backup == IF backups = {} THEN NoPsp
                       ELSE cands[w][CHOOSE k \in backups : TRUE].psp
  <2>4. /\ p \in DOMAIN cands[w]
        /\ backups = {} <=> Len(cands[w]) = 1
        /\ \A f \in backups : f \in DOMAIN cands[w] \ {p}
    BY <2>1, <2>3, SelectionMade
  <2>5. \A k \in DOMAIN cands[w] : cands[w][k].psp \in Psps /\ cands[w][k].psp # NoPsp
    BY <2>1, RoutePsps, RouterAssumption
  <2>6. decision'[w] = [selected |-> cands[w][p].psp, fallbacks |-> <<backup>>]
    BY <2>3 DEF Types
  <2> HIDE DEF backups
  <2>7. CASE backups = {}
    <3>1. backup = NoPsp
      BY <2>7
    <3> QED
      BY <2>4, <2>5, <2>6, <2>7, <3>1
  <2>8. CASE backups # {}
    <3>1. PICK k \in DOMAIN cands[w] \ {p} : backup = cands[w][k].psp
      <4>1. (CHOOSE k \in backups : TRUE) \in backups
        BY <2>8
      <4> QED
        BY <2>4, <2>8, <4>1
    <3>2. backup # NoPsp /\ backup # cands[w][p].psp
      BY <2>2, <2>4, <2>5, <3>1 DEF Distinct
    <3> HIDE DEF backup
    <3> QED
      BY <2>4, <2>5, <2>6, <2>8, <3>2
  <2> QED
    BY <2>7, <2>8
<1> DEFINE AllSound == \A w \in Workers : Sound(w)
<1>2. Init => AllSound
  BY DEF Init, Sound
<1>3. Types /\ AllSound /\ [Next]_vars => AllSound'
  BY SoundStep
<1>4. Types /\ Ready /\ AllSound => FallbackGiven
  BY <1>1
<1> HIDE DEF AllSound
<1> QED
  BY <1>2, <1>3, <1>4, AlwaysReady, PTL DEF Spec, FallbackUnlessAlone
===============================================================================
