--------------------------- MODULE SelectionProofs ---------------------------
(***************************************************************************)
(* What the selection of channels promises a request, for any channels,    *)
(* keys, models, priorities, success rates and cooldowns; and how fair the *)
(* round robins over channels and over URLs are, whatever weights change   *)
(* between the picks.                                                      *)
(***************************************************************************)
EXTENDS ChannelSelection, URLRoundRobin, ProofLemmas, FiniteSetTheorems

-----------------------------------------------------------------------------
(* The round robin *)

LEMMA ListById ==
    ASSUME NEW S, IsFiniteSet(S), S \subseteq Nat
    PROVE  /\ ToSet(ById(S)) = S /\ ById(S) \in Seq(S) /\ Len(ById(S)) = Cardinality(S)
           /\ Cardinality(S) \in Nat /\ DOMAIN ById(S) = 1 .. Cardinality(S)
<1>1. S \subseteq Int
  OBVIOUS
<1> QED BY <1>1, AscendingFacts DEF ById

LEMMA GroupsOfChannels ==
    \A G \in Groups : IsFiniteSet(G) /\ G \subseteq Channels /\ G \subseteq Nat
<1>1. IsFiniteSet(Channels) /\ Channels \subseteq Nat
  BY ChannelSelectionAssumption
<1> QED BY <1>1, FS_Subset DEF Groups

LEMMA LargerOfTwo ==
    ASSUME NEW m \in Nat, NEW n \in Nat
    PROVE  Max({m, n}) \in {m, n} /\ m <= Max({m, n}) /\ n <= Max({m, n})
<1>1. {m, n} \subseteq Nat /\ {m, n} # {} /\ m + n \in Nat /\ \A x \in {m, n} : x <= m + n
  OBVIOUS
<1> QED BY <1>1, GreatestNumber

LEMMA WeightsAreNumbers == Weights \in [Channels -> Nat]
<1>1. ASSUME NEW c \in Channels PROVE Weight(c) \in Nat
  <2> DEFINE free == {k \in KeysOf(c) : coolKey[c][k] = 0}
  <2>1. KeyCount[c] \in Nat
    BY ChannelSelectionAssumption
  <2>2. IsFiniteSet(1 .. KeyCount[c])
    BY <2>1, FS_Interval
  <2>3. free \in SUBSET (1 .. KeyCount[c])
    BY DEF KeysOf
  <2>4. IsFiniteSet(free)
    BY <2>2, <2>3, FS_Subset
  <2>5. Cardinality(free) \in Nat
    BY <2>4, FS_CardinalityType
  <2>6. Weight(c) = Max({1, Cardinality(free)})
    BY DEF Weight
  <2> HIDE DEF free
  <2>7. Max({1, Cardinality(free)}) \in {1, Cardinality(free)}
    BY <2>5, LargerOfTwo
  <2> QED BY <2>5, <2>6, <2>7
<1> QED BY <1>1 DEF Weights

LEMMA TotalIsNumber ==
    ASSUME NEW S, IsFiniteSet(S), NEW w, \A x \in S : w[x] \in Nat, NEW s, ToSet(s) = S
    PROVE  TotalWeight(w, s) \in Nat
<1> DEFINE Units(x) == {x} \X (1 .. w[x])
           all == {Units(x) : x \in S}
<1>1. IsFiniteSet(all)
  <2>1. [x \in S |-> Units(x)] \in Surjection(S, all)
    BY DEF Surjection
  <2> HIDE DEF all
  <2> QED BY <2>1, FS_Surjection
<1>2. \A T \in all : IsFiniteSet(T)
  <2>1. ASSUME NEW x \in S PROVE IsFiniteSet(Units(x))
    <3>1. IsFiniteSet({x})
      BY FS_Singleton
    <3>2. IsFiniteSet(1 .. w[x])
      <4>1. w[x] \in Int
        OBVIOUS
      <4> QED BY <4>1, FS_Interval
    <3> QED BY <3>1, <3>2, FS_Product
  <2> QED BY <2>1
<1>3. TotalWeight(w, s) = Cardinality(UNION all)
  BY DEF TotalWeight
<1> HIDE DEF all
<1>4. IsFiniteSet(UNION all)
  BY <1>1, <1>2, FS_UNION
<1> QED BY <1>3, <1>4, FS_CardinalityType

(* The order of pairs of numbers: the larger first, ties by the second one.     *)
Larger(m, i, n, j) == m > n \/ (m = n /\ i < j)

LEMMA LargerIsStrict ==
    /\ \A m, i \in Int : ~Larger(m, i, m, i)
    /\ \A m, n, i, j \in Int : i # j => Larger(m, i, n, j) \/ Larger(n, j, m, i)
    /\ \A m, n, k, i, j, l \in Int : Larger(m, i, n, j) /\ Larger(n, j, k, l) => Larger(m, i, k, l)
<1>1. ASSUME NEW m \in Int, NEW n \in Int, NEW i \in Int, NEW j \in Int, i # j
      PROVE  Larger(m, i, n, j) \/ Larger(n, j, m, i)
  <2>1. (m = n \/ m < n \/ n < m) /\ (i < j \/ j < i)
    BY <1>1
  <2> QED BY <2>1 DEF Larger
<1>2. \A m, i \in Int : ~Larger(m, i, m, i)
  BY DEF Larger
<1>3. \A m, n, k, i, j, l \in Int : Larger(m, i, n, j) /\ Larger(n, j, k, l) => Larger(m, i, k, l)
  BY DEF Larger
<1> QED BY <1>1, <1>2, <1>3

Beats(cw, s, i, j) == Larger(cw[s[i]], i, cw[s[j]], j)
Beating(D, cw, s) == {p \in D \X D : Beats(cw, s, p[1], p[2])}

(* The winner is a candidate, and none has a larger current weight. *)
LEMMA WinnerFacts ==
    ASSUME NEW S, IsFiniteSet(S), S # {}, S \subseteq Nat, NEW cw, \A x \in S : cw[x] \in Int
    PROVE  /\ Winner(cw, Ascending(S)) \in S
           /\ \A x \in S : cw[x] <= cw[Winner(cw, Ascending(S))]
<1>1. PICK s : s = Ascending(S)
  OBVIOUS
<1>2. ToSet(s) = S /\ Cardinality(S) \in Nat /\ DOMAIN s = 1 .. Cardinality(S)
  BY <1>1, ListById DEF ById
<1>0. PICK D : D = DOMAIN s
  OBVIOUS
<1>3. \A i \in D : s[i] \in S /\ cw[s[i]] \in Int /\ i \in Nat
  <2>1. ASSUME NEW i \in D PROVE s[i] \in S
    BY <1>0, <1>2 DEF ToSet
  <2>2. D \subseteq Nat
    BY <1>0, <1>2
  <2> QED BY <2>1, <2>2
<1>4. Strict(Beating(D, cw, s), D)
  <2>1. \A i, j \in D : <<i, j>> \in Beating(D, cw, s) <=> Beats(cw, s, i, j)
    BY DEF Beating
  <2>2. \A i \in D : ~Beats(cw, s, i, i)
    BY <1>3, LargerIsStrict DEF Beats
  <2>3. \A i, j \in D : i # j => Beats(cw, s, i, j) \/ Beats(cw, s, j, i)
    BY <1>3, LargerIsStrict DEF Beats
  <2>4. \A i, j, k \in D : Beats(cw, s, i, j) /\ Beats(cw, s, j, k) => Beats(cw, s, i, k)
    BY <1>3, LargerIsStrict DEF Beats
  <2> QED BY <2>1, <2>2, <2>3, <2>4 DEF Strict
<1>5. IsFiniteSet(D) /\ D # {}
  <2>1. IsFiniteSet(1 .. Cardinality(S))
    BY <1>2, FS_Interval
  <2> QED BY <1>0, <1>2, <2>1 DEF ToSet
<1>6. PICK i \in D : \A j \in D \ {i} : <<i, j>> \in Beating(D, cw, s)
  BY <1>4, <1>5, FirstMember
<1>7. ASSUME NEW j \in D PROVE cw[s[j]] < cw[s[i]] \/ (cw[s[j]] = cw[s[i]] /\ i <= j)
  <2>1. CASE j = i
    BY <1>3, <2>1
  <2>2. CASE j # i
    <3>1. <<i, j>> \in Beating(D, cw, s)
      BY <1>6, <2>2
    <3>2. Beats(cw, s, i, j)
      BY <3>1 DEF Beating
    <3> QED BY <1>3, <3>2 DEF Beats, Larger
  <2> QED BY <2>1, <2>2
<1> DEFINE First(k) == \A j \in D : cw[s[j]] < cw[s[k]] \/ (cw[s[j]] = cw[s[k]] /\ k <= j)
<1>8. \E k \in D : First(k) /\ Winner(cw, s) = s[k]
  <2>1. \E k \in D : First(k)
    BY <1>7
  <2>2. Winner(cw, s) = s[CHOOSE k \in D : First(k)]
    BY <1>0 DEF Winner
  <2> HIDE DEF First
  <2> QED BY <2>1, <2>2
<1>9. PICK k \in D : First(k) /\ Winner(cw, s) = s[k]
  BY <1>8
<1>10. \A j \in D : cw[s[j]] <= cw[s[k]]
  BY <1>3, <1>9
<1>11. \A x \in S : \E j \in D : x = s[j]
  BY <1>0, <1>2 DEF ToSet
<1>12. \A x \in S : cw[x] <= cw[s[k]]
  BY <1>10, <1>11
<1> QED BY <1>1, <1>3, <1>9, <1>12

(* A pick from a group is one of its channels, and the current weights stay    *)
(* numbers.                                                                    *)
LEMMA PickFacts ==
    ASSUME NEW G \in Groups, NEW cw \in [G -> Int]
    PROVE  /\ Picked(cw, Weights, ById(G)) \in G
           /\ Paid(cw, Weights, ById(G)) \in [G -> Int]
<1>1. IsFiniteSet(G) /\ G \subseteq Channels /\ G \subseteq Nat /\ G # {}
  <2>1. IsFiniteSet(G) /\ G \subseteq Channels /\ G \subseteq Nat
    BY GroupsOfChannels
  <2>2. Cardinality(G) > 1
    BY DEF Groups
  <2> QED BY <2>1, <2>2, FS_EmptySet
<1>2. PICK w : w = Weights /\ w \in [Channels -> Nat]
  BY WeightsAreNumbers
<1>3. PICK s : s = ById(G) /\ ToSet(s) = G
  BY <1>1, ListById
<1>4. Raised(cw, w, s) \in [G -> Int]
  <2>1. \A x \in G : cw[x] \in Int /\ w[x] \in Int /\ cw[x] + w[x] \in Int
    BY <1>1, <1>2
  <2> QED BY <1>3, <2>1 DEF Raised
<1>5. Picked(cw, w, s) \in G
  BY <1>1, <1>3, <1>4, WinnerFacts DEF Picked, ById
<1>6. TotalWeight(w, s) \in Nat
  <2>1. \A x \in G : w[x] \in Nat
    BY <1>1, <1>2
  <2> QED BY <1>1, <1>3, <2>1, TotalIsNumber
<1>7. Paid(cw, w, s) \in [G -> Int]
  <2>1. PICK r \in [G -> Int] : r = Raised(cw, w, s)
    BY <1>4
  <2>2. PICK x \in G : x = Picked(cw, w, s)
    BY <1>5
  <2>3. PICK n \in Nat : n = TotalWeight(w, s)
    BY <1>6
  <2>4. Paid(cw, w, s) = [r EXCEPT ![x] = r[x] - n]
    BY <2>1, <2>2, <2>3 DEF Paid
  <2>5. r[x] - n \in Int
    BY <2>1
  <2> QED BY <2>1, <2>2, <2>4, <2>5
<1> QED BY <1>2, <1>3, <1>5, <1>7

(* The total weight of the candidates is the sum of their weights. *)
LEMMA TotalIsSum ==
    ASSUME NEW w, NEW S, NEW s, ToSet(s) = S, NEW n \in Nat, S \subseteq 0..(n - 1),
           \A x \in S : w[x] \in Nat
    PROVE  TotalWeight(w, s) = SumOver(w, S, n) /\ TotalWeight(w, s) \in Nat
<1> DEFINE Units(x) == {x} \X (1..w[x])
           All(k) == UNION {Units(x) : x \in {y \in S : y < k}}
           p == [k \in 0..n |-> Cardinality(All(k))]
<1>0. \A x \in S : x \in Nat /\ x < n /\ ~(x < 0)
  OBVIOUS
<1>1. \A x \in S : IsFiniteSet(Units(x)) /\ Cardinality(Units(x)) = w[x]
  <2> SUFFICES ASSUME NEW x \in S
               PROVE  IsFiniteSet({x} \X (1..w[x])) /\ Cardinality({x} \X (1..w[x])) = w[x]
    OBVIOUS
  <2>1. PICK k \in Nat : k = w[x]
    OBVIOUS
  <2>2. IsFiniteSet({x}) /\ Cardinality({x}) = 1
    BY FS_Singleton
  <2>3. IsFiniteSet(1..k) /\ Cardinality(1..k) = k
    BY FS_Interval
  <2>4. IsFiniteSet({x} \X (1..k)) /\ Cardinality({x} \X (1..k)) = 1 * k
    BY <2>2, <2>3, FS_Product
  <2> QED BY <2>1, <2>4
<1>2. All(0) = {}
  BY <1>0
<1>3. All(n) = UNION {Units(x) : x \in S}
  <2>1. {y \in S : y < n} = S
    BY <1>0
  <2> QED BY <2>1
<1>4. ASSUME NEW k \in 0..(n - 1)
      PROVE  IF k \in S THEN All(k + 1) = All(k) \cup Units(k) /\ All(k) \cap Units(k) = {}
                        ELSE All(k + 1) = All(k)
  <2>1. k < k + 1 /\ ~(k < k) /\ \A x \in S : x < k + 1 <=> (x < k \/ x = k)
    BY <1>0
  <2>2. CASE k \in S
    <3>1. {y \in S : y < k + 1} = {y \in S : y < k} \cup {k}
      BY <2>1, <2>2
    <3>2. All(k + 1) = All(k) \cup Units(k)
      <4>1. {Units(x) : x \in {y \in S : y < k} \cup {k}}
                = {Units(x) : x \in {y \in S : y < k}} \cup {Units(k)}
        OBVIOUS
      <4> HIDE DEF Units
      <4> QED BY <3>1, <4>1
    <3>3. \A u \in Units(k) : u[1] = k
      OBVIOUS
    <3>4. \A u \in All(k) : u[1] # k
      BY <2>1
    <3> HIDE DEF All, Units
    <3>5. All(k) \cap Units(k) = {}
      BY <3>3, <3>4
    <3> QED BY <2>2, <3>2, <3>5
  <2>3. CASE k \notin S
    <3>1. {y \in S : y < k + 1} = {y \in S : y < k}
      BY <2>1, <2>3
    <3> QED BY <2>3, <3>1
  <2> QED BY <2>2, <2>3
<1>5. TotalWeight(w, s) = Cardinality(All(n))
  BY <1>3 DEF TotalWeight
<1> HIDE DEF All, Units
<1> DEFINE T == {k \in Nat : k <= n => IsFiniteSet(All(k))}
<1>6. 0 \in T
  BY <1>2, FS_EmptySet
<1>7. ASSUME NEW k \in Nat, k \in T PROVE k + 1 \in T
  <2> SUFFICES ASSUME k + 1 <= n PROVE IsFiniteSet(All(k + 1))
    OBVIOUS
  <2>1. k \in 0..(n - 1) /\ k <= n
    OBVIOUS
  <2>2. IsFiniteSet(All(k))
    BY <1>7, <2>1
  <2>3. CASE k \in S
    <3>1. All(k + 1) = All(k) \cup Units(k)
      BY <1>4, <2>1, <2>3
    <3>2. IsFiniteSet(Units(k))
      BY <1>1, <2>3
    <3> QED BY <2>2, <3>1, <3>2, FS_Union
  <2>4. CASE k \notin S
    BY <1>4, <2>1, <2>2, <2>4
  <2> QED BY <2>3, <2>4
<1>8. \A k \in 0..n : IsFiniteSet(All(k)) /\ Cardinality(All(k)) \in Nat
  <2> HIDE DEF T
  <2>1. \A k \in Nat : k \in T
    BY <1>6, <1>7, InductionOnNat
  <2>2. \A k \in 0..n : IsFiniteSet(All(k))
    BY <2>1 DEF T
  <2> QED BY <2>2, FS_CardinalityType
<1>9. p \in [0..n -> Int] /\ p[0] = 0 /\ p[n] = Cardinality(All(n))
  <2>1. 0 \in 0..n /\ n \in 0..n
    OBVIOUS
  <2> QED BY <1>2, <1>8, <2>1, FS_EmptySet
<1>10. \A x \in S : w[x] \in Int
  OBVIOUS
<1>11. PICK m \in [Nat -> Int] : m = Masked(w, S)
  BY <1>10, MaskedType DEF Summable
<1>12. ASSUME NEW k \in 0..(n - 1) PROVE p[k + 1] = p[k] + m[k]
  <2>1. k \in Nat /\ k \in 0..n /\ k + 1 \in 0..n
    OBVIOUS
  <2>2. p[k + 1] = Cardinality(All(k + 1)) /\ p[k] = Cardinality(All(k))
    BY <2>1
  <2>3. IsFiniteSet(All(k)) /\ Cardinality(All(k)) \in Nat
    BY <1>8, <2>1
  <2> HIDE DEF p
  <2>4. CASE k \in S
    <3>1. All(k + 1) = All(k) \cup Units(k) /\ All(k) \cap Units(k) = {}
      BY <1>4, <2>4
    <3>2. Cardinality(All(k + 1)) = Cardinality(All(k)) + Cardinality(Units(k)) - Cardinality({})
      BY <1>1, <2>3, <2>4, <3>1, FS_Union
    <3>3. Cardinality({}) = 0
      BY FS_EmptySet
    <3>4. m[k] = w[k] /\ w[k] \in Nat /\ Cardinality(Units(k)) = w[k]
      BY <1>1, <1>11, <2>1, <2>4 DEF Masked
    <3> QED BY <2>2, <2>3, <3>2, <3>3, <3>4
  <2>5. CASE k \notin S
    <3>1. m[k] = 0
      BY <1>11, <2>1, <2>5 DEF Masked
    <3>2. All(k + 1) = All(k)
      BY <1>4, <2>5
    <3> QED BY <2>2, <2>3, <3>1, <3>2
  <2> QED BY <2>4, <2>5
<1> HIDE DEF p
<1>13. SumTo(m, n) = p[n]
  BY <1>9, <1>12, SumOfChain DEF IsChain
<1>14. Cardinality(All(n)) \in Nat
  BY <1>8
<1> QED BY <1>5, <1>9, <1>11, <1>13, <1>14 DEF SumOver

(* What one pick does to the current weights cw of D: v of S wins and pays the  *)
(* total.                                                                       *)
IsPick(cw, w, S, D, v, total, paid) ==
    /\ cw \in [D -> Int] /\ paid \in [D -> Int] /\ S \subseteq D /\ v \in S /\ total \in Nat
    /\ \A x \in S : w[x] \in Nat /\ cw[x] + w[x] <= cw[v] + w[v]
    /\ \A x \in D : paid[x] = IF x = v THEN cw[x] + w[x] - total
                              ELSE IF x \in S THEN cw[x] + w[x] ELSE cw[x]

Pickable(S, D, cw, w, n) ==
    /\ S # {} /\ S \subseteq D /\ n \in Nat /\ S \subseteq 0..(n - 1)
    /\ cw \in [D -> Int] /\ \A x \in S : w[x] \in Nat

LEMMA PickIs ==
    ASSUME NEW S, NEW D, NEW cw, NEW w, NEW n, Pickable(S, D, cw, w, n), NEW s, s = Ascending(S)
    PROVE  /\ IsPick(cw, w, S, D, Picked(cw, w, s), TotalWeight(w, s), Paid(cw, w, s))
           /\ TotalWeight(w, s) = SumOver(w, S, n)
<1> USE DEF Pickable
<1>0. IsFiniteSet(S) /\ S \subseteq Nat
  <2>1. IsFiniteSet(0..(n - 1))
    BY FS_Interval
  <2>2. S \in SUBSET (0..(n - 1))
    OBVIOUS
  <2>3. IsFiniteSet(S)
    BY <2>1, <2>2, FS_Subset
  <2> QED BY <2>2, <2>3
<1>1. ToSet(s) = S
  BY <1>0, ListById DEF ById
<1>2. TotalWeight(w, s) \in Nat /\ TotalWeight(w, s) = SumOver(w, S, n)
  BY <1>1, TotalIsSum
<1>3. PICK total \in Nat : total = TotalWeight(w, s)
  BY <1>2
<1>4. PICK r : r = Raised(cw, w, s)
  OBVIOUS
<1>5. r \in [D -> Int] /\ \A x \in D : r[x] = IF x \in S THEN cw[x] + w[x] ELSE cw[x]
  <2>1. \A x \in D : cw[x] \in Int /\ (x \in S => cw[x] + w[x] \in Int)
    OBVIOUS
  <2> QED BY <1>1, <1>4, <2>1 DEF Raised
<1>6. PICK v : v = Picked(cw, w, s)
  OBVIOUS
<1>7. v \in S /\ \A x \in S : r[x] <= r[v]
  <2>1. \A x \in S : r[x] \in Int
    BY <1>5
  <2>2. v = Winner(r, Ascending(S))
    BY <1>4, <1>6 DEF Picked
  <2> QED BY <1>0, <2>1, <2>2, WinnerFacts
<1>8. Paid(cw, w, s) = [r EXCEPT ![v] = r[v] - total]
  BY <1>3, <1>4, <1>6 DEF Paid
<1>9. PICK paid : paid = Paid(cw, w, s)
  OBVIOUS
<1>10. v \in D /\ r[v] - total \in Int
  BY <1>5, <1>7
<1>11. paid \in [D -> Int] /\ \A x \in D : paid[x] = IF x = v THEN r[x] - total ELSE r[x]
  BY <1>5, <1>8, <1>9, <1>10
<1>12. \A x \in D : paid[x] = IF x = v THEN cw[x] + w[x] - total
                              ELSE IF x \in S THEN cw[x] + w[x] ELSE cw[x]
  BY <1>5, <1>7, <1>11
<1>13. \A x \in S : w[x] \in Nat /\ cw[x] + w[x] <= cw[v] + w[v]
  BY <1>5, <1>7
<1>14. IsPick(cw, w, S, D, v, total, paid)
  BY <1>7, <1>11, <1>12, <1>13 DEF IsPick
<1> QED BY <1>2, <1>3, <1>6, <1>9, <1>14

(* The current weights of A after a pick: the weights of its candidates are     *)
(* added, and the total is taken off if the winner is there.                    *)
Within(A, D, n) == n \in Nat /\ D \subseteq 0..(n - 1) /\ A \subseteq D

LEMMA SumAfterPick ==
    ASSUME NEW S, NEW D, NEW cw, NEW w, NEW v, NEW total, NEW paid,
           IsPick(cw, w, S, D, v, total, paid), NEW A, NEW n, Within(A, D, n)
    PROVE  /\ SumOver(paid, A, n) = SumOver(cw, A, n) + SumOver(w, A \cap S, n)
                                     - (IF v \in A THEN total ELSE 0)
           /\ SumOver(paid, A, n) \in Int /\ SumOver(cw, A, n) \in Int /\ SumOver(w, A \cap S, n) \in Int
<1> DEFINE gain == [x \in Nat |-> IF x \in S THEN w[x] ELSE 0]
           raised == [x \in Nat |-> IF x \in A THEN cw[x] + gain[x] ELSE 0]
           pays == [x \in Nat |-> IF x = v THEN -total ELSE 0]
<1>1. /\ total \in Int /\ -total \in Int /\ v \in S /\ S \subseteq D
      /\ \A x \in A : x \in Nat /\ cw[x] \in Int /\ paid[x] \in Int /\ (x \in S => w[x] \in Int)
  BY DEF IsPick, Within
<1>2. \A x \in A : /\ gain[x] = (IF x \in S THEN w[x] ELSE 0) /\ gain[x] \in Int
                   /\ pays[x] = (IF x = v THEN -total ELSE 0) /\ pays[x] \in Int
                   /\ raised[x] = cw[x] + gain[x] /\ raised[x] \in Int
  BY <1>1
<1> HIDE DEF gain, pays, raised
<1>3. \A x \in A : paid[x] = raised[x] + pays[x]
  <2>1. \A x \in A : paid[x] = IF x = v THEN cw[x] + w[x] - total
                               ELSE IF x \in S THEN cw[x] + w[x] ELSE cw[x]
    BY DEF IsPick, Within
  <2> QED BY <1>1, <1>2, <2>1
<1>4. A \subseteq 0..(n - 1) /\ A \subseteq D /\ n \in Nat
  BY DEF Within
<1>5. Summable(cw, A, n) /\ Summable(gain, A, n) /\ Summable(raised, A, n) /\ Summable(pays, A, n) /\ Summable(paid, A, n)
  BY <1>1, <1>2, <1>4 DEF Summable
<1>6. SumOver(paid, A, n) = SumOver(raised, A, n) + SumOver(pays, A, n)
  <2>1. IsPlus(paid, raised, pays, A)
    BY <1>3 DEF IsPlus
  <2> QED BY <1>5, <2>1, SumPlus
<1>7. SumOver(raised, A, n) = SumOver(cw, A, n) + SumOver(gain, A, n)
  <2>1. IsPlus(raised, cw, gain, A)
    BY <1>2 DEF IsPlus
  <2> QED BY <1>5, <2>1, SumPlus
<1>8. SumOver(gain, A, n) = SumOver(w, A \cap S, n)
  <2>1. SameOnPart(gain, A, w, A \cap S)
    BY <1>2 DEF SameOnPart
  <2> QED BY <2>1, SumRestrict
<1>9. SumOver(pays, A, n) = IF v \in A THEN -total ELSE 0
  <2>1. CASE v \in A
    <3>1. SameOnPart(pays, A, pays, {v})
      BY <1>2, <2>1 DEF SameOnPart
    <3>2. SumOver(pays, A, n) = SumOver(pays, {v}, n)
      BY <3>1, SumRestrict
    <3>3. Summable(pays, {v}, n)
      BY <1>5, <2>1 DEF Summable
    <3>4. SumOver(pays, {v}, n) = pays[v]
      BY <3>3, SumSingle
    <3> QED BY <1>2, <2>1, <3>2, <3>4
  <2>2. CASE v \notin A
    <3>1. SameOnPart(pays, A, pays, {})
      BY <1>2, <2>2 DEF SameOnPart
    <3>2. SumOver(pays, A, n) = SumOver(pays, {}, n)
      BY <3>1, SumRestrict
    <3> QED BY <1>4, <2>2, <3>2, SumEmpty
  <2> QED BY <2>1, <2>2
<1>10. SumOver(paid, A, n) \in Int /\ SumOver(cw, A, n) \in Int /\ SumOver(gain, A, n) \in Int
  BY <1>5, SumType
<1> QED BY <1>1, <1>6, <1>7, <1>8, <1>9, <1>10

(* Who wins a pick had at least an equal share: the current weight it then has, *)
(* as often as there are candidates, is no less than all of them together.      *)
LEMMA WinnerHasItsShare ==
    ASSUME NEW S, NEW D, NEW cw, NEW w, NEW v, NEW total, NEW paid,
           IsPick(cw, w, S, D, v, total, paid), NEW n, Within(S, D, n)
    PROVE  /\ SumOver(cw, S, n) + SumOver(w, S, n) <= Cardinality(S) * (cw[v] + w[v])
           /\ SumOver(cw, S, n) \in Int /\ SumOver(w, S, n) \in Int /\ cw[v] + w[v] \in Int
           /\ Cardinality(S) \in Nat /\ IsFiniteSet(S)
<1> DEFINE raised == [x \in Nat |-> IF x \in S THEN cw[x] + w[x] ELSE 0]
           same == [x \in Nat |-> cw[v] + w[v]]
<1> USE DEF Within
<1>1. S \subseteq 0..(n - 1) /\ \A x \in S : x \in Nat /\ cw[x] \in Int /\ w[x] \in Int
  BY DEF IsPick
<1>2. v \in S /\ cw[v] + w[v] \in Int
  BY <1>1 DEF IsPick
<1>3. \A x \in S : /\ raised[x] = cw[x] + w[x] /\ raised[x] \in Int
                   /\ same[x] = cw[v] + w[v] /\ same[x] \in Int
  BY <1>1, <1>2
<1> HIDE DEF raised, same
<1>4. IsLeq(raised, same, S)
  <2>1. \A x \in S : cw[x] + w[x] <= cw[v] + w[v]
    BY DEF IsPick
  <2> QED BY <1>3, <2>1 DEF IsLeq
<1>5. Summable(cw, S, n) /\ Summable(w, S, n) /\ Summable(raised, S, n) /\ Summable(same, S, n)
  BY <1>1, <1>3 DEF Summable
<1>6. SumOver(raised, S, n) = SumOver(cw, S, n) + SumOver(w, S, n)
  <2>1. IsPlus(raised, cw, w, S)
    BY <1>3 DEF IsPlus
  <2> QED BY <1>5, <2>1, SumPlus
<1>7. SumOver(raised, S, n) <= SumOver(same, S, n)
  BY <1>4, <1>5, SumLeq
<1>8. SumOver(same, S, n) = (cw[v] + w[v]) * Cardinality(S)
  <2>1. PICK a \in Int : a = cw[v] + w[v]
    BY <1>2
  <2>2. IsConstant(same, a, S)
    BY <1>3, <2>1 DEF IsConstant
  <2>3. SumOver(same, S, n) = a * Cardinality(S)
    BY <1>1, <2>2, SumOfConstant
  <2> QED BY <2>1, <2>3
<1>9. IsFiniteSet(S) /\ Cardinality(S) \in Nat
  <2>1. IsFiniteSet(0..(n - 1))
    BY FS_Interval
  <2> QED BY <1>1, <2>1, FS_Subset, FS_CardinalityType
<1>10. SumOver(cw, S, n) \in Int /\ SumOver(w, S, n) \in Int
  BY <1>5, SumType
<1>11. (cw[v] + w[v]) * Cardinality(S) = Cardinality(S) * (cw[v] + w[v])
  BY <1>2, <1>9
<1> QED BY <1>2, <1>6, <1>7, <1>8, <1>9, <1>10, <1>11

-----------------------------------------------------------------------------
(* Types, and how long an affinity lasts *)

SelectionInv == SelectionTypeOK /\ AffinityEndsInTime

\* What the types say of the affinities.
AffinitiesTyped ==
    /\ affinity \in [Models -> Affinities] /\ disk \in [Models -> Affinities]
    /\ granted \in [Models -> [Channels -> 0..AffinityTTL]]

LEMMA AnAffinity ==
    ASSUME NEW a \in Affinities
    PROVE  /\ a.left \in 0..AffinityTTL /\ a.left \in Nat
           /\ a.left > 0 => a.id \in Channels /\ a \in [id : Channels, left : 0..AffinityTTL]
           /\ Alive(a) \in Affinities /\ (Alive(a).left > 0 => Alive(a) = a)
           /\ NoAffinity \in Affinities /\ NoAffinity.left = 0
<1>1. AffinityTTL \in Nat
  BY ChannelSelectionAssumption
<1> QED BY <1>1 DEF Affinities, NoAffinity, Alive

LEMMA SelectionInitially == SelectionInit => SelectionInv
<1> SUFFICES ASSUME SelectionInit PROVE SelectionInv
  OBVIOUS
<1>1. SelectionTypeOK
  <2>1. /\ config \in Configs /\ enabled \subseteq Channels /\ over \subseteq Limited
        /\ coolCh \in [Channels -> Nat] /\ health \in [Channels -> 0..100]
        /\ listed \subseteq Channels /\ stale \in BOOLEAN
    BY DEF SelectionInit
  <2>2. \A c \in Channels : coolKey[c] \in [KeysOf(c) -> Nat]
    BY DEF SelectionInit
  <2>3. \A G \in Groups : rr[G] \in [G -> Int] /\ wait[G] \in [G -> Nat]
    BY DEF SelectionInit, NoRounds
  <2>4. AffinitiesTyped
    <3>1. AffinityTTL \in Nat
      BY ChannelSelectionAssumption
    <3> QED BY <3>1 DEF SelectionInit, AffinitiesTyped, Affinities
  <2> QED BY <2>1, <2>2, <2>3, <2>4 DEF SelectionTypeOK, AffinitiesTyped
<1>2. AffinityEndsInTime
  BY DEF SelectionInit, AffinityEndsInTime, NoAffinity
<1> QED BY <1>1, <1>2 DEF SelectionInv

(* A request keeps the weights of the round robin numbers. *)
LEMMA SelectsKeepsTypes ==
    ASSUME SelectionTypeOK, NEW q \in Routes, Selects(q)
    PROVE  SelectionTypeOK'
<1> DEFINE groups == {G \in Groups : \E b \in {Bucket(c) : c \in G} : G = Group(Chosen(q), b)}
<1>1. /\ config' = config /\ enabled' = enabled /\ over' = over /\ coolCh' = coolCh /\ coolKey' = coolKey
      /\ health' = health /\ affinity' = affinity /\ disk' = disk /\ granted' = granted
  BY DEF Selects, rowVars, affinityVars
<1>2. listed' \subseteq Channels /\ stale' \in BOOLEAN
  BY DEF Selects, List, Fresh, SelectionTypeOK
<1>3. ASSUME NEW G \in Groups PROVE rr'[G] \in [G -> Int] /\ wait'[G] \in [G -> Nat]
  <2>1. PICK cw : cw = rr[G] /\ cw \in [G -> Int] /\ wait[G] \in [G -> Nat]
    BY DEF SelectionTypeOK
  <2>2. Paid(cw, Weights, ById(G)) \in [G -> Int]
    BY <2>1, PickFacts
  <2>3. rr'[G] = IF G \in groups THEN Paid(rr[G], Weights, ById(G)) ELSE rr[G]
    BY DEF Selects
  <2>4. wait'[G] = IF G \in groups
                   THEN Missed(wait[G], Picked(rr[G], Weights, ById(G)), ById(G)) ELSE wait[G]
    BY DEF Selects
  <2> HIDE DEF groups
  <2>5. \A w : Missed(wait[G], w, ById(G)) \in [G -> Nat]
    BY <2>1 DEF Missed
  <2> QED BY <2>1, <2>2, <2>3, <2>4, <2>5
<1>4. \A c \in Channels : KeysOf(c)' = KeysOf(c)
  BY DEF KeysOf
<1> QED BY <1>1, <1>2, <1>3, <1>4 DEF SelectionTypeOK

(* What the types say of the rows of the cooldowns, and of the round robin.    *)
RowsTyped == coolCh \in [Channels -> Nat] /\ \A c \in Channels : coolKey[c] \in [KeysOf(c) -> Nat]
RoundsTyped == \A G \in Groups : rr[G] \in [G -> Int] /\ wait[G] \in [G -> Nat]
OthersTyped ==
    /\ config \in Configs /\ enabled \subseteq Channels /\ over \subseteq Limited
    /\ health \in [Channels -> 0..100] /\ listed \subseteq Channels /\ stale \in BOOLEAN

LEMMA TypesInParts == SelectionTypeOK <=> RowsTyped /\ RoundsTyped /\ OthersTyped /\ AffinitiesTyped
BY DEF SelectionTypeOK, RowsTyped, RoundsTyped, OthersTyped, AffinitiesTyped

LEMMA TypesInPartsNext ==
    ASSUME RowsTyped', RoundsTyped', OthersTyped', AffinitiesTyped'
    PROVE  SelectionTypeOK'
BY DEF SelectionTypeOK, RowsTyped, RoundsTyped, OthersTyped, AffinitiesTyped

(* The writer of the cooldowns keeps the types of the rows. *)
LEMMA RowsKeepTypes ==
    ASSUME RowsTyped, RowsChange
    PROVE  RowsTyped' /\ UNCHANGED <<config, enabled, over, health, cacheVars, rrVars, affinityVars>>
<1>1. CoolFor \subseteq Nat /\ KeyCoolFor \subseteq Nat
  BY ChannelSelectionAssumption
<1>2. PICK c \in Channels :
        \/ \E n \in CoolFor : WritesChannelFailure(c, n)
        \/ \E k \in KeysOf(c) : WritesSuccess(c, k) \/ \E n \in KeyCoolFor : WritesKeyFailure(c, k, n)
  BY DEF RowsChange
<1>3. OnlyRows
  BY <1>2 DEF WritesChannelFailure, WritesSuccess, WritesKeyFailure
<1>4. coolCh' \in [Channels -> Nat]
  BY <1>1, <1>2 DEF RowsTyped, WritesChannelFailure, WritesSuccess, WritesKeyFailure
<1>5. ASSUME NEW d \in Channels PROVE coolKey'[d] \in [KeysOf(d) -> Nat]
  <2>1. CASE coolKey' = coolKey
    BY <2>1 DEF RowsTyped
  <2>2. CASE \E k \in KeysOf(c), n \in Nat : coolKey' = [coolKey EXCEPT ![c][k] = n]
    <3>1. PICK k \in KeysOf(c), n \in Nat : coolKey' = [coolKey EXCEPT ![c] = [coolKey[c] EXCEPT ![k] = n]]
      BY <2>2
    <3>2. coolKey'[d] = coolKey[d] \/ (d = c /\ coolKey'[d] = [coolKey[c] EXCEPT ![k] = n])
      BY <3>1
    <3> QED BY <3>1, <3>2 DEF RowsTyped
  <2>3. \/ coolKey' = coolKey
        \/ \E k \in KeysOf(c), n \in Nat : coolKey' = [coolKey EXCEPT ![c][k] = n]
    BY <1>1, <1>2 DEF WritesChannelFailure, WritesSuccess, WritesKeyFailure
  <2> QED BY <2>1, <2>2, <2>3
<1>6. \A d \in Channels : KeysOf(d)' = KeysOf(d)
  BY DEF KeysOf
<1> QED BY <1>3, <1>4, <1>5, <1>6 DEF RowsTyped, OnlyRows

(* a is an affinity that ends in the time g grants its channel. *)
InTime(a, g) == a \in Affinities /\ (a.left > 0 => a.left <= g[a.id])
AllInTime ==
    /\ affinity \in [Models -> Affinities] /\ disk \in [Models -> Affinities]
    /\ granted \in [Models -> [Channels -> 0..AffinityTTL]]
    /\ \A m \in Models : InTime(affinity[m], granted[m]) /\ InTime(disk[m], granted[m])

LEMMA InTimeMeans == AllInTime <=> AffinitiesTyped /\ AffinityEndsInTime
<1>1. ASSUME AffinitiesTyped, AffinityEndsInTime PROVE AllInTime
  BY <1>1 DEF AllInTime, AffinitiesTyped, AffinityEndsInTime, InTime
<1>2. ASSUME AllInTime PROVE AffinitiesTyped /\ AffinityEndsInTime
  BY <1>2 DEF AllInTime, AffinitiesTyped, AffinityEndsInTime, InTime
<1> QED BY <1>1, <1>2

LEMMA NoneIsInTime == \A g : InTime(NoAffinity, g)
BY AnAffinity DEF InTime, NoAffinity, Affinities

LEMMA AliveIsInTime == \A a, g : InTime(a, g) => InTime(Alive(a), g)
BY NoneIsInTime DEF Alive

LEMMA SetsKeeps ==
    ASSUME AllInTime, NEW n \in Models, NEW c \in Channels, SetsAffinity(n, c)
    PROVE  AllInTime'
<1>1. PICK m \in Models : m = Target[n]
  BY ChannelSelectionAssumption
<1>2. AffinityTTL \in Nat
  BY ChannelSelectionAssumption
<1> DEFINE a == [id |-> c, left |-> AffinityTTL]
           g == [granted[m] EXCEPT ![c] = AffinityTTL]
<1>3. affinity' = [affinity EXCEPT ![m] = a] /\ disk' = disk
  BY <1>1 DEF SetsAffinity
<1>4. granted' = [granted EXCEPT ![m] = g]
  BY <1>1 DEF SetsAffinity
<1>5. g \in [Channels -> 0..AffinityTTL] /\ g[c] = AffinityTTL /\ \A d \in Channels : granted[m][d] <= g[d]
  BY <1>1, <1>2 DEF AllInTime
<1>6. a \in Affinities /\ InTime(a, g)
  BY <1>2, <1>5 DEF Affinities, InTime
<1>7. InTime(disk[m], g)
  <2>1. PICK d : d = disk[m] /\ d \in Affinities /\ (d.left > 0 => d.left <= granted[m][d.id])
    BY <1>1 DEF AllInTime, InTime
  <2>2. d.left > 0 => d.id \in Channels /\ d.left \in Nat
    BY <2>1, AnAffinity
  <2>3. \A x \in Channels : granted[m][x] \in Nat /\ g[x] \in Nat
    BY <1>1, <1>2, <1>5 DEF AllInTime
  <2> QED BY <1>5, <2>1, <2>2, <2>3 DEF InTime
<1> HIDE DEF a, g
<1>8. affinity' \in [Models -> Affinities] /\ disk' \in [Models -> Affinities]
  BY <1>3, <1>6 DEF AllInTime
<1>9. granted' \in [Models -> [Channels -> 0..AffinityTTL]]
  BY <1>4, <1>5 DEF AllInTime
<1>10. \A k \in Models : InTime(affinity'[k], granted'[k]) /\ InTime(disk'[k], granted'[k])
  BY <1>3, <1>4, <1>6, <1>7 DEF AllInTime
<1> QED BY <1>8, <1>9, <1>10 DEF AllInTime, InTime

LEMMA DropsKeeps ==
    ASSUME AllInTime, NEW S, affinity' = [m \in Models |-> IF m \in S THEN NoAffinity ELSE affinity[m]],
           disk' = disk, granted' = granted
    PROVE  AllInTime'
<1>1. affinity' \in [Models -> Affinities] /\ disk' \in [Models -> Affinities]
  BY AnAffinity DEF AllInTime, Affinities
<1>2. \A m \in Models : InTime(affinity'[m], granted'[m]) /\ InTime(disk'[m], granted'[m])
  BY NoneIsInTime DEF AllInTime
<1> QED BY <1>1, <1>2 DEF AllInTime, InTime

LEMMA FlushKeeps == AllInTime /\ Flushes => AllInTime'
<1> SUFFICES ASSUME AllInTime, Flushes PROVE AllInTime'
  OBVIOUS
<1>1. affinity' = affinity /\ granted' = granted /\ disk' = [m \in Models |-> Alive(affinity[m])]
  BY DEF Flushes
<1>2. \A m \in Models : InTime(Alive(affinity[m]), granted[m]) /\ Alive(affinity[m]) \in Affinities
  BY AliveIsInTime DEF AllInTime, InTime
<1> QED BY <1>1, <1>2 DEF AllInTime, InTime

LEMMA RestartKeeps == AllInTime /\ Restarts => AllInTime'
<1> SUFFICES ASSUME AllInTime, Restarts PROVE AllInTime'
  OBVIOUS
<1>1. disk' = disk /\ granted' = granted /\ affinity' = [m \in Models |-> Alive(disk[m])]
  BY DEF Restarts
<1>2. \A m \in Models : InTime(Alive(disk[m]), granted[m]) /\ Alive(disk[m]) \in Affinities
  BY AliveIsInTime DEF AllInTime, InTime
<1> QED BY <1>1, <1>2 DEF AllInTime, InTime

LEMMA OlderIsInTime ==
    ASSUME NEW g \in [Channels -> 0..AffinityTTL], NEW a, InTime(a, g)
    PROVE  InTime([a EXCEPT !.left = Less(@)], [c \in Channels |-> Less(g[c])])
<1> DEFINE b == [a EXCEPT !.left = Less(a.left)]
<1>1. AffinityTTL \in Nat /\ a.left \in 0..AffinityTTL
  BY ChannelSelectionAssumption, AnAffinity DEF InTime
<1>2. CASE a = NoAffinity
  <2>1. b = NoAffinity
    BY <1>2 DEF NoAffinity, Less
  <2> QED BY <2>1, NoneIsInTime
<1>3. CASE a \in [id : Channels, left : 0..AffinityTTL]
  <2>1. b.id = a.id /\ b.left = Less(a.left) /\ b \in [id : Channels, left : 0..AffinityTTL]
    BY <1>1, <1>3 DEF Less
  <2>2. a.id \in Channels /\ g[a.id] \in 0..AffinityTTL
    BY <1>3
  <2>3. a.left > 0 => a.left <= g[a.id]
    BY DEF InTime
  <2>4. Less(a.left) > 0 => Less(a.left) <= Less(g[a.id])
    BY <1>1, <2>2, <2>3 DEF Less
  <2> QED BY <2>1, <2>2, <2>4 DEF InTime, Affinities
<1> QED BY <1>2, <1>3 DEF InTime, Affinities

LEMMA TickKeeps == AllInTime /\ Tick => AllInTime'
<1> SUFFICES ASSUME AllInTime, Tick PROVE AllInTime'
  OBVIOUS
<1> DEFINE Aged(a) == [a EXCEPT !.left = Less(@)]
           Ran(g) == [c \in Channels |-> Less(g[c])]
<1>1. /\ affinity' = [m \in Models |-> Aged(affinity[m])] /\ disk' = [m \in Models |-> Aged(disk[m])]
      /\ granted' = [m \in Models |-> Ran(granted[m])]
  BY DEF Tick, Older
<1>2. ASSUME NEW m \in Models
      PROVE  /\ InTime(Aged(affinity[m]), Ran(granted[m])) /\ InTime(Aged(disk[m]), Ran(granted[m]))
             /\ Ran(granted[m]) \in [Channels -> 0..AffinityTTL]
  <2>1. PICK g \in [Channels -> 0..AffinityTTL] : g = granted[m]
    BY DEF AllInTime
  <2>2. InTime(affinity[m], g) /\ InTime(disk[m], g)
    BY <2>1 DEF AllInTime
  <2>3. AffinityTTL \in Nat
    BY ChannelSelectionAssumption
  <2>4. Ran(g) \in [Channels -> 0..AffinityTTL]
    BY <2>3 DEF Less
  <2>5. InTime(Aged(affinity[m]), Ran(g)) /\ InTime(Aged(disk[m]), Ran(g))
    BY <2>2, OlderIsInTime
  <2> QED BY <2>1, <2>4, <2>5
<1>3. \A m \in Models : Aged(affinity[m]) \in Affinities /\ Aged(disk[m]) \in Affinities
  BY <1>2 DEF InTime
<1> HIDE DEF Aged, Ran
<1> QED BY <1>1, <1>2, <1>3 DEF AllInTime, InTime

LEMMA SelectionStep ==
    ASSUME SelectionInv, [SelectionNext]_selectionVars
    PROVE  SelectionInv'
<1> USE DEF SelectionInv
<1>0. RowsTyped /\ RoundsTyped /\ OthersTyped /\ AllInTime
  BY TypesInParts, InTimeMeans
<1>1. SUFFICES RowsTyped' /\ RoundsTyped' /\ OthersTyped' /\ AllInTime'
  <2>1. AllInTime' => AffinitiesTyped' /\ AffinityEndsInTime'
    BY DEF AllInTime, AffinitiesTyped, AffinityEndsInTime, InTime
  <2> QED BY <2>1, TypesInPartsNext
<1>2. /\ UNCHANGED <<coolCh, coolKey>> => RowsTyped'
      /\ UNCHANGED <<rr, wait>> => RoundsTyped'
      /\ UNCHANGED <<config, enabled, over, health, listed, stale>> => OthersTyped'
      /\ UNCHANGED <<affinity, disk, granted>> => AllInTime'
  BY <1>0 DEF RowsTyped, RoundsTyped, OthersTyped, AllInTime, InTime, KeysOf
<1>3. rr' = NoRounds /\ wait' = NoRounds => RoundsTyped'
  BY DEF RoundsTyped, NoRounds
<1> USE DEF rowVars, cacheVars, rrVars, affinityVars
<1>4. ASSUME NEW q \in Routes, Selects(q) PROVE RowsTyped' /\ RoundsTyped' /\ OthersTyped' /\ AllInTime'
  <2>1. SelectionTypeOK'
    BY <1>4, SelectsKeepsTypes
  <2>2. RoundsTyped' /\ OthersTyped'
    BY <2>1 DEF SelectionTypeOK, RoundsTyped, OthersTyped
  <2>3. UNCHANGED <<coolCh, coolKey, affinity, disk, granted>>
    BY <1>4 DEF Selects
  <2> QED BY <1>2, <2>2, <2>3
<1>5. CASE ListExpires
  <2>1. OthersTyped'
    BY <1>0, <1>5 DEF ListExpires, OthersTyped
  <2> QED BY <1>2, <1>5, <2>1 DEF ListExpires
<1>6. CASE RowsChange
  BY <1>0, <1>2, <1>6, RowsKeepTypes
<1>7. CASE NewDay
  <2>1. OthersTyped'
    BY <1>0, <1>7 DEF NewDay, OthersTyped
  <2> QED BY <1>2, <1>7, <2>1 DEF NewDay
<1>8. CASE ClearsAffinity
  <2>1. affinity' = [m \in Models |-> IF m \in Models THEN NoAffinity ELSE affinity[m]]
    BY <1>8 DEF ClearsAffinity
  <2>2. UNCHANGED <<disk, granted>>
    BY <1>8 DEF ClearsAffinity
  <2> QED BY <1>0, <1>2, <1>8, <2>1, <2>2, DropsKeeps DEF ClearsAffinity
<1>9. ASSUME NEW c \in Channels, NEW r \in Rates[c], HealthUpdates(c, r)
      PROVE  RowsTyped' /\ RoundsTyped' /\ OthersTyped' /\ AllInTime'
  <2>1. r \in 0..100
    BY ChannelSelectionAssumption
  <2>2. OthersTyped'
    BY <1>0, <1>9, <2>1 DEF HealthUpdates, OthersTyped
  <2> QED BY <1>2, <1>9, <2>2 DEF HealthUpdates
<1>10. ASSUME NEW m \in Models \cap Routes, NEW c \in Matching[m], SetsAffinity(m, c)
       PROVE  RowsTyped' /\ RoundsTyped' /\ OthersTyped' /\ AllInTime'
  <2>1. c \in Channels /\ m \in Models
    BY ChannelSelectionAssumption
  <2>2. AllInTime'
    BY <1>0, <1>10, <2>1, SetsKeeps
  <2> QED BY <1>2, <1>10, <2>2 DEF SetsAffinity
<1>11. ASSUME NEW c \in Channels, DropsAffinity(c)
       PROVE  RowsTyped' /\ RoundsTyped' /\ OthersTyped' /\ AllInTime'
  <2> DEFINE S == {m \in Models : affinity[m].id = c}
  <2>1. affinity' = [m \in Models |-> IF m \in S THEN NoAffinity ELSE affinity[m]] /\ UNCHANGED <<disk, granted>>
    BY <1>11 DEF DropsAffinity
  <2> HIDE DEF S
  <2>2. AllInTime'
    BY <1>0, <2>1, DropsKeeps
  <2> QED BY <1>2, <1>11, <2>2 DEF DropsAffinity
<1>12. ASSUME NEW c \in Limited, Spends(c)
       PROVE  RowsTyped' /\ RoundsTyped' /\ OthersTyped' /\ AllInTime'
  <2>1. OthersTyped'
    BY <1>0, <1>12 DEF Spends, OthersTyped
  <2> QED BY <1>2, <1>12, <2>1 DEF Spends
<1>13. ASSUME NEW c \in AdminChannels, Toggles(c)
       PROVE  RowsTyped' /\ RoundsTyped' /\ OthersTyped' /\ AllInTime'
  <2>1. c \in Channels
    BY ChannelSelectionAssumption
  <2>2. OthersTyped'
    BY <1>0, <1>13, <2>1 DEF Toggles, OthersTyped
  <2> QED BY <1>2, <1>3, <1>13, <2>2 DEF Toggles
<1>14. ASSUME NEW G \in Groups, ForgetsRound(G)
       PROVE  RowsTyped' /\ RoundsTyped' /\ OthersTyped' /\ AllInTime'
  <2>1. RoundsTyped'
    BY <1>0, <1>14 DEF ForgetsRound, RoundsTyped, NoRounds
  <2> QED BY <1>2, <1>14, <2>1 DEF ForgetsRound
<1>15. CASE Flushes
  BY <1>0, <1>2, <1>15, FlushKeeps DEF Flushes
<1>16. CASE Restarts
  <2>1. OthersTyped'
    BY <1>0, <1>16 DEF Restarts, OthersTyped
  <2> QED BY <1>0, <1>2, <1>3, <1>16, <2>1, RestartKeeps DEF Restarts
<1>17. CASE Tick
  <2>1. RowsTyped'
    <3>1. coolCh' \in [Channels -> Nat]
      BY <1>0, <1>17 DEF Tick, RowsTyped, Less
    <3>2. ASSUME NEW c \in Channels PROVE coolKey'[c] \in [KeysOf(c) -> Nat]
      <4>1. PICK k \in [KeysOf(c) -> Nat] : k = coolKey[c]
        BY <1>0 DEF RowsTyped
      <4>2. coolKey'[c] = [j \in KeysOf(c) |-> Less(k[j])]
        BY <1>17, <4>1 DEF Tick
      <4> QED BY <4>1, <4>2 DEF Less
    <3> QED BY <3>1, <3>2 DEF RowsTyped, KeysOf
  <2> QED BY <1>0, <1>2, <1>17, <2>1, TickKeeps DEF Tick
<1>18. CASE UNCHANGED selectionVars
  BY <1>2, <1>18 DEF selectionVars
<1> QED BY <1>4, <1>5, <1>6, <1>7, <1>8, <1>9, <1>10, <1>11, <1>12, <1>13, <1>14, <1>15, <1>16, <1>17, <1>18
        DEF SelectionNext

LEMMA SelectionInvariant == SelectionSpec => []SelectionInv
BY SelectionInitially, SelectionStep, PTL DEF SelectionSpec

(* Rows, scores, the cached list, the round robin and the affinities have the  *)
(* types the code gives them, whatever requests, the writer of the cooldowns,  *)
(* administrators, flushes and restarts do.                                    *)
THEOREM SelectionTypeCorrect == SelectionSpec => []SelectionTypeOK
BY SelectionInvariant, PTL DEF SelectionInv

(* No flush, no restart and no clean-up lets an affinity live on longer than   *)
(* AffinityTTL after a success on its channel.                                 *)
THEOREM AffinityEnds == SelectionSpec => []AffinityEndsInTime
BY SelectionInvariant, PTL DEF SelectionInv

-----------------------------------------------------------------------------
(* The fallback *)

LEMMA LeastOf ==
    ASSUME NEW S, S \subseteq Nat, S # {}
    PROVE  Min(S) \in S /\ \A x \in S : Min(S) <= x
<1>1. \E x \in S : \A y \in S : x <= y
  BY LeastNumber
<1>2. Min(S) = CHOOSE x \in S : \A y \in S : x <= y
  BY DEF Min
<1> QED BY <1>1, <1>2

(* A channel becomes usable when getReadyAt says so, if nothing but time       *)
(* happens.                                                                    *)
LEMMA ReadyMeans ==
    ASSUME RowsTyped, NEW c \in Channels
    PROVE  /\ ReadyIn(c) \in Nat
           /\ \A n \in Nat : ReadyIn(c) <= n <=> UsableAfter(c, n)
<1>1. PICK k \in [KeysOf(c) -> Nat] : k = coolKey[c]
  BY DEF RowsTyped
<1>2. PICK m \in Nat : m = coolCh[c]
  BY DEF RowsTyped
<1>3. KeyCount[c] \in Nat /\ (KeysOf(c) # {} <=> KeyCount[c] > 0)
  BY ChannelSelectionAssumption DEF KeysOf
<1>4. CASE AllKeysCool(c)
  <2> DEFINE S == {k[i] : i \in KeysOf(c)}
  <2>1. S \subseteq Nat /\ S # {} /\ KeyCount[c] > 0
    BY <1>3, <1>4 DEF AllKeysCool
  <2>2. Min(S) \in S /\ \A x \in S : Min(S) <= x
    BY <2>1, LeastOf
  <2>3. ReadyIn(c) = Max({m, Min(S)})
    BY <1>1, <1>2, <1>4 DEF ReadyIn
  <2>4. PICK first \in Nat : first = Min(S)
    BY <2>1, <2>2
  <2>5. Max({m, first}) \in {m, first} /\ m <= Max({m, first}) /\ first <= Max({m, first})
    BY LargerOfTwo
  <2>6. ASSUME NEW n \in Nat PROVE first <= n <=> \E i \in KeysOf(c) : k[i] <= n
    <3>1. PICK i \in KeysOf(c) : first = k[i]
      BY <2>2, <2>4
    <3>2. \A j \in KeysOf(c) : first <= k[j] /\ k[j] \in Nat
      BY <2>2, <2>4
    <3> QED BY <3>1, <3>2
  <2> HIDE DEF S
  <2>7. ASSUME NEW n \in Nat PROVE ReadyIn(c) <= n <=> UsableAfter(c, n)
    BY <1>1, <1>2, <2>1, <2>3, <2>4, <2>5, <2>6 DEF UsableAfter
  <2> QED BY <2>3, <2>4, <2>5, <2>7
<1>5. CASE ~AllKeysCool(c)
  <2>1. ReadyIn(c) = m
    BY <1>2, <1>5 DEF ReadyIn
  <2>2. KeyCount[c] > 0 => \E i \in KeysOf(c) : k[i] = 0
    BY <1>1, <1>5 DEF AllKeysCool
  <2>3. ASSUME NEW n \in Nat PROVE m <= n <=> UsableAfter(c, n)
    BY <1>1, <1>2, <2>2 DEF UsableAfter
  <2> QED BY <2>1, <2>3
<1> QED BY <1>4, <1>5

(* Larger scores first, then the larger of two numbers, then by id; and the    *)
(* shorter time before that.                                                   *)
Better(e, p, i, f, q, j) == e > f \/ (e = f /\ Larger(p, i, q, j))
Sooner(r, e, p, i, s, f, q, j) == r < s \/ (r = s /\ Better(e, p, i, f, q, j))

LEMMA BetterIsStrict ==
    /\ \A e, p, i \in Int : ~Better(e, p, i, e, p, i)
    /\ \A e, p, i, f, q, j \in Int : i # j => Better(e, p, i, f, q, j) \/ Better(f, q, j, e, p, i)
    /\ \A e, p, i, f, q, j, g, u, k \in Int :
          Better(e, p, i, f, q, j) /\ Better(f, q, j, g, u, k) => Better(e, p, i, g, u, k)
<1>1. \A e, p, i \in Int : ~Better(e, p, i, e, p, i)
  BY LargerIsStrict DEF Better
<1>2. ASSUME NEW e \in Int, NEW p \in Int, NEW i \in Int, NEW f \in Int, NEW q \in Int, NEW j \in Int, i # j
      PROVE  Better(e, p, i, f, q, j) \/ Better(f, q, j, e, p, i)
  <2>1. e < f \/ e = f \/ f < e
    OBVIOUS
  <2>2. Larger(p, i, q, j) \/ Larger(q, j, p, i)
    BY <1>2, LargerIsStrict
  <2> QED BY <2>1, <2>2 DEF Better
<1>3. ASSUME NEW e \in Int, NEW p \in Int, NEW i \in Int, NEW f \in Int, NEW q \in Int, NEW j \in Int,
             NEW g \in Int, NEW u \in Int, NEW k \in Int,
             Better(e, p, i, f, q, j), Better(f, q, j, g, u, k)
      PROVE  Better(e, p, i, g, u, k)
  <2>1. Larger(p, i, q, j) /\ Larger(q, j, u, k) => Larger(p, i, u, k)
    BY LargerIsStrict
  <2> QED BY <1>3, <2>1 DEF Better
<1> QED BY <1>1, <1>2, <1>3

LEMMA SoonerIsStrict ==
    /\ \A r, e, p, i \in Int : ~Sooner(r, e, p, i, r, e, p, i)
    /\ \A r, e, p, i, s, f, q, j \in Int :
          i # j => Sooner(r, e, p, i, s, f, q, j) \/ Sooner(s, f, q, j, r, e, p, i)
    /\ \A r, e, p, i, s, f, q, j, t, g, u, k \in Int :
          Sooner(r, e, p, i, s, f, q, j) /\ Sooner(s, f, q, j, t, g, u, k) => Sooner(r, e, p, i, t, g, u, k)
<1>1. \A r, e, p, i \in Int : ~Sooner(r, e, p, i, r, e, p, i)
  BY BetterIsStrict DEF Sooner
<1>2. ASSUME NEW r \in Int, NEW e \in Int, NEW p \in Int, NEW i \in Int,
             NEW s \in Int, NEW f \in Int, NEW q \in Int, NEW j \in Int, i # j
      PROVE  Sooner(r, e, p, i, s, f, q, j) \/ Sooner(s, f, q, j, r, e, p, i)
  <2>1. r < s \/ r = s \/ s < r
    OBVIOUS
  <2>2. Better(e, p, i, f, q, j) \/ Better(f, q, j, e, p, i)
    BY <1>2, BetterIsStrict
  <2> QED BY <2>1, <2>2 DEF Sooner
<1>3. ASSUME NEW r \in Int, NEW e \in Int, NEW p \in Int, NEW i \in Int,
             NEW s \in Int, NEW f \in Int, NEW q \in Int, NEW j \in Int,
             NEW t \in Int, NEW g \in Int, NEW u \in Int, NEW k \in Int,
             Sooner(r, e, p, i, s, f, q, j), Sooner(s, f, q, j, t, g, u, k)
      PROVE  Sooner(r, e, p, i, t, g, u, k)
  <2>1. Better(e, p, i, f, q, j) /\ Better(f, q, j, g, u, k) => Better(e, p, i, g, u, k)
    BY DEF Better, Larger
  <2> QED BY <1>3, <2>1 DEF Sooner
<1> QED BY <1>1, <1>2, <1>3

LEMMA EffectiveIsNumber ==
    ASSUME OthersTyped, NEW c \in Channels
    PROVE  Effective(c) \in Int /\ Priority[c] \in Int /\ c \in Nat
<1>1. PICK p \in Int : p = Priority[c]
  BY ChannelSelectionAssumption
<1>2. PICK h \in 0..100 : h = health[c]
  BY DEF OthersTyped
<1>3. Effective(c) = p * (IF config.health THEN 200 + 8 * h ELSE 1000)
  BY <1>1, <1>2 DEF Effective
<1>4. 200 + 8 * h \in Int /\ p * (200 + 8 * h) \in Int /\ p * 1000 \in Int
  OBVIOUS
<1> QED BY <1>1, <1>3, <1>4, ChannelSelectionAssumption

Recovering(S) == {p \in S \X S : RecoversFirst(p[1], p[2])}

LEMMA RecoveringIsStrict ==
    ASSUME RowsTyped, OthersTyped, NEW S \in SUBSET Channels
    PROVE  Strict(Recovering(S), S)
<1> DEFINE P(c, d) == Sooner(ReadyIn(c), Effective(c), Priority[c], c, ReadyIn(d), Effective(d), Priority[d], d)
<1>1. \A c \in S : ReadyIn(c) \in Int /\ Effective(c) \in Int /\ Priority[c] \in Int /\ c \in Int
  BY ReadyMeans, EffectiveIsNumber
<1>2. \A c, d \in S : RecoversFirst(c, d) <=> P(c, d)
  BY DEF RecoversFirst, Sooner, Better, Larger
<1>3. \A c, d \in S : <<c, d>> \in Recovering(S) <=> RecoversFirst(c, d)
  BY DEF Recovering
<1>4. \A c \in S : ~P(c, c)
  BY <1>1, SoonerIsStrict
<1>5. ASSUME NEW c \in S, NEW d \in S, c # d PROVE P(c, d) \/ P(d, c)
  <2>1. PICK r, e, p, s, f, q \in Int :
          /\ r = ReadyIn(c) /\ e = Effective(c) /\ p = Priority[c]
          /\ s = ReadyIn(d) /\ f = Effective(d) /\ q = Priority[d]
    BY <1>1
  <2>2. c \in Int /\ d \in Int
    BY <1>1
  <2>3. Sooner(r, e, p, c, s, f, q, d) \/ Sooner(s, f, q, d, r, e, p, c)
    BY <1>5, <2>2, SoonerIsStrict
  <2> QED BY <2>1, <2>3
<1>6. \A c, d, e \in S : P(c, d) /\ P(d, e) => P(c, e)
  BY <1>1, SoonerIsStrict, Zenon
<1> HIDE DEF P
<1> QED BY <1>2, <1>3, <1>4, <1>5, <1>6 DEF Strict

(* The fallback is a channel that is ready no later than any other.            *)
LEMMA FallbackFacts ==
    ASSUME RowsTyped, OthersTyped, NEW S \in SUBSET Channels
    PROVE  \/ Fallback(S) = <<>> /\ (S = {} \/ ~config.fallback)
           \/ /\ config.fallback
              /\ \E c \in S : Fallback(S) = <<c>> /\ \A d \in S : ReadyIn(c) <= ReadyIn(d)
<1>1. CASE S = {} \/ ~config.fallback
  BY <1>1 DEF Fallback
<1>2. CASE ~(S = {} \/ ~config.fallback)
  <2>1. IsFiniteSet(S)
    BY ChannelSelectionAssumption, FS_Subset
  <2>2. PICK x \in S : \A d \in S \ {x} : <<x, d>> \in Recovering(S)
    BY <1>2, <2>1, RecoveringIsStrict, FirstMember
  <2>3. \A d \in S \ {x} : RecoversFirst(x, d)
    BY <2>2 DEF Recovering
  <2>4. PICK c : c = CHOOSE y \in S : \A d \in S \ {y} : RecoversFirst(y, d)
    OBVIOUS
  <2>5. c \in S /\ \A d \in S \ {c} : RecoversFirst(c, d)
    BY <2>3, <2>4
  <2>6. Fallback(S) = <<c>>
    BY <1>2, <2>4 DEF Fallback
  <2>7. \A d \in S : ReadyIn(d) \in Nat
    BY ReadyMeans
  <2>8. ASSUME NEW d \in S PROVE ReadyIn(c) <= ReadyIn(d)
    <3>1. CASE d = c
      BY <2>5, <2>7, <3>1
    <3>2. CASE d # c
      BY <2>5, <2>7, <3>2 DEF RecoversFirst
    <3> QED BY <3>1, <3>2
  <2> QED BY <1>2, <2>5, <2>6, <2>8
<1> QED BY <1>1, <1>2

-----------------------------------------------------------------------------
(* The lists *)

(* The channels that are ordered are enabled or were listed, within their      *)
(* limit and usable.                                                           *)
LEMMA ChosenFacts ==
    ASSUME OthersTyped, NEW q
    PROVE  Chosen(q) \in SUBSET Channels /\ IsFiniteSet(Chosen(q)) /\ Chosen(q) \cap over = {}
           /\ \A c \in Chosen(q) : Usable(c)
<1>1. enabled \subseteq Channels /\ listed \subseteq Channels
  BY DEF OthersTyped
<1>2. List \subseteq Channels
  BY <1>1 DEF List, Fresh
<1>3. ExactOf(q) \subseteq Channels /\ WiderOf(q) \subseteq Channels /\ TypedOf \subseteq Channels
  BY <1>1, <1>2 DEF ExactOf, WiderOf, TypedOf, CachedOfType
<1>4. \E S \in SUBSET Channels : Chosen(q) = NotCooled(WithinLimit(S))
  BY <1>3 DEF Chosen
<1>5. PICK S \in SUBSET Channels : Chosen(q) = NotCooled(WithinLimit(S))
  BY <1>4
<1>6. Chosen(q) \in SUBSET Channels /\ Chosen(q) \cap over = {} /\ \A c \in Chosen(q) : Usable(c)
  BY <1>5 DEF NotCooled, WithinLimit
<1> QED BY <1>6, ChannelSelectionAssumption, FS_Subset

LEMMA BucketIsNumber ==
    ASSUME OthersTyped, NEW c \in Channels
    PROVE  Bucket(c) \in Int
<1>1. PICK e \in Int : e = Effective(c)
  BY EffectiveIsNumber
<1>2. Priority[c] \in Int
  BY EffectiveIsNumber
<1>3. e \div 100 \in Int /\ -((-e) \div 100) \in Int
  OBVIOUS
<1> QED BY <1>1, <1>2, <1>3 DEF Bucket

LEMMA BucketsFollow ==
    ASSUME OthersTyped, NEW c \in Channels, NEW d \in Channels, Effective(c) >= Effective(d)
    PROVE  Bucket(c) >= Bucket(d)
<1>1. PICK e, f \in Int : e = Effective(c) /\ f = Effective(d) /\ e >= f
  BY EffectiveIsNumber
<1>2. PICK p, r \in Int : p = Priority[c] /\ r = Priority[d]
  BY EffectiveIsNumber
<1>3. CASE ~config.health
  <2>1. e = p * 1000 /\ f = r * 1000
    BY <1>1, <1>2, <1>3 DEF Effective
  <2>2. p >= r
    BY <1>1, <2>1
  <2> QED BY <1>2, <1>3, <2>2 DEF Bucket
<1>4. CASE config.health
  <2>1. /\ Bucket(c) = IF e >= 0 THEN e \div 100 ELSE -((-e) \div 100)
        /\ Bucket(d) = IF f >= 0 THEN f \div 100 ELSE -((-f) \div 100)
    BY <1>1, <1>4 DEF Bucket
  <2>2. e >= 0 /\ f >= 0 => e \div 100 >= f \div 100
    BY <1>1
  <2>3. e >= 0 /\ f < 0 => e \div 100 >= 0 /\ -((-f) \div 100) <= 0
    OBVIOUS
  <2>4. e < 0 /\ f < 0 => -((-e) \div 100) >= -((-f) \div 100)
    BY <1>1
  <2>5. ~(e < 0 /\ f >= 0)
    BY <1>1
  <2>6. e \div 100 \in Int /\ f \div 100 \in Int /\ -((-e) \div 100) \in Int /\ -((-f) \div 100) \in Int
    OBVIOUS
  <2> QED BY <2>1, <2>2, <2>3, <2>4, <2>5, <2>6
<1> QED BY <1>3, <1>4

\* s lists every channel of S once, bucket by bucket.
Lists(s, S) ==
    /\ s \in Seq(S) /\ ToSet(s) = S /\ Len(s) = Cardinality(S)
    /\ \A i, j \in DOMAIN s : s[i] = s[j] => i = j
    /\ \A i, j \in DOMAIN s : i < j => Bucket(s[i]) >= Bucket(s[j])

ScoreOrder(q) ==
    {p \in Chosen(q) \X Chosen(q) :
        \/ Effective(p[1]) > Effective(p[2])
        \/ Effective(p[1]) = Effective(p[2]) /\ Above(q, p[1], p[2])}

LEMMA ScoreOrderIsStrict ==
    ASSUME OthersTyped, NEW q
    PROVE  Strict(ScoreOrder(q), Chosen(q))
<1> DEFINE N(c) == IF FromCache(q) THEN Priority[c] ELSE 0
           P(c, d) == Better(Effective(c), N(c), c, Effective(d), N(d), d)
<1>1. \A c \in Chosen(q) : Effective(c) \in Int /\ N(c) \in Int /\ c \in Int
  BY EffectiveIsNumber, ChosenFacts
<1>2. ASSUME NEW c \in Chosen(q), NEW d \in Chosen(q) PROVE <<c, d>> \in ScoreOrder(q) <=> P(c, d)
  <2>1. <<c, d>> \in ScoreOrder(q) <=>
          \/ Effective(c) > Effective(d)
          \/ Effective(c) = Effective(d) /\ Above(q, c, d)
    BY DEF ScoreOrder
  <2>2. Priority[c] \in Int /\ Priority[d] \in Int
    BY EffectiveIsNumber, ChosenFacts
  <2>3. Above(q, c, d) <=> Larger(N(c), c, N(d), d)
    BY <2>2 DEF Above, Larger
  <2> QED BY <2>1, <2>3 DEF Better
<1>3. \A c \in Chosen(q) : ~P(c, c)
  BY <1>1, BetterIsStrict
<1>4. ASSUME NEW c \in Chosen(q), NEW d \in Chosen(q), c # d PROVE P(c, d) \/ P(d, c)
  <2>1. PICK e, p, f, r \in Int : e = Effective(c) /\ p = N(c) /\ f = Effective(d) /\ r = N(d)
    BY <1>1
  <2>2. c \in Int /\ d \in Int
    BY <1>1
  <2>3. Better(e, p, c, f, r, d) \/ Better(f, r, d, e, p, c)
    BY <1>4, <2>2, BetterIsStrict
  <2> QED BY <2>1, <2>3
<1>5. \A c, d, e \in Chosen(q) : P(c, d) /\ P(d, e) => P(c, e)
  BY <1>1, BetterIsStrict
<1> HIDE DEF P
<1> QED BY <1>2, <1>3, <1>4, <1>5 DEF Strict

(* The sorted list. *)
LEMMA ByEffectiveLists ==
    ASSUME OthersTyped, NEW q
    PROVE  Lists(ByEffective(q), Chosen(q))
<1>1. PICK s : s = ByEffective(q)
  OBVIOUS
<1>2. PICK S \in SUBSET Channels : S = Chosen(q) /\ IsFiniteSet(S)
  BY ChosenFacts
<1>3. s = SortedBy(S, ScoreOrder(q)) /\ Strict(ScoreOrder(q), S)
  BY <1>1, <1>2, ScoreOrderIsStrict DEF ByEffective, ScoreOrder
<1>4. /\ s \in Seq(S) /\ ToSet(s) = S /\ Len(s) = Cardinality(S)
      /\ \A i, j \in DOMAIN s : i < j => <<s[i], s[j]>> \in ScoreOrder(q)
      /\ \A i, j \in DOMAIN s : s[i] = s[j] => i = j
  BY <1>2, <1>3, SortedFacts
<1>5. ASSUME NEW i \in DOMAIN s, NEW j \in DOMAIN s, i < j PROVE Bucket(s[i]) >= Bucket(s[j])
  <2>1. PICK c, d \in S : c = s[i] /\ d = s[j]
    BY <1>4 DEF ToSet
  <2>2. <<c, d>> \in ScoreOrder(q)
    BY <1>4, <1>5, <2>1
  <2>3. Effective(c) > Effective(d) \/ Effective(c) = Effective(d)
    BY <2>2 DEF ScoreOrder
  <2>4. Effective(c) >= Effective(d)
    BY <2>1, <2>3, EffectiveIsNumber
  <2> QED BY <2>1, <2>4, BucketsFollow
<1> QED BY <1>1, <1>2, <1>4, <1>5 DEF Lists

(* To rearrange the positions within the buckets keeps a list one. *)
LEMMA Rearranged ==
    ASSUME NEW S, NEW s, Lists(s, S), NEW t, NEW p \in [DOMAIN s -> DOMAIN s],
           t = [i \in DOMAIN s |-> s[p[i]]],
           \A i, j \in DOMAIN s : p[i] = p[j] => i = j,
           \A i \in DOMAIN s : Bucket(s[p[i]]) = Bucket(s[i])
    PROVE  Lists(t, S)
<1> DEFINE D == DOMAIN s
<1>1. s \in Seq(S) /\ ToSet(s) = S /\ Len(s) = Cardinality(S) /\ Len(s) \in Nat /\ D = 1 .. Len(s)
  BY DEF Lists
<1>2. /\ \A i, j \in D : s[i] = s[j] => i = j
      /\ \A i, j \in D : i < j => Bucket(s[i]) >= Bucket(s[j])
  BY DEF Lists
<1>3. IsFiniteSet(D) /\ p \in Injection(D, D)
  <2>1. IsFiniteSet(D)
    BY <1>1, FS_Interval
  <2> QED BY <2>1 DEF Injection, IsInjective
<1>4. p \in Surjection(D, D)
  BY <1>3, FS_Injection
<1>5. DOMAIN t = D /\ \A i \in D : t[i] = s[p[i]] /\ p[i] \in D /\ s[i] \in S
  BY <1>1
<1>6. t \in Seq(S) /\ Len(t) = Len(s)
  <2>1. t \in [1 .. Len(s) -> S]
    BY <1>1, <1>5
  <2> QED BY <1>1, <2>1
<1> HIDE DEF D
<1>7. ToSet(t) = S
  <2>1. ASSUME NEW c \in S PROVE c \in ToSet(t)
    <3>1. PICK j \in D : c = s[j]
      BY <1>1 DEF ToSet, D
    <3>2. PICK i \in D : p[i] = j
      BY <1>4 DEF Surjection
    <3> QED BY <1>5, <3>1, <3>2 DEF ToSet
  <2> QED BY <1>5, <2>1 DEF ToSet
<1>8. \A i, j \in D : t[i] = t[j] => i = j
  BY <1>2, <1>5 DEF D
<1>9. \A i, j \in D : i < j => Bucket(t[i]) >= Bucket(t[j])
  BY <1>2, <1>5 DEF D
<1> QED BY <1>1, <1>5, <1>6, <1>7, <1>8, <1>9 DEF Lists

(* The round robin picks a channel of the bucket. *)
LEMMA LeaderIsMember ==
    ASSUME RoundsTyped, NEW G \in SUBSET Channels, G # {}
    PROVE  Leader(G) \in G
<1>1. CASE Cardinality(G) > 1
  <2>1. G \in Groups
    BY <1>1 DEF Groups
  <2>2. PICK cw \in [G -> Int] : cw = rr[G]
    BY <2>1 DEF RoundsTyped
  <2>3. Picked(cw, Weights, ById(G)) \in G
    BY <2>1, PickFacts
  <2> QED BY <1>1, <2>2, <2>3 DEF Leader
<1>2. CASE ~(Cardinality(G) > 1)
  BY <1>2 DEF Leader
<1> QED BY <1>1, <1>2

\* The bucket of position i of s, its first position, and its leader's.
Whole(s, i) == Group(ToSet(s), Bucket(s[i]))
HeadOf(s, i) ==
    CHOOSE j \in DOMAIN s : s[j] \in Whole(s, i) /\ \A k \in DOMAIN s : s[k] \in Whole(s, i) => j <= k
Lead(s, i) == Position(s, Leader(Whole(s, i)))

\* The position whose channel Balanced puts at position i.
Moved(s, i) ==
    IF i = HeadOf(s, i) THEN Lead(s, i)
    ELSE IF i > Lead(s, i) THEN i
    ELSE IF ~config.health THEN i - 1
    ELSE IF i = Lead(s, i) THEN HeadOf(s, i) ELSE i

LEMMA BucketParts ==
    ASSUME OthersTyped, RoundsTyped, NEW S \in SUBSET Channels, NEW s, Lists(s, S), NEW i \in DOMAIN s
    PROVE  /\ HeadOf(s, i) \in DOMAIN s /\ Lead(s, i) \in DOMAIN s
           /\ s[Lead(s, i)] = Leader(Whole(s, i))
           /\ Bucket(s[HeadOf(s, i)]) = Bucket(s[i]) /\ Bucket(s[Lead(s, i)]) = Bucket(s[i])
           /\ HeadOf(s, i) <= i /\ HeadOf(s, i) <= Lead(s, i)
<1>1. /\ s \in Seq(S) /\ ToSet(s) = S /\ Len(s) \in Nat /\ DOMAIN s = 1 .. Len(s)
      /\ \A k \in DOMAIN s : s[k] \in S /\ k \in Nat
  BY DEF Lists
<1>2. PICK G : G = Whole(s, i)
  OBVIOUS
<1>3. G \in SUBSET Channels /\ G \subseteq S /\ s[i] \in G /\ \A c \in S : c \in G <=> Bucket(c) = Bucket(s[i])
  BY <1>1, <1>2 DEF Whole, Group
<1>4. PICK c \in G : c = Leader(G)
  BY <1>3, LeaderIsMember
<1>5. PICK p : p = Position(s, c)
  OBVIOUS
<1>6. p \in DOMAIN s /\ s[p] = c
  <2>1. \E k \in DOMAIN s : s[k] = c
    BY <1>1, <1>3 DEF ToSet
  <2> QED BY <1>5, <2>1 DEF Position
<1>7. PICK f : f = HeadOf(s, i)
  OBVIOUS
<1>8. f \in DOMAIN s /\ s[f] \in G /\ \A k \in DOMAIN s : s[k] \in G => f <= k
  <2> DEFINE K == {k \in DOMAIN s : s[k] \in G}
  <2>1. K \subseteq Nat /\ K # {}
    BY <1>1, <1>3
  <2>2. PICK j \in K : \A k \in K : j <= k
    BY <2>1, LeastNumber
  <2>3. \E m \in DOMAIN s : s[m] \in G /\ \A k \in DOMAIN s : s[k] \in G => m <= k
    BY <2>2
  <2> QED BY <1>2, <1>7, <2>3 DEF HeadOf
<1>9. Lead(s, i) = p
  BY <1>2, <1>4, <1>5 DEF Lead
<1> QED BY <1>1, <1>2, <1>3, <1>4, <1>6, <1>7, <1>8, <1>9

LEMMA MovedWithinBucket ==
    ASSUME OthersTyped, RoundsTyped, NEW S \in SUBSET Channels, NEW s, Lists(s, S), NEW i \in DOMAIN s
    PROVE  /\ Moved(s, i) \in DOMAIN s /\ Bucket(s[Moved(s, i)]) = Bucket(s[i])
           /\ Balanced(s)[i] = s[Moved(s, i)]
<1>1. /\ s \in Seq(S) /\ Len(s) \in Nat /\ DOMAIN s = 1 .. Len(s)
      /\ \A k \in DOMAIN s : s[k] \in S /\ k \in Nat /\ s[k] \in Channels
      /\ \A j, k \in DOMAIN s : s[j] = s[k] => j = k
      /\ \A j, k \in DOMAIN s : j < k => Bucket(s[j]) >= Bucket(s[k])
  BY DEF Lists
<1>2. PICK f, p \in DOMAIN s : f = HeadOf(s, i) /\ p = Lead(s, i)
  BY BucketParts
<1>3. /\ s[p] = Leader(Whole(s, i)) /\ Bucket(s[f]) = Bucket(s[i]) /\ Bucket(s[p]) = Bucket(s[i])
      /\ f <= i /\ f <= p
  BY <1>2, BucketParts
<1>4. Moved(s, i) = IF i = f THEN p ELSE IF i > p THEN i ELSE IF ~config.health THEN i - 1
                    ELSE IF i = p THEN f ELSE i
  BY <1>2 DEF Moved
<1>5. \A k \in DOMAIN s : Bucket(s[k]) \in Int
  BY <1>1, BucketIsNumber
<1>6. ASSUME i # f PROVE i - 1 \in DOMAIN s /\ Bucket(s[i - 1]) = Bucket(s[i])
  <2>1. i - 1 \in DOMAIN s /\ f <= i - 1 /\ i - 1 < i
    BY <1>1, <1>3, <1>6
  <2>2. PICK k \in DOMAIN s : k = i - 1
    BY <2>1
  <2>3. Bucket(s[f]) >= Bucket(s[k])
    BY <1>1, <1>5, <2>1, <2>2
  <2>4. Bucket(s[k]) >= Bucket(s[i])
    BY <1>1, <2>1, <2>2
  <2> QED BY <1>3, <1>5, <2>1, <2>2, <2>3, <2>4
<1>7. Balanced(s)[i] =
        IF i = f THEN Leader(Whole(s, i))
        ELSE IF i > p THEN s[i]
        ELSE IF ~config.health THEN s[i - 1]
        ELSE IF s[i] = Leader(Whole(s, i)) THEN s[f] ELSE s[i]
  BY <1>2 DEF Balanced, HeadOf, Lead, Whole
<1>8. s[i] = Leader(Whole(s, i)) <=> i = p
  BY <1>1, <1>3
<1>9. Balanced(s)[i] = s[Moved(s, i)]
  BY <1>3, <1>4, <1>7, <1>8
<1> QED BY <1>2, <1>3, <1>4, <1>6, <1>9

LEMMA MovedApart ==
    ASSUME OthersTyped, RoundsTyped, NEW S \in SUBSET Channels, NEW s, Lists(s, S),
           NEW i \in DOMAIN s, NEW j \in DOMAIN s, Moved(s, i) = Moved(s, j)
    PROVE  i = j
<1>1. DOMAIN s = 1 .. Len(s) /\ i \in Int /\ j \in Int
  BY DEF Lists
<1>2. Bucket(s[i]) = Bucket(s[j])
  BY MovedWithinBucket
<1>3. Whole(s, i) = Whole(s, j)
  BY <1>2 DEF Whole
<1>4. HeadOf(s, i) = HeadOf(s, j) /\ Lead(s, i) = Lead(s, j)
  BY <1>3 DEF HeadOf, Lead
<1>5. PICK f, p \in DOMAIN s : f = HeadOf(s, i) /\ p = Lead(s, i)
  BY BucketParts
<1>6. f <= i /\ f <= j /\ f <= p /\ f \in Int /\ p \in Int
  BY <1>1, <1>4, <1>5, BucketParts
<1>7. /\ Moved(s, i) = IF i = f THEN p ELSE IF i > p THEN i ELSE IF ~config.health THEN i - 1
                       ELSE IF i = p THEN f ELSE i
      /\ Moved(s, j) = IF j = f THEN p ELSE IF j > p THEN j ELSE IF ~config.health THEN j - 1
                       ELSE IF j = p THEN f ELSE j
  BY <1>4, <1>5 DEF Moved
<1>8. (IF i = f THEN p ELSE IF i > p THEN i ELSE IF ~config.health THEN i - 1 ELSE IF i = p THEN f ELSE i)
      = (IF j = f THEN p ELSE IF j > p THEN j ELSE IF ~config.health THEN j - 1 ELSE IF j = p THEN f ELSE j)
  BY <1>7
<1>9. CASE config.health
  BY <1>1, <1>6, <1>8, <1>9
<1>10. CASE ~config.health
  BY <1>1, <1>6, <1>8, <1>10
<1> QED BY <1>9, <1>10

(* The round robin moves its picks within their buckets and loses nobody.      *)
LEMMA BalancedLists ==
    ASSUME OthersTyped, RoundsTyped, NEW S \in SUBSET Channels, NEW s, Lists(s, S)
    PROVE  Lists(Balanced(s), S)
<1> DEFINE p == [i \in DOMAIN s |-> Moved(s, i)]
<1>1. p \in [DOMAIN s -> DOMAIN s]
  BY MovedWithinBucket
<1>2. Balanced(s) = [i \in DOMAIN s |-> s[p[i]]]
  <2>1. PICK f : f = Balanced(s)
    OBVIOUS
  <2>2. f = [i \in DOMAIN s |-> f[i]]
    BY <2>1 DEF Balanced
  <2>3. \A i \in DOMAIN s : f[i] = s[p[i]]
    BY <2>1, MovedWithinBucket
  <2> QED BY <2>1, <2>2, <2>3
<1>3. \A i, j \in DOMAIN s : p[i] = p[j] => i = j
  BY MovedApart
<1>4. \A i \in DOMAIN s : Bucket(s[p[i]]) = Bucket(s[i])
  BY MovedWithinBucket
<1> HIDE DEF p
<1> QED BY <1>1, <1>2, <1>3, <1>4, Rearranged

(* So does the affinity of the model. *)
LEMMA WithAffinityLists ==
    ASSUME OthersTyped, NEW S \in SUBSET Channels, NEW s, Lists(s, S), NEW q
    PROVE  Lists(WithAffinity(s, q), S)
<1> DEFINE a == IF q \in Models THEN affinity[q] ELSE NoAffinity
           swaps == Len(s) > 1 /\ a.left > 0 /\ a.id \in Group(ToSet(s), Bucket(s[1]))
<1>1. CASE ~swaps
  BY <1>1 DEF WithAffinity
<1>2. CASE swaps
  <2>1. DOMAIN s = 1 .. Len(s) /\ Len(s) \in Nat /\ s \in Seq(S)
    BY DEF Lists
  <2>2. PICK k : k = Position(s, a.id)
    OBVIOUS
  <2>3. k \in DOMAIN s /\ s[k] = a.id /\ Bucket(s[k]) = Bucket(s[1])
    <3>1. \E i \in DOMAIN s : s[i] = a.id
      BY <1>2 DEF Group, ToSet
    <3>2. k \in DOMAIN s /\ s[k] = a.id
      BY <2>2, <3>1 DEF Position
    <3> QED BY <1>2, <3>2 DEF Group
  <2>4. 1 \in DOMAIN s
    BY <1>2, <2>1
  <2>5. WithAffinity(s, q) = [s EXCEPT ![1] = s[k], ![k] = s[1]]
    BY <1>2, <2>2 DEF WithAffinity, Swapped
  <2> DEFINE p == [i \in DOMAIN s |-> IF i = k THEN 1 ELSE IF i = 1 THEN k ELSE i]
  <2> HIDE DEF a, swaps
  <2>6. p \in [DOMAIN s -> DOMAIN s]
    BY <2>3, <2>4
  <2>7. [s EXCEPT ![1] = s[k], ![k] = s[1]] = [i \in DOMAIN s |-> s[p[i]]]
    BY <2>1, <2>3, <2>4
  <2>8. \A i, j \in DOMAIN s : p[i] = p[j] => i = j
    BY <2>3, <2>4
  <2>9. \A i \in DOMAIN s : Bucket(s[p[i]]) = Bucket(s[i])
    BY <2>3, <2>4
  <2> HIDE DEF p
  <2> QED BY <2>5, <2>6, <2>7, <2>8, <2>9, Rearranged
<1> QED BY <1>1, <1>2

-----------------------------------------------------------------------------
(* What a request is given *)

LEMMA CandidatesListChosen ==
    ASSUME OthersTyped, RoundsTyped, NEW q, Chosen(q) # {}
    PROVE  Lists(Candidates(q), Chosen(q))
<1>1. PICK S \in SUBSET Channels : S = Chosen(q)
  BY ChosenFacts
<1>2. Lists(Balanced(ByEffective(q)), S)
  BY <1>1, ByEffectiveLists, BalancedLists
<1>3. Lists(WithAffinity(Balanced(ByEffective(q)), q), S)
  BY <1>2, WithAffinityLists
<1> QED BY <1>1, <1>3 DEF Candidates

\* The channels a fallback of q is chosen from.
Waiting(q) == WithinLimit(IF q = Typed THEN TypedOf ELSE WiderOf(q))

LEMMA WaitingFacts ==
    ASSUME OthersTyped, NEW q
    PROVE  Waiting(q) \in SUBSET Channels /\ Waiting(q) \cap over = {}
<1>1. TypedOf \subseteq Channels /\ WiderOf(q) \subseteq Channels
  BY DEF OthersTyped, List, Fresh, WiderOf, TypedOf, CachedOfType
<1> QED BY <1>1 DEF Waiting, WithinLimit

LEMMA CandidatesFallBack ==
    ASSUME RowsTyped, OthersTyped, NEW q, Chosen(q) = {}
    PROVE  \/ Candidates(q) = <<>>
           \/ /\ config.fallback
              /\ \E c \in Waiting(q) : Candidates(q) = <<c>> /\ \A d \in Waiting(q) : ReadyIn(c) <= ReadyIn(d)
<1>1. PICK S \in SUBSET Channels : S = Waiting(q)
  BY WaitingFacts
<1>2. Candidates(q) = Fallback(S)
  BY <1>1 DEF Candidates, Waiting
<1> QED BY <1>1, <1>2, FallbackFacts

LEMMA CandidatesAreSound == RowsTyped /\ RoundsTyped /\ OthersTyped => CandidatesSound
<1> SUFFICES ASSUME RowsTyped, RoundsTyped, OthersTyped, NEW q \in Routes, NEW s, s = Candidates(q)
             PROVE  /\ Cardinality(ToSet(s)) = Len(s) /\ ToSet(s) \cap over = {}
                    /\ (\E c \in ToSet(s) : ~Usable(c)) => Len(s) = 1 /\ config.fallback
                    /\ \A i, j \in DOMAIN s : i < j => Bucket(s[i]) >= Bucket(s[j])
                    /\ Chosen(q) # {} => ToSet(s) = Chosen(q)
  BY DEF CandidatesSound
<1>1. CASE Chosen(q) # {}
  <2>1. Lists(s, Chosen(q))
    BY <1>1, CandidatesListChosen
  <2>2. Chosen(q) \cap over = {} /\ \A c \in Chosen(q) : Usable(c)
    BY ChosenFacts
  <2> QED BY <2>1, <2>2 DEF Lists
<1>2. CASE Chosen(q) = {}
  <2>1. CASE s = <<>>
    <3>1. ToSet(s) = {} /\ Len(s) = 0 /\ DOMAIN s = {}
      BY <2>1 DEF ToSet
    <3> QED BY <1>2, <3>1, FS_EmptySet
  <2>2. ASSUME config.fallback, NEW c \in Waiting(q), s = <<c>>
        PROVE  /\ Cardinality(ToSet(s)) = Len(s) /\ ToSet(s) \cap over = {} /\ Len(s) = 1
               /\ \A i, j \in DOMAIN s : ~(i < j)
    <3>1. DOMAIN s = {1} /\ s[1] = c /\ Len(s) = 1
      BY <2>2
    <3>2. ToSet(s) = {c}
      BY <3>1 DEF ToSet
    <3> QED BY <3>1, <3>2, FS_Singleton, WaitingFacts
  <2> QED BY <1>2, <2>1, <2>2, CandidatesFallBack
<1> QED BY <1>1, <1>2

LEMMA UsableComesFirst == RowsTyped /\ RoundsTyped /\ OthersTyped => UsableIsFirst
<1> SUFFICES ASSUME RowsTyped, RoundsTyped, OthersTyped, NEW q \in Routes \cap Models,
                    NEW c \in (enabled \cap Matching[q]) \ over, Usable(c)
             PROVE  Candidates(q) # <<>> /\ Usable(Candidates(q)[1])
  BY DEF UsableIsFirst
<1>1. q # AnyModel /\ q # Typed
  BY ChannelSelectionAssumption
<1>2. c \in NotCooled(WithinLimit(WiderOf(q)))
  BY <1>1 DEF NotCooled, WithinLimit, WiderOf
<1>3. Chosen(q) # {}
  BY <1>1, <1>2 DEF Chosen
<1>4. PICK s : s = Candidates(q)
  OBVIOUS
<1>5. s \in Seq(Chosen(q)) /\ ToSet(s) = Chosen(q)
  BY <1>3, <1>4, CandidatesListChosen DEF Lists
<1>6. s # <<>> /\ s[1] \in Chosen(q)
  BY <1>3, <1>5 DEF ToSet
<1> QED BY <1>4, <1>6, ChosenFacts

LEMMA FallbackRecoversFirst == RowsTyped /\ RoundsTyped /\ OthersTyped => FallbackIsNext
<1> SUFFICES ASSUME RowsTyped, RoundsTyped, OthersTyped, NEW q \in Routes \cap Models, NEW s, s = Candidates(q),
                    Len(s) = 1, ~Usable(s[1]),
                    NEW d \in (enabled \cap Matching[q]) \ over,
                    NEW n \in 0 .. Max(CoolFor \cup KeyCoolFor), UsableAfter(d, n)
             PROVE  UsableAfter(s[1], n)
  BY DEF FallbackIsNext
<1>1. q # AnyModel /\ q # Typed
  BY ChannelSelectionAssumption
<1>2. Chosen(q) = {}
  <2> SUFFICES ASSUME Chosen(q) # {} PROVE FALSE
    OBVIOUS
  <2>1. s \in Seq(Chosen(q))
    BY CandidatesListChosen DEF Lists
  <2>2. s[1] \in Chosen(q)
    BY <2>1
  <2> QED BY <2>2, ChosenFacts
<1>3. PICK c \in Waiting(q) : s = <<c>> /\ \A x \in Waiting(q) : ReadyIn(c) <= ReadyIn(x)
  <2>1. s # <<>>
    <3>1. Len(<<>>) = 0 /\ Len(s) = 1
      OBVIOUS
    <3>2. s = <<>> => Len(s) = Len(<<>>)
      OBVIOUS
    <3> QED BY <3>1, <3>2
  <2> QED BY <1>2, <2>1, CandidatesFallBack
<1>4. d \in Waiting(q)
  BY <1>1 DEF Waiting, WithinLimit, WiderOf
<1>5. c \in Channels /\ d \in Channels
  BY <1>4, WaitingFacts
<1>6. n \in Nat
  OBVIOUS
<1>7. ReadyIn(d) <= n /\ ReadyIn(c) <= ReadyIn(d) /\ ReadyIn(c) \in Nat /\ ReadyIn(d) \in Nat
  BY <1>3, <1>4, <1>5, <1>6, ReadyMeans
<1>8. ReadyIn(c) <= n
  BY <1>6, <1>7
<1>9. UsableAfter(c, n)
  BY <1>5, <1>6, <1>8, ReadyMeans
<1> QED BY <1>3, <1>9

LEMMA SelectionPromises == SelectionInv => CandidatesSound /\ UsableIsFirst /\ FallbackIsNext
BY TypesInParts, CandidatesAreSound, UsableComesFirst, FallbackRecoversFirst DEF SelectionInv

(* The candidates of a request are distinct and within their limits, ordered   *)
(* by bucket, none is lost by the sort, the round robin's move and the         *)
(* affinity's swap, and a cooling one is there only alone.                     *)
THEOREM RequestsGetSoundCandidates == SelectionSpec => []CandidatesSound
BY SelectionInvariant, SelectionPromises, PTL

(* No request is refused or sent to a cooling channel while a usable one       *)
(* serves its model, however old the cached list is.                           *)
THEOREM UsableChannelsComeFirst == SelectionSpec => []UsableIsFirst
BY SelectionInvariant, SelectionPromises, PTL

(* When everything cools, the request goes to a channel that recovers first,   *)
(* of its own cooldown and of those of its keys.                               *)
THEOREM FallbackRecovers == SelectionSpec => []FallbackIsNext
BY SelectionInvariant, SelectionPromises, PTL

-----------------------------------------------------------------------------
(* Fairness of the channels of one priority *)

(* The arithmetic of a pick, for k candidates: who wins it, and who loses it.   *)
LEMMA WinnerPays ==
    ASSUME NEW k \in Nat, NEW r \in Int, NEW total \in Nat, NEW most \in Nat,
           k >= 1, total <= k * r, total <= most
    PROVE  k * 0 <= k * (r - total) + (k - 1) * most
<1>1. k * (r - total) = k * r - k * total /\ k * r \in Int /\ k * total \in Int
  OBVIOUS
<1>2. (k - 1) * total <= (k - 1) * most
  <2>1. PICK j \in Nat, d \in Nat : j = k - 1 /\ d = most - total
    OBVIOUS
  <2>2. j * (total + d) = j * total + j * d /\ j * d \in Nat /\ j * total \in Int
    OBVIOUS
  <2>3. most = total + d
    BY <2>1
  <2> QED BY <2>1, <2>2, <2>3
<1>3. (k - 1) * total = k * total - total
  OBVIOUS
<1>4. (k - 1) * most \in Int /\ k * 0 = 0
  OBVIOUS
<1> QED BY <1>1, <1>2, <1>3, <1>4

LEMMA LoserGains ==
    ASSUME NEW k \in Nat, NEW lost \in Nat, NEW c \in Int, NEW x \in Nat, NEW m \in Int,
           x >= 1, k * lost <= k * c + m
    PROVE  k * (lost + 1) <= k * (c + x) + m
<1>1. k * (lost + 1) = k * lost + k /\ k * (c + x) = k * c + k * x /\ k * lost \in Int /\ k * c \in Int
  OBVIOUS
<1>2. k * x = k + k * (x - 1) /\ k * (x - 1) \in Nat
  <2>1. PICK y \in Nat : y = x - 1
    OBVIOUS
  <2>2. k * y \in Nat /\ k * (y + 1) = k + k * y /\ x = y + 1
    BY <2>1
  <2> QED BY <2>1, <2>2
<1> QED BY <1>1, <1>2

(* In a group with most keys, all current weights together are zero, and each  *)
(* has gained what it has lost, but for a debt of its wins.                     *)
IsFair(cw, lost, G, most, n) ==
    /\ cw \in [G -> Int] /\ lost \in [G -> Nat] /\ SumOver(cw, G, n) = 0
    /\ \A c \in G : Cardinality(G) * lost[c] <= Cardinality(G) * cw[c] + (Cardinality(G) - 1) * most

LEMMA FairAtStart ==
    ASSUME NEW G, IsFiniteSet(G), Cardinality(G) > 1, NEW most \in Nat, NEW n \in Nat, G \subseteq 0..(n - 1)
    PROVE  IsFair([c \in G |-> 0], [c \in G |-> 0], G, most, n)
<1> DEFINE zeros == [c \in G |-> 0]
<1>1. zeros \in [G -> Int] /\ zeros \in [G -> Nat] /\ \A c \in G : zeros[c] = 0
  OBVIOUS
<1> HIDE DEF zeros
<1>2. SumOver(zeros, G, n) = 0
  <2>1. SameOnPart(zeros, G, zeros, {})
    BY <1>1 DEF SameOnPart
  <2> QED BY <2>1, SumRestrict, SumEmpty
<1>3. PICK k \in Nat : k = Cardinality(G)
  BY FS_CardinalityType
<1>4. PICK m \in Nat : m = (k - 1) * most
  <2>1. k - 1 \in Nat
    BY <1>3
  <2> QED BY <2>1
<1>5. \A c \in G : k * zeros[c] <= k * zeros[c] + (k - 1) * most
  <2>1. k * 0 = 0 /\ 0 <= 0 + m
    OBVIOUS
  <2>2. \A c \in G : k * zeros[c] = 0
    BY <1>1, <2>1
  <2> QED BY <1>4, <2>1, <2>2
<1> QED BY <1>1, <1>2, <1>3, <1>5 DEF IsFair, zeros

LEMMA FairPick ==
    ASSUME NEW G, NEW n \in Nat, G \subseteq 0..(n - 1), NEW most \in Nat,
           NEW cw, NEW lost, IsFair(cw, lost, G, most, n),
           NEW w, NEW v, NEW total, NEW paid, IsPick(cw, w, G, G, v, total, paid),
           total = SumOver(w, G, n), total <= most, \A c \in G : w[c] >= 1,
           NEW after, after = [c \in G |-> IF c = v THEN 0 ELSE lost[c] + 1]
    PROVE  IsFair(paid, after, G, most, n)
<1>0. Within(G, G, n)
  BY DEF Within
<1>1. PICK k : k = Cardinality(G)
  OBVIOUS
<1>2. k \in Nat /\ IsFiniteSet(G)
  BY <1>0, <1>1, WinnerHasItsShare
<1>3. v \in G /\ k >= 1
  <2>1. v \in G
    BY DEF IsPick
  <2>2. k # 0
    BY <1>1, <1>2, <2>1, FS_EmptySet
  <2> QED BY <1>2, <2>1, <2>2
<1>4. paid \in [G -> Int] /\ after \in [G -> Nat] /\ total \in Nat
  BY DEF IsPick, IsFair
<1>5. SumOver(cw, G, n) = 0
  BY DEF IsFair
<1>6. SumOver(paid, G, n) = 0
  <2>1. G \cap G = G /\ Within(G, G, n)
    BY <1>0
  <2>3. SumOver(paid, G, n) = SumOver(cw, G, n) + SumOver(w, G \cap G, n) - total
    BY <1>3, <2>1, SumAfterPick
  <2>4. SumOver(paid, G, n) = 0 + total - total
    BY <1>5, <2>1, <2>3
  <2> QED BY <1>4, <2>4
<1>7. PICK r \in Int : r = cw[v] + w[v]
  BY <1>0, WinnerHasItsShare
<1>8. total <= k * r
  <2>1. SumOver(cw, G, n) + SumOver(w, G, n) <= Cardinality(G) * (cw[v] + w[v])
    BY <1>0, WinnerHasItsShare
  <2> QED BY <1>1, <1>4, <1>5, <1>7, <2>1
<1>9. ASSUME NEW c \in G PROVE k * after[c] <= k * paid[c] + (k - 1) * most
  <2>1. paid[c] = IF c = v THEN cw[c] + w[c] - total ELSE cw[c] + w[c]
    BY DEF IsPick
  <2>2. CASE c = v
    <3>1. k * 0 <= k * (r - total) + (k - 1) * most
      BY <1>2, <1>3, <1>4, <1>8, WinnerPays
    <3>2. after[c] = 0 /\ paid[c] = r - total
      <4>1. after[c] = 0 /\ paid[c] = cw[v] + w[v] - total
        BY <2>1, <2>2
      <4>2. cw[v] \in Int /\ w[v] \in Int
        BY <2>2 DEF IsPick
      <4> QED BY <1>4, <1>7, <4>1, <4>2
    <3> QED BY <3>1, <3>2
  <2>3. CASE c # v
    <3>1. PICK x \in Nat : x = w[c] /\ x >= 1
      BY DEF IsPick
    <3>2. PICK l \in Nat : l = lost[c]
      BY DEF IsFair
    <3>3. PICK b \in Int : b = cw[c]
      BY DEF IsFair
    <3>4. PICK m \in Int : m = (k - 1) * most
      BY <1>2
    <3>5. k * l <= k * b + m
      BY <1>1, <3>2, <3>3, <3>4 DEF IsFair
    <3>6. k * (l + 1) <= k * (b + x) + m
      BY <1>2, <3>1, <3>5, LoserGains
    <3> QED BY <2>1, <2>3, <3>1, <3>2, <3>3, <3>4, <3>6
  <2> QED BY <2>2, <2>3
<1> QED BY <1>1, <1>4, <1>6, <1>9 DEF IsFair

(* So nobody has lost more picks in a row than most, times its rivals.          *)
LEMMA FairBounds ==
    ASSUME NEW G, NEW n \in Nat, G \subseteq 0..(n - 1), NEW most \in Nat,
           NEW cw, NEW lost, IsFair(cw, lost, G, most, n), NEW c \in G
    PROVE  lost[c] <= (Cardinality(G) - 1) * most
<1>1. IsFiniteSet(G)
  <2>1. IsFiniteSet(0..(n - 1))
    BY FS_Interval
  <2> QED BY <2>1, FS_Subset
<1>2. PICK k \in Nat : k = Cardinality(G)
  BY <1>1, FS_CardinalityType
<1>3. k >= 1 /\ k - 1 \in Nat
  <2>1. k # 0
    BY <1>1, <1>2, FS_EmptySet
  <2> QED BY <2>1
<1>4. PICK m \in Nat : m = (k - 1) * most
  BY <1>3
<1> DEFINE scaled == [x \in Nat |-> k * cw[x]]
           least == [x \in Nat |-> -m]
           B == G \ {c}
<1>5. /\ \A x \in G : x \in Nat /\ cw[x] \in Int /\ scaled[x] = k * cw[x] /\ scaled[x] \in Int
      /\ \A x \in G : least[x] = -m /\ least[x] \in Int
  BY DEF IsFair
<1>6. \A x \in G : lost[x] \in Nat /\ k * lost[x] <= scaled[x] + m
  BY <1>2, <1>4, <1>5 DEF IsFair
<1>7. \A x \in G : scaled[x] >= -m
  <2>1. \A l \in Nat : k * l \in Nat
    OBVIOUS
  <2> QED BY <1>5, <1>6, <2>1
<1> HIDE DEF scaled, least
<1>8. Summable(cw, G, n) /\ Summable(scaled, G, n) /\ Summable(scaled, B, n) /\ Summable(least, B, n)
  BY <1>5 DEF Summable
<1>9. SumOver(scaled, G, n) = 0
  <2>1. IsTimes(scaled, k, cw, G)
    BY <1>5 DEF IsTimes
  <2>2. SumOver(scaled, G, n) = k * SumOver(cw, G, n)
    BY <1>8, <2>1, SumTimes
  <2>3. SumOver(cw, G, n) = 0
    BY DEF IsFair
  <2> QED BY <2>2, <2>3
<1>10. SumOver(scaled, G, n) = SumOver(scaled, B, n) + scaled[c] /\ SumOver(scaled, B, n) \in Int
  BY <1>8, SumWithout
<1>11. SumOver(least, B, n) <= SumOver(scaled, B, n)
  <2>1. IsLeq(least, scaled, B)
    BY <1>5, <1>7 DEF IsLeq
  <2> QED BY <1>8, <2>1, SumLeq
<1>12. SumOver(least, B, n) = (-m) * (k - 1)
  <2>1. IsConstant(least, -m, B) /\ B \subseteq 0..(n - 1)
    BY <1>5 DEF IsConstant
  <2>2. Cardinality(B) = k - 1
    BY <1>1, <1>2, FS_RemoveElement
  <2>3. SumOver(least, B, n) = (-m) * Cardinality(B)
    BY <2>1, SumOfConstant
  <2> QED BY <2>2, <2>3
<1>13. scaled[c] <= m * (k - 1)
  <2>1. (-m) * (k - 1) = -(m * (k - 1)) /\ m * (k - 1) \in Int
    BY <1>3
  <2> QED BY <1>5, <1>9, <1>10, <1>11, <1>12, <2>1
<1>14. k * lost[c] <= k * m
  <2>1. m * (k - 1) + m = k * m
    OBVIOUS
  <2>2. k * lost[c] \in Int /\ m * (k - 1) \in Int
    BY <1>6
  <2> QED BY <1>5, <1>6, <1>13, <2>1, <2>2
<1>15. lost[c] <= m
  <2>1. PICK l \in Nat : l = lost[c]
    BY <1>6
  <2> SUFFICES ASSUME l > m PROVE FALSE
    BY <2>1
  <2>2. PICK d \in Nat : l = m + d /\ d >= 1
    <3>1. l - m \in Nat /\ l = m + (l - m) /\ l - m >= 1
      BY <2>1
    <3> QED BY <3>1
  <2>3. k * (m + d) = k * m + k * d /\ k * m \in Int /\ k * d \in Int
    OBVIOUS
  <2>4. k * d >= 1
    <3>1. PICK i \in Nat, j \in Nat : k = i + 1 /\ d = j + 1
      <4>1. k - 1 \in Nat /\ d - 1 \in Nat /\ k = (k - 1) + 1 /\ d = (d - 1) + 1
        BY <1>3, <2>2
      <4> QED BY <4>1
    <3>2. (i + 1) * (j + 1) = i * j + i + j + 1 /\ i * j \in Nat
      OBVIOUS
    <3> QED BY <3>1, <3>2
  <2> QED BY <1>14, <2>1, <2>2, <2>3, <2>4
<1> QED BY <1>2, <1>4, <1>15

(* A number above those of all channels. *)
AboveChannels == CHOOSE n \in Nat : Channels \subseteq 0..(n - 1)

LEMMA ChannelsBelow == AboveChannels \in Nat /\ Channels \subseteq 0..(AboveChannels - 1)
<1>1. IsFiniteSet(Channels) /\ Channels \subseteq Nat
  BY ChannelSelectionAssumption
<1>2. \E n \in Nat : Channels \subseteq 0..(n - 1)
  <2>1. CASE Channels = {}
    BY <2>1
  <2>2. CASE Channels # {}
    <3> DEFINE R == {p \in Channels \X Channels : p[1] > p[2]}
    <3>1. Strict(R, Channels)
      BY <1>1 DEF Strict
    <3> HIDE DEF R
    <3>2. PICK c \in Channels : \A d \in Channels \ {c} : <<c, d>> \in R
      BY <1>1, <2>2, <3>1, FirstMember
    <3>3. \A d \in Channels : d \in Nat /\ d <= c /\ c \in Nat
      <4>1. \A d \in Channels \ {c} : c > d
        BY <3>2 DEF R
      <4>2. c \in Nat
        BY <1>1
      <4> QED BY <1>1, <4>1, <4>2
    <3>4. c + 1 \in Nat /\ Channels \subseteq 0..((c + 1) - 1)
      BY <3>3
    <3> QED BY <3>4
  <2> QED BY <2>1, <2>2
<1> QED BY <1>2 DEF AboveChannels

(* The weights of the channels of a group never add up to more than its keys,   *)
(* whichever of them cool.                                                      *)
LEMMA WeightsAndKeys ==
    ASSUME NEW G \in Groups
    PROVE  /\ KeysIn(G) \in Nat /\ SumOver(Weights, G, AboveChannels) <= KeysIn(G)
           /\ IsFiniteSet(G) /\ Cardinality(G) > 1 /\ G \subseteq 0..(AboveChannels - 1) /\ G # {} /\ G \subseteq Nat
           /\ \A c \in G : Weights[c] \in Nat /\ Weights[c] >= 1
<1>0. G \subseteq Channels /\ IsFiniteSet(G) /\ Cardinality(G) > 1 /\ G \subseteq Nat /\ G # {}
  <2>1. G \subseteq Channels /\ IsFiniteSet(G) /\ Cardinality(G) > 1 /\ G \subseteq Nat
    BY GroupsOfChannels DEF Groups
  <2> QED BY <2>1, FS_EmptySet
<1>1. PICK n \in Nat : n = AboveChannels /\ G \subseteq 0..(n - 1)
  BY <1>0, ChannelsBelow
<1>2. PICK keys : keys = [c \in G |-> Max({1, KeyCount[c]})]
  OBVIOUS
<1>3. ASSUME NEW c \in G
      PROVE  /\ keys[c] \in Nat /\ Weights[c] \in Nat /\ Weights[c] <= keys[c] /\ Weights[c] >= 1
  <2> DEFINE free == {k \in KeysOf(c) : coolKey[c][k] = 0}
  <2>1. PICK count \in Nat : count = KeyCount[c]
    BY <1>0, ChannelSelectionAssumption
  <2>2. IsFiniteSet(1 .. count) /\ Cardinality(1 .. count) = count
    BY FS_Interval
  <2>3. free \in SUBSET (1 .. count)
    BY <2>1 DEF KeysOf
  <2>4. Weights[c] = Max({1, Cardinality(free)})
    BY <1>0 DEF Weights, Weight
  <2> HIDE DEF free
  <2>5. PICK m \in Nat : m = Cardinality(free) /\ m <= count
    <3>1. IsFiniteSet(free) /\ Cardinality(free) <= Cardinality(1 .. count)
      BY <2>2, <2>3, FS_Subset
    <3>2. Cardinality(free) \in Nat
      BY <3>1, FS_CardinalityType
    <3> QED BY <2>2, <3>1, <3>2
  <2>6. Max({1, m}) \in {1, m} /\ 1 <= Max({1, m}) /\ m <= Max({1, m})
    BY LargerOfTwo
  <2>7. Max({1, count}) \in {1, count} /\ 1 <= Max({1, count}) /\ count <= Max({1, count})
    BY LargerOfTwo
  <2> QED BY <1>2, <2>1, <2>4, <2>5, <2>6, <2>7
<1>4. ToSet(ById(G)) = G
  BY <1>0, ListById
<1>5. KeysIn(G) = SumOver(keys, G, n) /\ KeysIn(G) \in Nat
  <2>1. KeysIn(G) = TotalWeight(keys, ById(G))
    BY <1>2 DEF KeysIn
  <2> QED BY <1>1, <1>3, <1>4, <2>1, TotalIsSum
<1>6. IsLeq(Weights, keys, G)
  BY <1>3 DEF IsLeq
<1>7. Summable(Weights, G, n) /\ Summable(keys, G, n)
  BY <1>1, <1>3 DEF Summable
<1>8. SumOver(Weights, G, n) <= SumOver(keys, G, n)
  BY <1>6, <1>7, SumLeq
<1> QED BY <1>0, <1>1, <1>3, <1>5, <1>8

FairGroups ==
    /\ DOMAIN rr = Groups /\ DOMAIN wait = Groups
    /\ \A G \in Groups : IsFair(rr[G], wait[G], G, KeysIn(G), AboveChannels)

LEMMA NewRoundsAreFair == \A G \in Groups : IsFair(NoRounds[G], NoRounds[G], G, KeysIn(G), AboveChannels)
<1> SUFFICES ASSUME NEW G \in Groups PROVE IsFair(NoRounds[G], NoRounds[G], G, KeysIn(G), AboveChannels)
  OBVIOUS
<1>1. NoRounds[G] = [c \in G |-> 0]
  BY DEF NoRounds
<1>2. PICK n \in Nat : n = AboveChannels
  BY ChannelsBelow
<1>3. PICK k \in Nat : k = KeysIn(G)
  BY WeightsAndKeys
<1>4. IsFiniteSet(G) /\ Cardinality(G) > 1 /\ G \subseteq 0..(n - 1)
  BY <1>2, WeightsAndKeys
<1>5. IsFair([c \in G |-> 0], [c \in G |-> 0], G, k, n)
  BY <1>4, FairAtStart
<1> QED BY <1>1, <1>2, <1>3, <1>5

LEMMA SelectsFairly ==
    ASSUME FairGroups, NEW q \in Routes, Selects(q)
    PROVE  FairGroups'
<1> SUFFICES ASSUME NEW G \in Groups PROVE IsFair(rr'[G], wait'[G], G, KeysIn(G), AboveChannels)
  BY DEF FairGroups, Groups, KeysIn, AboveChannels, Selects
<1> DEFINE groups == {H \in Groups : \E b \in {Bucket(c) : c \in H} : H = Group(Chosen(q), b)}
<1>1. PICK cw : cw = rr[G]
  OBVIOUS
<1>2. PICK lost : lost = wait[G]
  OBVIOUS
<1>3. PICK n \in Nat : n = AboveChannels
  BY ChannelsBelow
<1>4. PICK most \in Nat : most = KeysIn(G)
  BY WeightsAndKeys
<1>5. IsFair(cw, lost, G, most, n)
  BY <1>1, <1>2, <1>3, <1>4 DEF FairGroups
<1>6. PICK s : s = ById(G)
  OBVIOUS
<1>7. PICK w : w = Weights
  OBVIOUS
<1>8. \/ rr'[G] = cw /\ wait'[G] = lost
      \/ rr'[G] = Paid(cw, w, s) /\ wait'[G] = Missed(lost, Picked(cw, w, s), s)
  <2>1. rr'[G] = IF G \in groups THEN Paid(rr[G], Weights, ById(G)) ELSE rr[G]
    BY DEF Selects
  <2>2. wait'[G] = IF G \in groups
                   THEN Missed(wait[G], Picked(rr[G], Weights, ById(G)), ById(G)) ELSE wait[G]
    BY DEF Selects
  <2> HIDE DEF groups
  <2> QED BY <1>1, <1>2, <1>6, <1>7, <2>1, <2>2
<1>9. CASE rr'[G] = Paid(cw, w, s) /\ wait'[G] = Missed(lost, Picked(cw, w, s), s)
  <2>1. /\ IsFiniteSet(G) /\ G # {} /\ G \subseteq Nat /\ G \subseteq 0..(n - 1)
        /\ \A c \in G : w[c] \in Nat /\ w[c] >= 1
    BY <1>3, <1>7, WeightsAndKeys
  <2>2. SumOver(w, G, n) <= most
    BY <1>3, <1>4, <1>7, WeightsAndKeys
  <2>3. cw \in [G -> Int] /\ lost \in [G -> Nat]
    BY <1>5 DEF IsFair
  <2>4. ToSet(s) = G /\ s = Ascending(G)
    BY <1>6, <2>1, ListById DEF ById
  <2>5. PICK v, total, paid : v = Picked(cw, w, s) /\ total = TotalWeight(w, s) /\ paid = Paid(cw, w, s)
    OBVIOUS
  <2>6. IsPick(cw, w, G, G, v, total, paid) /\ total = SumOver(w, G, n)
    <3>1. Pickable(G, G, cw, w, n)
      BY <2>1, <2>3 DEF Pickable
    <3> QED BY <2>4, <2>5, <3>1, PickIs
  <2>7. PICK after : after = [c \in G |-> IF c = v THEN 0 ELSE lost[c] + 1]
    OBVIOUS
  <2>8. wait'[G] = after
    BY <1>9, <2>3, <2>4, <2>5, <2>7 DEF Missed
  <2>9. IsFair(paid, after, G, most, n)
    BY <1>5, <2>1, <2>2, <2>6, <2>7, FairPick
  <2> QED BY <1>3, <1>4, <1>9, <2>5, <2>8, <2>9
<1> QED BY <1>3, <1>4, <1>5, <1>8, <1>9

LEMMA FairStep ==
    ASSUME FairGroups, [SelectionNext]_selectionVars
    PROVE  FairGroups'
<1> USE DEF rowVars, cacheVars, rrVars, affinityVars
<1>1. UNCHANGED <<rr, wait>> => FairGroups'
  BY DEF FairGroups, Groups, KeysIn, AboveChannels
<1>2. rr' = NoRounds /\ wait' = NoRounds => FairGroups'
  BY NewRoundsAreFair DEF FairGroups, Groups, KeysIn, AboveChannels, NoRounds
<1>3. ASSUME NEW q \in Routes, Selects(q) PROVE FairGroups'
  BY <1>3, SelectsFairly
<1>4. ListExpires \/ NewDay \/ ClearsAffinity \/ Flushes \/ Tick => UNCHANGED <<rr, wait>>
  BY DEF ListExpires, NewDay, ClearsAffinity, Flushes, Tick
<1>5. RowsChange => UNCHANGED <<rr, wait>>
  BY DEF RowsChange, WritesChannelFailure, WritesSuccess, WritesKeyFailure, OnlyRows
<1>6. \A c, r : HealthUpdates(c, r) \/ SetsAffinity(c, r) => UNCHANGED <<rr, wait>>
  BY DEF HealthUpdates, SetsAffinity
<1>7. \A c : DropsAffinity(c) \/ Spends(c) => UNCHANGED <<rr, wait>>
  BY DEF DropsAffinity, Spends
<1>8. ASSUME NEW c, Toggles(c) PROVE FairGroups'
  BY <1>2, <1>8 DEF Toggles
<1>9. ASSUME NEW G \in Groups, ForgetsRound(G) PROVE FairGroups'
  <2> SUFFICES ASSUME NEW H \in Groups PROVE IsFair(rr'[H], wait'[H], H, KeysIn(H), AboveChannels)
    BY <1>9 DEF FairGroups, Groups, KeysIn, AboveChannels, ForgetsRound
  <2>1. /\ rr' = [rr EXCEPT ![G] = NoRounds[G]] /\ wait' = [wait EXCEPT ![G] = NoRounds[G]]
    BY <1>9 DEF ForgetsRound
  <2>2. \/ rr'[H] = rr[H] /\ wait'[H] = wait[H]
        \/ rr'[H] = NoRounds[H] /\ wait'[H] = NoRounds[H]
    BY <2>1 DEF FairGroups
  <2> QED BY <2>2, NewRoundsAreFair DEF FairGroups
<1>10. CASE Restarts
  BY <1>2, <1>10 DEF Restarts
<1>11. CASE UNCHANGED selectionVars
  BY <1>1, <1>11 DEF selectionVars
<1> QED BY <1>1, <1>3, <1>4, <1>5, <1>6, <1>7, <1>8, <1>9, <1>10, <1>11 DEF SelectionNext

(* No channel of a group goes without a pick for longer than its rivals' times  *)
(* the group's keys, however the cooldowns of the keys change the weights.      *)
THEOREM EveryChannelIsServed == SelectionSpec => []ServedFairly
<1>1. SelectionInit => FairGroups
  BY NewRoundsAreFair DEF SelectionInit, FairGroups, NoRounds
<1>2. FairGroups => ServedFairly
  <2> SUFFICES ASSUME FairGroups, NEW G \in Groups, NEW c \in G
               PROVE  wait[G][c] <= (Cardinality(G) - 1) * KeysIn(G)
    BY DEF ServedFairly
  <2>1. PICK n \in Nat : n = AboveChannels
    BY ChannelsBelow
  <2>2. PICK most \in Nat : most = KeysIn(G)
    BY WeightsAndKeys
  <2>3. PICK cw, lost : cw = rr[G] /\ lost = wait[G]
    OBVIOUS
  <2>4. IsFair(cw, lost, G, most, n) /\ G \subseteq 0..(n - 1)
    BY <2>1, <2>2, <2>3, WeightsAndKeys DEF FairGroups
  <2>5. lost[c] <= (Cardinality(G) - 1) * most
    BY <2>4, FairBounds
  <2> QED BY <2>2, <2>3, <2>5
<1> QED BY <1>1, <1>2, FairStep, PTL DEF SelectionSpec

-----------------------------------------------------------------------------
(* No URL starves *)

(* A bound on twice the current weights that k of n URLs have together, or owe  *)
(* together, if no pick pays more than t.  It is concave: that is what lets the *)
(* winner's debt and the gain of a loser be set against each other.             *)
Debt(k, n, t) == t * (k * (2 * n - k - 1))

LEMMA DebtFacts ==
    ASSUME NEW n \in Nat, NEW t \in Nat
    PROVE  /\ \A k \in Int : Debt(k, n, t) \in Int
           /\ Debt(0, n, t) = 0 /\ Debt(1, n, t) = 2 * ((n - 1) * t)
           /\ \A k \in Nat : 2 * Debt(k + 1, n, t) = Debt(k, n, t) + Debt(k + 2, n, t) + 2 * t
<1>1. \A k \in Int : k * (2 * n - k - 1) \in Int
  OBVIOUS
<1>2. \A k \in Int : Debt(k, n, t) \in Int
  BY <1>1 DEF Debt
<1>3. Debt(0, n, t) = 0
  <2>1. 0 * (2 * n - 0 - 1) = 0 /\ t * 0 = 0
    OBVIOUS
  <2> QED BY <2>1 DEF Debt
<1>4. Debt(1, n, t) = 2 * ((n - 1) * t)
  <2>1. 1 * (2 * n - 1 - 1) = 2 * (n - 1)
    OBVIOUS
  <2>2. t * (2 * (n - 1)) = 2 * ((n - 1) * t)
    OBVIOUS
  <2> QED BY <2>1, <2>2 DEF Debt
<1>5. ASSUME NEW k \in Nat PROVE 2 * Debt(k + 1, n, t) = Debt(k, n, t) + Debt(k + 2, n, t) + 2 * t
  <2>1. PICK a \in Int, b \in Int, c \in Int :
          a = k * (2 * n - k - 1) /\ b = (k + 1) * (2 * n - (k + 1) - 1) /\ c = (k + 2) * (2 * n - (k + 2) - 1)
    OBVIOUS
  <2>2. 2 * b = a + c + 2
    BY <2>1
  <2>3. 2 * (t * b) = t * (2 * b) /\ t * (a + c + 2) = t * a + t * c + 2 * t
    OBVIOUS
  <2> QED BY <2>1, <2>2, <2>3 DEF Debt
<1> QED BY <1>2, <1>3, <1>4, <1>5

LEMMA DebtIsNumber ==
    ASSUME NEW n \in Nat, NEW t \in Nat, NEW k \in Nat
    PROVE  Debt(k, n, t) \in Int
<1>1. k \in Int
  OBVIOUS
<1> QED BY <1>1, DebtFacts

LEMMA DebtGrows ==
    ASSUME NEW n \in Nat, NEW t \in Nat, NEW k \in Nat, NEW j \in Nat, j <= k, k <= n
    PROVE  Debt(j, n, t) <= Debt(k, n, t) /\ 0 <= Debt(k, n, t)
<1>1. ASSUME NEW i \in Nat, i <= k PROVE Debt(i, n, t) <= Debt(k, n, t)
  <2>1. CASE i = k
    <3>1. Debt(k, n, t) \in Int
      BY DebtFacts
    <3> QED BY <2>1, <3>1
  <2>2. CASE i < k
    <3>1. PICK d \in Nat : d = k - i
      BY <2>2
    <3>2. PICK e \in Nat : e = 2 * n - (k + i) - 1
      BY <2>2
    <3>3. PICK a \in Int, b \in Int : a = i * (2 * n - i - 1) /\ b = k * (2 * n - k - 1)
      OBVIOUS
    <3>4. b = a + d * e /\ d * e \in Nat
      BY <3>1, <3>2, <3>3
    <3>5. t * (a + d * e) = t * a + t * (d * e) /\ t * (d * e) \in Nat
      BY <3>4
    <3>6. t * a \in Int
      OBVIOUS
    <3>7. Debt(i, n, t) = t * a /\ Debt(k, n, t) = t * b
      BY <3>3 DEF Debt
    <3> QED BY <3>4, <3>5, <3>6, <3>7
  <2> QED BY <1>1, <2>1, <2>2
<1>2. Debt(0, n, t) = 0
  BY DebtFacts
<1> QED BY <1>1, <1>2

(* What any URLs together have or owe is bounded by how many they are. *)
Together(cw, A) == SumOver(cw, A, URLCount + 1)
HaveLittle(cw, t) == \A A \in SUBSET URLRange : 2 * Together(cw, A) <= Debt(Cardinality(A), URLCount, t)
OweLittle(cw, t) == \A A \in SUBSET URLRange : -Debt(Cardinality(A), URLCount, t) <= 2 * Together(cw, A)

LEMMA SomeURLs ==
    ASSUME NEW A, A \in SUBSET URLRange
    PROVE  /\ IsFiniteSet(A) /\ Cardinality(A) \in Nat /\ Cardinality(A) <= URLCount
           /\ Within(A, URLRange, URLCount + 1) /\ (Cardinality(A) = URLCount => A = URLRange)
<1>1. URLCount \in Nat
  BY URLRoundRobinAssumption
<1>2. IsFiniteSet(URLRange) /\ Cardinality(URLRange) = URLCount
  BY <1>1, FS_Interval DEF URLRange
<1>3. IsFiniteSet(A) /\ Cardinality(A) <= URLCount /\ (Cardinality(A) = URLCount => A = URLRange)
  BY <1>2, FS_Subset
<1>4. Cardinality(A) \in Nat
  BY <1>3, FS_CardinalityType
<1>5. Within(A, URLRange, URLCount + 1)
  BY <1>1 DEF Within, URLRange
<1> QED BY <1>3, <1>4, <1>5

LEMMA OneMoreURL ==
    ASSUME NEW cw \in [URLRange -> Int], NEW A, A \in SUBSET URLRange, NEW x, x \in URLRange \ A
    PROVE  /\ Together(cw, A \cup {x}) = Together(cw, A) + cw[x]
           /\ Together(cw, A) \in Int /\ Together(cw, A \cup {x}) \in Int /\ cw[x] \in Int
           /\ Cardinality(A \cup {x}) = Cardinality(A) + 1 /\ A \cup {x} \in SUBSET URLRange
<1>1. PICK C : C = A \cup {x}
  OBVIOUS
<1>2. C \in SUBSET URLRange /\ x \in C /\ A = C \ {x}
  BY <1>1
<1>3. \A B \in SUBSET URLRange : Summable(cw, B, URLCount + 1)
  <2>1. ASSUME NEW B, B \in SUBSET URLRange PROVE Summable(cw, B, URLCount + 1)
    <3>1. Within(B, URLRange, URLCount + 1)
      BY <2>1, SomeURLs
    <3> QED BY <2>1, <3>1 DEF Within, Summable
  <2> QED BY <2>1
<1>4. Summable(cw, C, URLCount + 1)
  BY <1>2, <1>3
<1>5. SumOver(cw, C, URLCount + 1) = SumOver(cw, C \ {x}, URLCount + 1) + cw[x]
  BY <1>2, <1>4, SumWithout
<1>6. SumOver(cw, A, URLCount + 1) \in Int /\ SumOver(cw, C, URLCount + 1) \in Int
  BY <1>2, <1>3, SumType
<1>7. Cardinality(C) = Cardinality(A) + 1
  BY <1>1, SomeURLs, FS_AddElement
<1> QED BY <1>1, <1>2, <1>5, <1>6, <1>7 DEF Together

(* A pick from some of the URLs whose weights add up to total. *)
URLPick(cw, w, S, v, total, paid) ==
    /\ IsPick(cw, w, S, URLRange, v, total, paid) /\ total = SumOver(w, S, URLCount + 1)

LEMMA TogetherAfterPick ==
    ASSUME NEW cw, NEW w, NEW S, NEW v, NEW total, NEW paid, URLPick(cw, w, S, v, total, paid),
           NEW A, A \in SUBSET URLRange
    PROVE  /\ Together(paid, A) \in Int /\ Together(cw, A) \in Int /\ total \in Nat
           /\ v \in A => Together(paid, A) <= Together(cw, A)
           /\ v \notin A => Together(cw, A) <= Together(paid, A)
           /\ A \cap S = {} \/ S \subseteq A => Together(paid, A) = Together(cw, A)
<1>1. Within(A, URLRange, URLCount + 1)
  BY SomeURLs
<1>2. PICK gain : gain = SumOver(w, A \cap S, URLCount + 1)
  OBVIOUS
<1>3. /\ Together(paid, A) = Together(cw, A) + gain - (IF v \in A THEN total ELSE 0)
      /\ Together(paid, A) \in Int /\ Together(cw, A) \in Int /\ gain \in Int
  BY <1>1, <1>2, SumAfterPick DEF URLPick, Together
<1>4. total \in Nat /\ v \in S /\ S \subseteq URLRange /\ total = SumOver(w, S, URLCount + 1)
  BY DEF URLPick, IsPick
<1>5. Summable(w, S, URLCount + 1) /\ \A x \in S : w[x] >= 0
  <2>1. \A x \in S : w[x] \in Nat
    BY DEF URLPick, IsPick
  <2>2. Within(S, URLRange, URLCount + 1)
    BY <1>4, SomeURLs
  <2> QED BY <2>1, <2>2 DEF Summable, Within
<1>6. 0 <= gain /\ gain <= total
  <2>1. A \cap S \subseteq S
    OBVIOUS
  <2> QED BY <1>2, <1>4, <1>5, <2>1, SumOfPositive
<1>7. A \cap S = {} => gain = 0
  <2>1. URLCount + 1 \in Nat
    BY URLRoundRobinAssumption
  <2> QED BY <1>2, <2>1, SumEmpty
<1>8. S \subseteq A => gain = total /\ v \in A
  <2>1. S \subseteq A => A \cap S = S
    OBVIOUS
  <2> QED BY <1>2, <1>4, <2>1
<1>9. A \cap S = {} => v \notin A
  BY <1>4
<1> QED BY <1>3, <1>4, <1>6, <1>7, <1>8, <1>9

LEMMA PickKeepsHavings ==
    ASSUME NEW cw, NEW w, NEW S, NEW v, NEW total, NEW paid, URLPick(cw, w, S, v, total, paid),
           NEW t \in Nat, total <= t, HaveLittle(cw, t)
    PROVE  HaveLittle(paid, t)
<1> DEFINE n == URLCount
           Good(A) == 2 * Together(paid, A) <= Debt(Cardinality(A), n, t)
           P == {k \in Nat : \A A \in SUBSET URLRange : Cardinality(A) = k => Good(A)}
<1>0. n \in Nat /\ v \in S /\ S \subseteq URLRange /\ paid \in [URLRange -> Int] /\ v \in URLRange /\ total \in Nat
  BY URLRoundRobinAssumption DEF URLPick, IsPick
<1>1. ASSUME NEW A, A \in SUBSET URLRange, v \in A \/ A \cap S = {} PROVE Good(A)
  <2>1. Together(paid, A) <= Together(cw, A) /\ Together(paid, A) \in Int /\ Together(cw, A) \in Int
    <3>1. v \in A => Together(paid, A) <= Together(cw, A)
      BY <1>1, TogetherAfterPick
    <3>2. A \cap S = {} => Together(paid, A) = Together(cw, A)
      BY <1>1, TogetherAfterPick
    <3>3. Together(paid, A) \in Int /\ Together(cw, A) \in Int
      BY <1>1, TogetherAfterPick
    <3> QED BY <1>1, <3>1, <3>2, <3>3
  <2>2. 2 * Together(cw, A) <= Debt(Cardinality(A), n, t)
    BY <1>1 DEF HaveLittle
  <2>3. Debt(Cardinality(A), n, t) \in Int
    <3>1. Cardinality(A) \in Nat
      BY <1>1, SomeURLs
    <3> QED BY <1>0, <3>1, DebtIsNumber
  <2> QED BY <2>1, <2>2, <2>3
<1>2. 0 \in P
  <2> SUFFICES ASSUME NEW A, A \in SUBSET URLRange, Cardinality(A) = 0 PROVE Good(A)
    OBVIOUS
  <2>1. A = {}
    BY SomeURLs, FS_EmptySet
  <2>2. A \cap S = {}
    BY <2>1
  <2> HIDE DEF Good
  <2> QED BY <1>1, <2>2
<1>3. ASSUME NEW k \in Nat, k \in P PROVE k + 1 \in P
  <2> SUFFICES ASSUME NEW A, A \in SUBSET URLRange, Cardinality(A) = k + 1, v \notin A, A \cap S # {}
               PROVE  Good(A)
    <3> HIDE DEF Good
    <3> QED BY <1>1
  <2>1. PICK x : x \in A /\ x \in S
    OBVIOUS
  <2>2. PICK B : B = A \ {x}
    OBVIOUS
  <2>3. B \in SUBSET URLRange /\ x \in URLRange \ B /\ A = B \cup {x}
    BY <2>1, <2>2
  <2>4. /\ Together(paid, A) = Together(paid, B) + paid[x] /\ Cardinality(A) = Cardinality(B) + 1
        /\ Together(paid, B) \in Int /\ Together(paid, A) \in Int /\ paid[x] \in Int
    BY <1>0, <2>3, OneMoreURL
  <2>5. PICK C : C = A \cup {v}
    OBVIOUS
  <2>6. /\ Together(paid, C) = Together(paid, A) + paid[v] /\ Cardinality(C) = Cardinality(A) + 1
        /\ Together(paid, C) \in Int /\ paid[v] \in Int /\ C \in SUBSET URLRange
    BY <1>0, <2>5, OneMoreURL
  <2>7. 2 * Together(paid, C) <= Debt(k + 2, n, t)
    <3>1. v \in C
      BY <2>5
    <3>2. Good(C)
      BY <1>1, <2>6, <3>1
    <3>3. Cardinality(C) = k + 2
      BY <2>6
    <3> QED BY <3>2, <3>3
  <2>8. 2 * Together(paid, B) <= Debt(k, n, t)
    <3>1. Cardinality(B) = k
      BY <2>3, <2>4, SomeURLs
    <3>2. Good(B)
      BY <1>3, <2>3, <3>1
    <3> QED BY <3>1, <3>2
  <2>9. paid[x] <= paid[v] + total
    <3>1. x # v
      BY <2>1
    <3>2. paid[x] = cw[x] + w[x] /\ paid[v] = cw[v] + w[v] - total
      BY <1>0, <2>1, <3>1 DEF URLPick, IsPick
    <3>3. cw[x] + w[x] <= cw[v] + w[v]
      BY <2>1 DEF URLPick, IsPick
    <3>4. cw[x] \in Int /\ w[x] \in Int /\ cw[v] \in Int /\ w[v] \in Int
      BY <1>0, <2>1 DEF URLPick, IsPick
    <3> QED BY <1>0, <3>2, <3>3, <3>4
  <2>10. 2 * Debt(k + 1, n, t) = Debt(k, n, t) + Debt(k + 2, n, t) + 2 * t
    BY <1>0, DebtFacts
  <2>11. Debt(k, n, t) \in Int /\ Debt(k + 1, n, t) \in Int /\ Debt(k + 2, n, t) \in Int
    <3>1. k + 1 \in Nat /\ k + 2 \in Nat
      OBVIOUS
    <3> QED BY <1>0, <3>1, DebtIsNumber
  <2>12. 2 * Together(paid, A) <= Debt(k + 1, n, t)
    BY <1>0, <2>4, <2>6, <2>7, <2>8, <2>9, <2>10, <2>11
  <2> QED BY <2>12
<1> HIDE DEF P
<1>4. \A k \in Nat : k \in P
  BY <1>2, <1>3, InductionOnNat
<1>5. ASSUME NEW A, A \in SUBSET URLRange PROVE Good(A)
  <2>1. Cardinality(A) \in P
    BY <1>4, <1>5, SomeURLs
  <2> QED BY <1>5, <2>1 DEF P
<1> QED BY <1>5 DEF HaveLittle

LEMMA PickKeepsDebts ==
    ASSUME NEW cw, NEW w, NEW S, NEW v, NEW total, NEW paid, URLPick(cw, w, S, v, total, paid),
           NEW t \in Nat, total <= t, OweLittle(cw, t)
    PROVE  OweLittle(paid, t)
<1> DEFINE n == URLCount
           Good(A) == -Debt(Cardinality(A), n, t) <= 2 * Together(paid, A)
           P == {j \in Nat : \A A \in SUBSET URLRange : Cardinality(A) + j = n => Good(A)}
<1>0. n \in Nat /\ v \in S /\ S \subseteq URLRange /\ paid \in [URLRange -> Int] /\ v \in URLRange /\ total \in Nat
  BY URLRoundRobinAssumption DEF URLPick, IsPick
<1>1. ASSUME NEW A, A \in SUBSET URLRange, v \notin A \/ S \subseteq A PROVE Good(A)
  <2>1. Together(cw, A) <= Together(paid, A) /\ Together(paid, A) \in Int /\ Together(cw, A) \in Int
    <3>1. v \notin A => Together(cw, A) <= Together(paid, A)
      BY <1>1, TogetherAfterPick
    <3>2. S \subseteq A => Together(paid, A) = Together(cw, A)
      BY <1>1, TogetherAfterPick
    <3>3. Together(paid, A) \in Int /\ Together(cw, A) \in Int
      BY <1>1, TogetherAfterPick
    <3> QED BY <1>1, <3>1, <3>2, <3>3
  <2>2. -Debt(Cardinality(A), n, t) <= 2 * Together(cw, A)
    BY <1>1 DEF OweLittle
  <2>3. Debt(Cardinality(A), n, t) \in Int
    <3>1. Cardinality(A) \in Nat
      BY <1>1, SomeURLs
    <3> QED BY <1>0, <3>1, DebtIsNumber
  <2> QED BY <2>1, <2>2, <2>3
<1>2. 0 \in P
  <2> SUFFICES ASSUME NEW A, A \in SUBSET URLRange, Cardinality(A) + 0 = n PROVE Good(A)
    OBVIOUS
  <2>0. Cardinality(A) = n
    BY SomeURLs
  <2>1. A = URLRange
    BY <2>0, SomeURLs
  <2>2. S \subseteq A
    BY <1>0, <2>1
  <2> HIDE DEF Good
  <2> QED BY <1>1, <2>2
<1>3. ASSUME NEW j \in Nat, j \in P PROVE j + 1 \in P
  <2> SUFFICES ASSUME NEW A, A \in SUBSET URLRange, Cardinality(A) + (j + 1) = n, v \in A, ~(S \subseteq A)
               PROVE  Good(A)
    <3> HIDE DEF Good
    <3> QED BY <1>1
  <2>1. PICK y : y \in S /\ y \notin A /\ y \in URLRange
    BY <1>0
  <2>2. PICK B : B = A \ {v}
    OBVIOUS
  <2>3. B \in SUBSET URLRange /\ v \in URLRange \ B /\ A = B \cup {v} /\ v \notin B
    BY <1>0, <2>2
  <2>4. /\ Together(paid, A) = Together(paid, B) + paid[v] /\ Cardinality(A) = Cardinality(B) + 1
        /\ Together(paid, B) \in Int /\ Together(paid, A) \in Int /\ paid[v] \in Int
    BY <1>0, <2>3, OneMoreURL
  <2>5. PICK C : C = A \cup {y}
    OBVIOUS
  <2>6. /\ Together(paid, C) = Together(paid, A) + paid[y] /\ Cardinality(C) = Cardinality(A) + 1
        /\ Together(paid, C) \in Int /\ paid[y] \in Int /\ C \in SUBSET URLRange
    BY <1>0, <2>1, <2>5, OneMoreURL
  <2>7. PICK k \in Nat : Cardinality(B) = k /\ Cardinality(A) = k + 1 /\ Cardinality(C) = k + 2
    <3>1. Cardinality(B) \in Nat
      BY <2>3, SomeURLs
    <3> QED BY <2>4, <2>6, <3>1
  <2>8. -Debt(k + 2, n, t) <= 2 * Together(paid, C)
    <3>1. Cardinality(C) + j = n
      BY <2>7
    <3>2. Good(C)
      BY <1>3, <2>6, <3>1
    <3> QED BY <2>7, <3>2
  <2>9. -Debt(k, n, t) <= 2 * Together(paid, B)
    <3>1. Good(B)
      BY <1>1, <2>3
    <3> QED BY <2>7, <3>1
  <2>10. paid[y] <= paid[v] + total
    <3>1. y # v
      BY <2>1
    <3>2. paid[y] = cw[y] + w[y] /\ paid[v] = cw[v] + w[v] - total
      BY <1>0, <2>1, <3>1 DEF URLPick, IsPick
    <3>3. cw[y] + w[y] <= cw[v] + w[v]
      BY <2>1 DEF URLPick, IsPick
    <3>4. cw[y] \in Int /\ w[y] \in Int /\ cw[v] \in Int /\ w[v] \in Int
      BY <1>0, <2>1 DEF URLPick, IsPick
    <3> QED BY <1>0, <3>2, <3>3, <3>4
  <2>11. 2 * Debt(k + 1, n, t) = Debt(k, n, t) + Debt(k + 2, n, t) + 2 * t
    BY <1>0, DebtFacts
  <2>12. Debt(k, n, t) \in Int /\ Debt(k + 1, n, t) \in Int /\ Debt(k + 2, n, t) \in Int
    <3>1. k + 1 \in Nat /\ k + 2 \in Nat
      OBVIOUS
    <3> QED BY <1>0, <3>1, DebtIsNumber
  <2>13. -Debt(k + 1, n, t) <= 2 * Together(paid, A)
    BY <1>0, <2>4, <2>6, <2>8, <2>9, <2>10, <2>11, <2>12
  <2> QED BY <2>7, <2>13
<1> HIDE DEF P
<1>4. \A j \in Nat : j \in P
  BY <1>2, <1>3, InductionOnNat
<1>5. ASSUME NEW A, A \in SUBSET URLRange PROVE Good(A)
  <2>1. Cardinality(A) \in Nat /\ Cardinality(A) <= n
    BY <1>5, SomeURLs
  <2>2. PICK j \in Nat : Cardinality(A) + j = n
    <3>1. n - Cardinality(A) \in Nat /\ Cardinality(A) + (n - Cardinality(A)) = n
      BY <1>0, <2>1
    <3> QED BY <3>1
  <2>3. j \in P
    BY <1>4
  <2> QED BY <1>5, <2>2, <2>3 DEF P
<1> QED BY <1>5 DEF OweLittle

(* Every URL has gained what it has lost, but for a debt of its wins.           *)
InDebt(cw, lost, t) ==
    /\ cw \in [URLRange -> Int] /\ lost \in [URLRange -> Nat]
    /\ HaveLittle(cw, t) /\ OweLittle(cw, t)
    /\ \A u \in URLRange : lost[u] <= cw[u] + (URLCount - 1) * t

LEMMA OneURL ==
    ASSUME NEW cw \in [URLRange -> Int], NEW u \in URLRange
    PROVE  /\ {u} \in SUBSET URLRange /\ Together(cw, {u}) = cw[u] /\ Cardinality({u}) = 1
           /\ Together(cw, {}) = 0
<1>1. URLCount + 1 \in Nat
  BY URLRoundRobinAssumption
<1>2. Together(cw, {}) = 0
  BY <1>1, SumEmpty DEF Together
<1>3. {} \in SUBSET URLRange /\ u \in URLRange \ {} /\ {} \cup {u} = {u}
  OBVIOUS
<1>4. Together(cw, {} \cup {u}) = Together(cw, {}) + cw[u] /\ cw[u] \in Int
  BY <1>3, OneMoreURL
<1>5. Cardinality({u}) = 1
  BY FS_Singleton
<1> QED BY <1>2, <1>3, <1>4, <1>5

LEMMA DebtOfOne ==
    ASSUME NEW t \in Nat, NEW cw \in [URLRange -> Int], NEW u \in URLRange
    PROVE  /\ HaveLittle(cw, t) => cw[u] <= (URLCount - 1) * t
           /\ OweLittle(cw, t) => 0 <= cw[u] + (URLCount - 1) * t
<1>1. URLCount \in Nat /\ URLCount >= 1
  BY URLRoundRobinAssumption
<1>2. PICK most \in Nat : most = (URLCount - 1) * t
  <2>1. URLCount - 1 \in Nat
    BY <1>1
  <2> QED BY <2>1
<1>3. Debt(1, URLCount, t) = 2 * most
  BY <1>1, <1>2, DebtFacts
<1>4. {u} \in SUBSET URLRange /\ Together(cw, {u}) = cw[u] /\ Cardinality({u}) = 1 /\ cw[u] \in Int
  BY OneURL
<1>5. HaveLittle(cw, t) => 2 * cw[u] <= 2 * most
  BY <1>3, <1>4 DEF HaveLittle
<1>6. OweLittle(cw, t) => -(2 * most) <= 2 * cw[u]
  BY <1>3, <1>4 DEF OweLittle
<1> QED BY <1>2, <1>4, <1>5, <1>6

LEMMA PickKeepsBalance ==
    ASSUME NEW cw, NEW lost, NEW t \in Nat, InDebt(cw, lost, t),
           NEW w, NEW S, NEW v, NEW total, NEW paid, URLPick(cw, w, S, v, total, paid),
           total <= t, \A u \in S : w[u] >= 1,
           NEW after, after = [u \in URLRange |-> IF u = v THEN 0 ELSE IF u \in S THEN lost[u] + 1 ELSE lost[u]]
    PROVE  InDebt(paid, after, t)
<1>1. HaveLittle(paid, t) /\ OweLittle(paid, t)
  BY PickKeepsHavings, PickKeepsDebts DEF InDebt
<1>2. cw \in [URLRange -> Int] /\ lost \in [URLRange -> Nat]
  BY DEF InDebt
<1>3. paid \in [URLRange -> Int] /\ v \in URLRange /\ S \subseteq URLRange /\ \A u \in S : w[u] \in Nat
  BY DEF URLPick, IsPick
<1>4. after \in [URLRange -> Nat]
  BY <1>2
<1>5. PICK most \in Nat : most = (URLCount - 1) * t
  <2>1. URLCount - 1 \in Nat
    BY URLRoundRobinAssumption
  <2> QED BY <2>1
<1>6. ASSUME NEW u \in URLRange PROVE after[u] <= paid[u] + most
  <2>1. CASE u = v
    <3>1. 0 <= paid[u] + (URLCount - 1) * t
      BY <1>1, <1>3, DebtOfOne
    <3> QED BY <1>5, <2>1, <3>1
  <2>2. CASE u # v
    <3>1. paid[u] = IF u \in S THEN cw[u] + w[u] ELSE cw[u]
      BY <2>2 DEF URLPick, IsPick
    <3>2. lost[u] <= cw[u] + most /\ cw[u] \in Int /\ lost[u] \in Nat
      BY <1>2, <1>5 DEF InDebt
    <3>3. u \in S => w[u] \in Nat /\ w[u] >= 1
      BY <1>3
    <3> QED BY <2>2, <3>1, <3>2, <3>3
  <2> QED BY <2>1, <2>2
<1> QED BY <1>1, <1>3, <1>4, <1>5, <1>6 DEF InDebt

(* URLs that leave the configuration lose their current weights: what the      *)
(* others have together is bounded as before.                                  *)
IsKept(f, g, kept) == f = [u \in URLRange |-> IF u \in kept THEN g[u] ELSE 0]

LEMMA PruneKeepsBalance ==
    ASSUME NEW cw, NEW lost, NEW t \in Nat, InDebt(cw, lost, t), NEW kept,
           NEW cut, IsKept(cut, cw, kept), NEW after, IsKept(after, lost, kept)
    PROVE  InDebt(cut, after, t)
<1> USE DEF IsKept
<1>1. cw \in [URLRange -> Int] /\ lost \in [URLRange -> Nat]
  BY DEF InDebt
<1>2. cut \in [URLRange -> Int] /\ after \in [URLRange -> Nat]
  BY <1>1
<1>3. ASSUME NEW A, A \in SUBSET URLRange
      PROVE  /\ 2 * Together(cut, A) <= Debt(Cardinality(A), URLCount, t)
             /\ -Debt(Cardinality(A), URLCount, t) <= 2 * Together(cut, A)
  <2>1. PICK B : B = A \cap kept
    OBVIOUS
  <2>2. B \in SUBSET URLRange /\ B \in SUBSET A
    BY <1>3, <2>1
  <2>3. Together(cut, A) = Together(cw, B)
    <3>1. SameOnPart(cut, A, cw, B)
      BY <1>3, <2>1 DEF SameOnPart
    <3> QED BY <3>1, SumRestrict DEF Together
  <2>4. /\ 2 * Together(cw, B) <= Debt(Cardinality(B), URLCount, t)
        /\ -Debt(Cardinality(B), URLCount, t) <= 2 * Together(cw, B)
    BY <2>2 DEF InDebt, HaveLittle, OweLittle
  <2>5. PICK j \in Nat, k \in Nat : j = Cardinality(B) /\ k = Cardinality(A) /\ j <= k /\ k <= URLCount
    <3>1. Cardinality(A) \in Nat /\ Cardinality(B) \in Nat /\ Cardinality(A) <= URLCount /\ IsFiniteSet(A)
      BY <1>3, <2>2, SomeURLs
    <3>2. Cardinality(B) <= Cardinality(A)
      BY <2>2, <3>1, FS_Subset
    <3> QED BY <3>1, <3>2
  <2>6. URLCount \in Nat
    BY URLRoundRobinAssumption
  <2>7. Debt(j, URLCount, t) <= Debt(k, URLCount, t)
    BY <2>5, <2>6, DebtGrows
  <2>8. Debt(j, URLCount, t) \in Int /\ Debt(k, URLCount, t) \in Int
    BY <2>6, DebtIsNumber
  <2>9. Together(cw, B) \in Int
    <3>1. Within(B, URLRange, URLCount + 1)
      BY <2>2, SomeURLs
    <3>2. Summable(cw, B, URLCount + 1)
      BY <1>1, <2>2, <3>1 DEF Summable, Within
    <3> QED BY <3>2, SumType DEF Together
  <2> QED BY <2>3, <2>4, <2>5, <2>7, <2>8, <2>9
<1>4. PICK most \in Nat : most = (URLCount - 1) * t
  <2>1. URLCount - 1 \in Nat
    BY URLRoundRobinAssumption
  <2> QED BY <2>1
<1>5. \A u \in URLRange : after[u] <= cut[u] + most
  BY <1>1, <1>4 DEF InDebt
<1> QED BY <1>2, <1>3, <1>4, <1>5 DEF InDebt, HaveLittle, OweLittle

LEMMA QuotientIsSmaller ==
    ASSUME NEW a \in Nat, NEW b \in Nat, b >= 1
    PROVE  a \div b \in Nat /\ a \div b <= a
<1>1. PICK q \in Int : q = a \div b
  OBVIOUS
<1>2. b * q <= a /\ a < b * q + b
  BY <1>1
<1>3. q >= 0
  <2> SUFFICES ASSUME q < 0 PROVE FALSE
    OBVIOUS
  <2>1. PICK d \in Nat : q = -1 - d
    <3>1. -1 - q \in Nat /\ q = -1 - (-1 - q)
      OBVIOUS
    <3> QED BY <3>1
  <2>2. b * (-1 - d) = -b - b * d /\ b * d \in Nat
    OBVIOUS
  <2>3. b * q + b = -(b * d)
    BY <2>1, <2>2
  <2> QED BY <1>2, <2>2, <2>3
<1>4. q <= b * q
  <2>1. PICK c \in Nat : b = c + 1
    <3>1. b - 1 \in Nat /\ b = (b - 1) + 1
      OBVIOUS
    <3> QED BY <3>1
  <2>2. (c + 1) * q = c * q + q /\ c * q \in Nat
    BY <1>3
  <2> QED BY <2>1, <2>2
<1>5. b * q \in Int
  OBVIOUS
<1> QED BY <1>1, <1>2, <1>3, <1>4, <1>5

(* A weight is a number, at least 1, and none is above the largest.            *)
LEMMA WeightsOfURLs ==
    ASSUME RRWeights # {}
    PROVE  /\ Max(RRWeights) \in Nat
           /\ \A w \in RRWeights : w \in Nat /\ w >= 1 /\ w <= Max(RRWeights)
<1> DEFINE bound == WeightScale * 100 + 1
<1>1. WeightScale \in Nat /\ FloorMs \in Nat /\ bound \in Nat
  BY URLRoundRobinAssumption
<1>2. ASSUME NEW l \in Latencies, NEW r \in SuccessRates
      PROVE  ComputeRRWeight(l, r) \in Nat /\ ComputeRRWeight(l, r) >= 1 /\ ComputeRRWeight(l, r) <= bound
  <2>1. l \in Nat /\ l >= 1 /\ r \in Nat /\ r <= 100
    BY URLRoundRobinAssumption
  <2>2. PICK ms \in Nat : ms = (IF l < FloorMs THEN FloorMs ELSE l) /\ ms >= 1
    BY <1>1, <2>1
  <2>3. PICK a \in Nat : a = WeightScale * r /\ a <= WeightScale * 100
    <3>1. PICK d \in Nat : 100 = r + d
      <4>1. 100 - r \in Nat /\ 100 = r + (100 - r)
        BY <2>1
      <4> QED BY <4>1
    <3>2. WeightScale * (r + d) = WeightScale * r + WeightScale * d
      BY <1>1, <2>1
    <3>3. WeightScale * r \in Nat /\ WeightScale * d \in Nat
      BY <1>1, <2>1
    <3> QED BY <3>1, <3>2, <3>3
  <2>4. PICK b \in Nat : b = 100 * ms /\ b >= 1
    BY <2>2
  <2>5. PICK w \in Nat : w = a \div b /\ w <= a
    BY <2>4, QuotientIsSmaller
  <2>6. ComputeRRWeight(l, r) = IF w < 1 THEN 1 ELSE w
    BY <2>2, <2>3, <2>4, <2>5 DEF ComputeRRWeight
  <2> QED BY <1>1, <2>3, <2>5, <2>6
<1> HIDE DEF bound
<1>3. \A w \in RRWeights : w \in Nat /\ w >= 1 /\ w <= bound
  BY <1>2 DEF RRWeights
<1>4. RRWeights \subseteq Nat /\ \A w \in RRWeights : w <= bound
  BY <1>3
<1>5. Max(RRWeights) \in RRWeights /\ \A w \in RRWeights : w <= Max(RRWeights)
  BY <1>1, <1>4, GreatestNumber
<1> QED BY <1>3, <1>5

LargestTotal == URLCount * Max(RRWeights)

LEMMA LargestTotalIsNumber == weights \in Weightings => LargestTotal \in Nat
<1> SUFFICES ASSUME weights \in Weightings PROVE LargestTotal \in Nat
  OBVIOUS
<1>1. 1 \in URLRange /\ URLCount \in Nat
  BY URLRoundRobinAssumption DEF URLRange
<1>2. RRWeights # {}
  BY <1>1 DEF Weightings
<1>3. Max(RRWeights) \in Nat
  BY <1>2, WeightsOfURLs
<1> QED BY <1>1, <1>3 DEF LargestTotal

(* The candidates of a pick, and what their weights can add up to.             *)
LEMMA CandidatePick ==
    ASSUME weights \in Weightings, configured \subseteq URLRange,
           NEW cw \in [URLRange -> Int], NEW s \in CandidateLists
    PROVE  /\ URLPick(cw, weights, ToSet(s), Picked(cw, weights, s), TotalWeight(weights, s), Paid(cw, weights, s))
           /\ TotalWeight(weights, s) <= LargestTotal
           /\ ToSet(s) \subseteq configured /\ \A u \in ToSet(s) : weights[u] \in Nat /\ weights[u] >= 1
<1>1. PICK S \in SUBSET configured : s = Ascending(S) /\ Cardinality(S) > 1
  BY DEF CandidateLists
<1>2. S \in SUBSET URLRange /\ URLCount \in Nat
  BY <1>1, URLRoundRobinAssumption
<1>3. IsFiniteSet(S) /\ Cardinality(S) \in Nat /\ Cardinality(S) <= URLCount
      /\ Within(S, URLRange, URLCount + 1) /\ S # {}
  BY <1>1, <1>2, SomeURLs, FS_EmptySet
<1>4. PICK n \in Nat : n = URLCount + 1 /\ S \subseteq 0..(n - 1) /\ S \subseteq Nat
  BY <1>2, <1>3 DEF Within
<1>5. ToSet(s) = S
  BY <1>1, <1>3, <1>4, ListById DEF ById
<1>6. RRWeights # {}
  BY <1>2, <1>3 DEF Weightings
<1>7. PICK top \in Nat : top = Max(RRWeights)
  BY <1>6, WeightsOfURLs
<1>8. \A u \in S : weights[u] \in Nat /\ weights[u] >= 1 /\ weights[u] <= top
  <2>1. \A u \in S : weights[u] \in RRWeights
    BY <1>2 DEF Weightings
  <2>2. \A w \in RRWeights : w \in Nat /\ w >= 1 /\ w <= top
    BY <1>6, <1>7, WeightsOfURLs
  <2> QED BY <2>1, <2>2
<1>9. PICK w : w = weights
  OBVIOUS
<1>10. Pickable(S, URLRange, cw, w, n)
  BY <1>2, <1>3, <1>4, <1>8, <1>9 DEF Pickable
<1>11. /\ IsPick(cw, w, S, URLRange, Picked(cw, w, s), TotalWeight(w, s), Paid(cw, w, s))
       /\ TotalWeight(w, s) = SumOver(w, S, n)
  BY <1>1, <1>10, PickIs
<1>12. SumOver(w, S, n) <= LargestTotal
  <2> DEFINE tops == [x \in Nat |-> top]
  <2>1. Summable(w, S, n) /\ Summable(tops, S, n)
    BY <1>4, <1>8, <1>9 DEF Summable
  <2>2. IsLeq(w, tops, S)
    BY <1>4, <1>8, <1>9 DEF IsLeq
  <2>3. IsConstant(tops, top, S)
    BY <1>4 DEF IsConstant
  <2> HIDE DEF tops
  <2>4. SumOver(w, S, n) <= SumOver(tops, S, n)
    BY <2>1, <2>2, SumLeq
  <2>5. SumOver(tops, S, n) = top * Cardinality(S)
    BY <1>4, <2>3, SumOfConstant
  <2>6. top * Cardinality(S) <= URLCount * top
    <3>1. PICK k \in Nat, d \in Nat : k = Cardinality(S) /\ URLCount = k + d
      <4>1. URLCount - Cardinality(S) \in Nat /\ URLCount = Cardinality(S) + (URLCount - Cardinality(S))
        BY <1>2, <1>3
      <4> QED BY <1>3, <4>1
    <3>2. (k + d) * top = top * k + d * top /\ d * top \in Nat /\ top * k \in Nat
      OBVIOUS
    <3> QED BY <3>1, <3>2
  <2>7. SumOver(w, S, n) \in Int /\ top * Cardinality(S) \in Int /\ URLCount * top \in Int
    BY <1>2, <1>3, <2>1, SumType
  <2> QED BY <1>7, <2>4, <2>5, <2>6, <2>7 DEF LargestTotal
<1>13. URLPick(cw, w, S, Picked(cw, w, s), TotalWeight(w, s), Paid(cw, w, s))
  BY <1>4, <1>11 DEF URLPick
<1> QED BY <1>1, <1>5, <1>8, <1>9, <1>11, <1>12, <1>13

RoundRobinInv ==
    /\ weights \in Weightings /\ configured \subseteq URLRange
    /\ InDebt(currentWeights, passedOver, LargestTotal)

LEMMA NothingIsOwed == ASSUME NEW t \in Nat PROVE InDebt(Zeros, Zeros, t)
<1>1. Zeros \in [URLRange -> Int] /\ Zeros \in [URLRange -> Nat] /\ \A u \in URLRange : Zeros[u] = 0
  BY DEF Zeros
<1>2. URLCount \in Nat /\ URLCount + 1 \in Nat /\ URLCount - 1 \in Nat
  BY URLRoundRobinAssumption
<1>3. ASSUME NEW A, A \in SUBSET URLRange
      PROVE  /\ 2 * Together(Zeros, A) <= Debt(Cardinality(A), URLCount, t)
             /\ -Debt(Cardinality(A), URLCount, t) <= 2 * Together(Zeros, A)
  <2>1. SameOnPart(Zeros, A, Zeros, {})
    BY <1>1, <1>3 DEF SameOnPart
  <2>2. Together(Zeros, A) = 0
    BY <1>2, <2>1, SumRestrict, SumEmpty DEF Together
  <2>3. PICK k \in Nat : k = Cardinality(A) /\ k <= URLCount
    BY <1>3, SomeURLs
  <2>4. 0 <= Debt(k, URLCount, t) /\ Debt(k, URLCount, t) \in Int
    <3>1. \A j \in Nat : j <= k => 0 <= Debt(k, URLCount, t)
      <4> SUFFICES ASSUME NEW j \in Nat, j <= k PROVE 0 <= Debt(k, URLCount, t)
        OBVIOUS
      <4>1. Debt(j, URLCount, t) <= Debt(k, URLCount, t) /\ 0 <= Debt(k, URLCount, t)
        BY <1>2, <2>3, DebtGrows
      <4> QED BY <4>1
    <3>2. Debt(k, URLCount, t) \in Int
      BY <1>2, <2>3, DebtIsNumber
    <3> QED BY <2>3, <3>1, <3>2
  <2> QED BY <2>2, <2>3, <2>4
<1>4. (URLCount - 1) * t \in Nat
  BY <1>2
<1>5. \A u \in URLRange : Zeros[u] <= Zeros[u] + (URLCount - 1) * t
  BY <1>1, <1>4
<1> QED BY <1>1, <1>3, <1>5 DEF InDebt, HaveLittle, OweLittle

LEMMA StartsFairly == RoundRobinInit => RoundRobinInv
<1> SUFFICES ASSUME RoundRobinInit PROVE RoundRobinInv
  OBVIOUS
<1>1. weights \in Weightings /\ configured \subseteq URLRange /\ currentWeights = Zeros /\ passedOver = Zeros
  BY DEF RoundRobinInit
<1>2. PICK t \in Nat : t = LargestTotal
  BY <1>1, LargestTotalIsNumber
<1>3. InDebt(Zeros, Zeros, t)
  BY NothingIsOwed
<1> QED BY <1>1, <1>2, <1>3 DEF RoundRobinInv

LEMMA RoundRobinStep ==
    ASSUME RoundRobinInv, [RoundRobinNext]_roundVars
    PROVE  RoundRobinInv'
<1>0. weights \in Weightings /\ configured \subseteq URLRange /\ InDebt(currentWeights, passedOver, LargestTotal)
  BY DEF RoundRobinInv
<1>1. PICK t \in Nat : t = LargestTotal
  BY <1>0, LargestTotalIsNumber
<1>2. ASSUME weights' \in Weightings, configured' \subseteq URLRange, InDebt(currentWeights', passedOver', t)
      PROVE  RoundRobinInv'
  <2>1. \A cw, lost : InDebt(cw, lost, LargestTotal)' <=> InDebt(cw', lost', LargestTotal)
    BY DEF InDebt, HaveLittle, OweLittle, LargestTotal, URLRange, Together, Debt, RRWeights
  <2> QED BY <1>1, <1>2, <2>1 DEF RoundRobinInv, Weightings, URLRange, RRWeights
<1>3. CASE SelectsURL
  <2>1. PICK s \in CandidateLists :
          /\ currentWeights' = Paid(currentWeights, weights, s)
          /\ passedOver' = Missed(passedOver, Picked(currentWeights, weights, s), s)
    BY <1>3 DEF SelectsURL
  <2>2. PICK cw, lost : cw = currentWeights /\ lost = passedOver
    OBVIOUS
  <2>3. InDebt(cw, lost, t) /\ cw \in [URLRange -> Int] /\ lost \in [URLRange -> Nat]
    BY <1>0, <1>1, <2>2 DEF InDebt
  <2>4. PICK w, S, v, total, paid :
          /\ w = weights /\ S = ToSet(s) /\ v = Picked(cw, weights, s)
          /\ total = TotalWeight(weights, s) /\ paid = Paid(cw, weights, s)
    OBVIOUS
  <2>5. URLPick(cw, w, S, v, total, paid) /\ total <= t /\ \A u \in S : w[u] \in Nat /\ w[u] >= 1
    BY <1>0, <1>1, <2>3, <2>4, CandidatePick
  <2>6. PICK after : after = [u \in URLRange |-> IF u = v THEN 0 ELSE IF u \in S THEN lost[u] + 1 ELSE lost[u]]
    OBVIOUS
  <2>7. InDebt(paid, after, t)
    BY <2>3, <2>5, <2>6, PickKeepsBalance
  <2>8. passedOver' = after /\ currentWeights' = paid
    BY <2>1, <2>2, <2>3, <2>4, <2>6 DEF Missed
  <2> QED BY <1>0, <1>2, <1>3, <2>7, <2>8 DEF SelectsURL
<1>4. CASE WeightsChange
  BY <1>0, <1>1, <1>2, <1>4 DEF WeightsChange
<1>5. CASE PrunesURLs
  <2>1. PICK kept : kept = configured'
    OBVIOUS
  <2>2. PICK cw, lost : cw = currentWeights /\ lost = passedOver
    OBVIOUS
  <2>3. /\ currentWeights' = [u \in URLRange |-> IF u \in kept THEN cw[u] ELSE 0]
        /\ passedOver' = [u \in URLRange |-> IF u \in kept THEN lost[u] ELSE 0]
    BY <1>5, <2>1, <2>2 DEF PrunesURLs
  <2>4. InDebt(cw, lost, t)
    BY <1>0, <1>1, <2>2
  <2>5. PICK cut, after : cut = currentWeights' /\ after = passedOver'
    OBVIOUS
  <2>6. IsKept(cut, cw, kept) /\ IsKept(after, lost, kept)
    BY <2>3, <2>5 DEF IsKept
  <2>7. InDebt(cut, after, t)
    BY <2>4, <2>6, PruneKeepsBalance
  <2> QED BY <1>0, <1>2, <1>5, <2>5, <2>7 DEF PrunesURLs
<1>6. CASE ForgetsChannel
  <2>1. InDebt(Zeros, Zeros, t)
    BY NothingIsOwed
  <2> QED BY <1>0, <1>2, <1>6, <2>1 DEF ForgetsChannel
<1>7. CASE UNCHANGED roundVars
  BY <1>0, <1>1, <1>2, <1>7 DEF roundVars
<1> QED BY <1>3, <1>4, <1>5, <1>6, <1>7 DEF RoundRobinNext

(* No URL starves: what it has lost is bounded by what it has gained, and that  *)
(* by Most, so that it loses at most twice Most picks in a row, for any number  *)
(* of URLs and whatever latencies are measured and URLs configured in between.  *)
THEOREM NoURLStarves ==
    RoundRobinSpec => [](NobodyStarves /\ \A u \in URLRange : passedOver[u] <= 2 * Most)
<1>1. RoundRobinInit => RoundRobinInv
  BY StartsFairly
<1>2. RoundRobinInv => NobodyStarves /\ \A u \in URLRange : passedOver[u] <= 2 * Most
  <2> SUFFICES ASSUME RoundRobinInv, NEW u \in URLRange
               PROVE  passedOver[u] <= currentWeights[u] + Most /\ currentWeights[u] <= Most /\ passedOver[u] <= 2 * Most
    BY DEF NobodyStarves
  <2>1. PICK t \in Nat : t = LargestTotal
    BY LargestTotalIsNumber DEF RoundRobinInv
  <2>2. PICK most \in Nat : most = Most /\ most = (URLCount - 1) * t
    <3>1. URLCount - 1 \in Nat
      BY URLRoundRobinAssumption
    <3> QED BY <2>1, <3>1 DEF Most, LargestTotal
  <2>3. PICK cw, lost : cw = currentWeights /\ lost = passedOver
    OBVIOUS
  <2>4. InDebt(cw, lost, t)
    BY <2>1, <2>3 DEF RoundRobinInv
  <2>5. cw \in [URLRange -> Int] /\ lost \in [URLRange -> Nat] /\ lost[u] <= cw[u] + most /\ HaveLittle(cw, t)
    BY <2>2, <2>4 DEF InDebt
  <2>6. cw[u] <= most
    BY <2>2, <2>5, DebtOfOne
  <2>7. cw[u] \in Int /\ lost[u] \in Nat
    BY <2>5
  <2> QED BY <2>2, <2>3, <2>5, <2>6, <2>7
<1> QED BY <1>1, <1>2, RoundRobinStep, PTL DEF RoundRobinSpec

-----------------------------------------------------------------------------
(* In proportion to the weights *)

(* r is what n picks from s make of the current weights, from the start. *)
IsRun(r, w, s, n) == r = [i \in 0..n |-> IF i = 0 THEN Zeros ELSE Paid(r[i - 1], w, s)]

LEMMA RunExists ==
    ASSUME NEW w, NEW s
    PROVE  \A n \in Nat : \E r : IsRun(r, w, s, n)
<1> DEFINE P == {n \in Nat : \E r : IsRun(r, w, s, n)}
<1>1. 0 \in P
  <2>1. PICK r : r = [i \in 0..0 |-> Zeros]
    OBVIOUS
  <2>2. r = [i \in 0..0 |-> IF i = 0 THEN Zeros ELSE Paid(r[i - 1], w, s)]
    BY <2>1
  <2>3. IsRun(r, w, s, 0)
    BY <2>2 DEF IsRun
  <2> QED BY <2>3
<1>2. ASSUME NEW n \in Nat, n \in P PROVE n + 1 \in P
  <2>1. PICK r : IsRun(r, w, s, n)
    BY <1>2
  <2>2. PICK next : next = Paid(r[n], w, s)
    OBVIOUS
  <2>3. PICK q : q = [i \in 0..(n + 1) |-> IF i = n + 1 THEN next ELSE r[i]]
    OBVIOUS
  <2>4. \A i \in 0..(n + 1) : q[i] = IF i = 0 THEN Zeros ELSE Paid(q[i - 1], w, s)
    <3> SUFFICES ASSUME NEW i \in 0..(n + 1) PROVE q[i] = IF i = 0 THEN Zeros ELSE Paid(q[i - 1], w, s)
      OBVIOUS
    <3>1. CASE i = n + 1
      <4>1. i # 0 /\ q[i] = next /\ i - 1 = n /\ n \in 0..(n + 1) /\ n # n + 1
        BY <2>3, <3>1
      <4>2. q[i - 1] = r[n]
        BY <2>3, <4>1
      <4> QED BY <2>2, <4>1, <4>2
    <3>2. CASE i # n + 1
      <4>1. i \in 0..n /\ q[i] = r[i]
        BY <2>3, <3>2
      <4>2. r[i] = IF i = 0 THEN Zeros ELSE Paid(r[i - 1], w, s)
        BY <2>1, <4>1 DEF IsRun
      <4>3. i # 0 => i - 1 \in 0..(n + 1) /\ i - 1 # n + 1
        BY <4>1
      <4>4. i # 0 => q[i - 1] = r[i - 1]
        BY <2>3, <4>3
      <4> QED BY <4>1, <4>2, <4>4
    <3> QED BY <3>1, <3>2
  <2>5. q = [i \in 0..(n + 1) |-> IF i = 0 THEN Zeros ELSE Paid(q[i - 1], w, s)]
    BY <2>3, <2>4
  <2>6. IsRun(q, w, s, n + 1)
    BY <2>5 DEF IsRun
  <2> QED BY <2>6
<1> HIDE DEF P
<1>3. \A n \in Nat : n \in P
  BY <1>1, <1>2, InductionOnNat
<1> QED BY <1>3 DEF P

LEMMA AfterIsRun ==
    ASSUME NEW w, NEW s, NEW n \in Nat
    PROVE  \E r : IsRun(r, w, s, n) /\ After(w, s, n) = r[n]
<1> DEFINE cw == CHOOSE f : f = [i \in 0..n |-> IF i = 0 THEN Zeros ELSE Paid(f[i - 1], w, s)]
<1>1. \E f : f = [i \in 0..n |-> IF i = 0 THEN Zeros ELSE Paid(f[i - 1], w, s)]
  <2>1. \E r : IsRun(r, w, s, n)
    BY RunExists
  <2> QED BY <2>1 DEF IsRun
<1>2. cw = [i \in 0..n |-> IF i = 0 THEN Zeros ELSE Paid(cw[i - 1], w, s)]
  BY <1>1
<1>3. After(w, s, n) = cw[n]
  BY DEF After
<1> HIDE DEF cw
<1>4. IsRun(cw, w, s, n)
  BY <1>2 DEF IsRun
<1> QED BY <1>3, <1>4

(* Where i picks from the URLs S, which weigh total together, leave the        *)
(* current weights: each has been given its weight i times and has paid the    *)
(* total some times, and nobody is a whole total behind.                       *)
InShares(cw, w, S, total, i) ==
    /\ cw \in [URLRange -> Int] /\ \A x \in URLRange \ S : cw[x] = 0
    /\ Together(cw, S) = 0
    /\ \A x \in S : cw[x] > -total /\ \E q \in Int : cw[x] = i * w[x] - total * q

LEMMA StartInShares ==
    ASSUME NEW w, NEW S, S \in SUBSET URLRange, NEW total \in Nat, total >= 1, \A x \in S : w[x] \in Nat
    PROVE  InShares(Zeros, w, S, total, 0)
<1>1. Zeros \in [URLRange -> Int] /\ \A x \in URLRange : Zeros[x] = 0
  BY DEF Zeros
<1>2. Together(Zeros, S) = 0
  <2>1. URLCount + 1 \in Nat
    BY URLRoundRobinAssumption
  <2>2. SameOnPart(Zeros, S, Zeros, {})
    BY <1>1 DEF SameOnPart
  <2> QED BY <2>1, <2>2, SumRestrict, SumEmpty DEF Together
<1>3. ASSUME NEW x \in S PROVE Zeros[x] > -total /\ \E q \in Int : Zeros[x] = 0 * w[x] - total * q
  <2>1. 0 * w[x] = 0 /\ total * 0 = 0
    OBVIOUS
  <2>2. Zeros[x] = 0 * w[x] - total * 0
    BY <1>1, <2>1
  <2> QED BY <1>1, <2>2
<1> QED BY <1>1, <1>2, <1>3 DEF InShares

LEMMA PickInShares ==
    ASSUME NEW cw, NEW w, NEW S, NEW v, NEW total, NEW paid, URLPick(cw, w, S, v, total, paid),
           total >= 1, NEW i \in Nat, InShares(cw, w, S, total, i)
    PROVE  InShares(paid, w, S, total, i + 1)
<1>1. /\ IsPick(cw, w, S, URLRange, v, total, paid) /\ total = SumOver(w, S, URLCount + 1)
      /\ S \in SUBSET URLRange /\ v \in S /\ total \in Nat
      /\ cw \in [URLRange -> Int] /\ paid \in [URLRange -> Int] /\ \A x \in S : w[x] \in Nat
  BY DEF URLPick, IsPick
<1>2. \A x \in URLRange : paid[x] = IF x = v THEN cw[x] + w[x] - total
                                    ELSE IF x \in S THEN cw[x] + w[x] ELSE cw[x]
  BY <1>1 DEF IsPick
<1>3. \A x \in URLRange \ S : paid[x] = 0
  BY <1>1, <1>2 DEF InShares
<1>4. Within(S, URLRange, URLCount + 1)
  BY <1>1, SomeURLs
<1>5. Together(paid, S) = 0
  <2>1. Together(paid, S) = Together(cw, S)
    <3>1. S \subseteq S
      OBVIOUS
    <3> QED BY <1>1, <3>1, TogetherAfterPick
  <2> QED BY <2>1 DEF InShares
<1>6. cw[v] + w[v] >= 1
  <2>1. PICK k, g, sum, all : k = Cardinality(S) /\ g = cw[v] + w[v]
           /\ sum = SumOver(cw, S, URLCount + 1) /\ all = SumOver(w, S, URLCount + 1)
    OBVIOUS
  <2>2. sum + all <= k * g /\ sum \in Int /\ all \in Int /\ g \in Int /\ k \in Nat
    <3>1. PICK n : n = URLCount + 1 /\ Within(S, URLRange, n)
      BY <1>4
    <3>2. SumOver(cw, S, n) + SumOver(w, S, n) <= Cardinality(S) * (cw[v] + w[v])
      BY <1>1, <3>1, WinnerHasItsShare
    <3>3. SumOver(cw, S, n) \in Int /\ SumOver(w, S, n) \in Int /\ cw[v] + w[v] \in Int /\ Cardinality(S) \in Nat
      BY <1>1, <3>1, WinnerHasItsShare
    <3> QED BY <2>1, <3>1, <3>2, <3>3
  <2>3. sum = 0 /\ all = total
    BY <1>1, <2>1 DEF InShares, Together
  <2>4. k * g >= 1
    BY <1>1, <2>2, <2>3
  <2>5. g >= 1
    <3> SUFFICES ASSUME g <= 0 PROVE FALSE
      BY <2>2
    <3>1. PICK d \in Nat : g = -d
      <4>1. -g \in Nat /\ g = -(-g)
        BY <2>2
      <4> QED BY <4>1
    <3>2. k * (-d) = -(k * d) /\ k * d \in Nat
      BY <2>2
    <3> QED BY <2>4, <3>1, <3>2
  <2> QED BY <2>1, <2>5
<1>7. ASSUME NEW x \in S PROVE paid[x] > -total /\ \E q \in Int : paid[x] = (i + 1) * w[x] - total * q
  <2>1. PICK q \in Int : cw[x] = i * w[x] - total * q
    BY DEF InShares
  <2>2. PICK c \in Int, g \in Nat : c = cw[x] /\ g = w[x]
    BY <1>1
  <2>3. (i + 1) * g = i * g + g /\ total * (q + 1) = total * q + total
        /\ i * g \in Nat /\ total * q \in Int /\ q + 1 \in Int
    BY <1>1
  <2>4. x \in URLRange /\ c > -total
    BY <1>1, <2>2 DEF InShares
  <2>5. CASE x = v
    <3>1. paid[x] = c + g - total /\ c + g >= 1
      BY <1>2, <1>6, <2>2, <2>4, <2>5
    <3>2. paid[x] > -total
      BY <1>1, <3>1
    <3>3. paid[x] = (i + 1) * g - total * (q + 1)
      BY <1>1, <2>1, <2>2, <2>3, <3>1
    <3> QED BY <2>2, <2>3, <3>2, <3>3
  <2>6. CASE x # v
    <3>1. paid[x] = c + g
      BY <1>2, <2>2, <2>4, <2>6
    <3>2. paid[x] > -total
      BY <1>1, <2>4, <3>1
    <3>3. paid[x] = (i + 1) * g - total * q
      BY <1>1, <2>1, <2>2, <2>3, <3>1
    <3> QED BY <2>2, <3>2, <3>3
  <2> QED BY <2>5, <2>6
<1> QED BY <1>1, <1>3, <1>5, <1>7 DEF InShares

(* After as many picks as the total, everyone's share is a multiple of the     *)
(* total; nobody is a whole total behind, so that nobody is behind at all.     *)
LEMMA SharesEven ==
    ASSUME NEW cw, NEW w, NEW S, S \in SUBSET URLRange, NEW total \in Nat, total >= 1,
           \A x \in S : w[x] \in Nat, InShares(cw, w, S, total, total)
    PROVE  cw = Zeros
<1>1. cw \in [URLRange -> Int] /\ Together(cw, S) = 0
  BY DEF InShares
<1>2. ASSUME NEW x \in S PROVE cw[x] >= 0
  <2>1. PICK q \in Int : cw[x] = total * w[x] - total * q
    BY DEF InShares
  <2>2. cw[x] > -total
    BY DEF InShares
  <2>3. PICK d \in Int : d = w[x] - q /\ w[x] \in Int
    OBVIOUS
  <2>4. cw[x] = total * d
    <3>1. total * (w[x] - q) = total * w[x] - total * q
      BY <2>3
    <3> QED BY <2>1, <2>3, <3>1
  <2>5. d >= 0
    <3> SUFFICES ASSUME d < 0 PROVE FALSE
      OBVIOUS
    <3>1. PICK e \in Nat : d = -1 - e
      <4>1. -1 - d \in Nat /\ d = -1 - (-1 - d)
        OBVIOUS
      <4> QED BY <4>1
    <3>2. total * (-1 - e) = -total - total * e /\ total * e \in Nat
      OBVIOUS
    <3> QED BY <2>2, <2>4, <3>1, <3>2
  <2>6. total * d >= 0
    BY <2>5
  <2> QED BY <2>4, <2>6
<1>3. Summable(cw, S, URLCount + 1)
  <2>1. Within(S, URLRange, URLCount + 1)
    BY SomeURLs
  <2> QED BY <1>1, <2>1 DEF Within, Summable
<1>4. ASSUME NEW x \in S PROVE cw[x] = 0
  <2>1. PICK A : A = {x}
    OBVIOUS
  <2>2. A \subseteq S
    BY <2>1
  <2>3. SumOver(cw, A, URLCount + 1) <= SumOver(cw, S, URLCount + 1) /\ Summable(cw, A, URLCount + 1)
    BY <1>2, <1>3, <2>2, SumOfPositive
  <2>4. SumOver(cw, A, URLCount + 1) = cw[x]
    BY <2>1, <2>3, SumSingle
  <2>5. cw[x] <= 0 /\ cw[x] \in Int
    BY <1>1, <2>3, <2>4 DEF Together
  <2> QED BY <1>2, <2>5
<1>5. \A x \in URLRange : cw[x] = 0
  BY <1>4 DEF InShares
<1> QED BY <1>1, <1>5 DEF Zeros

LEMMA TotalIsPositive ==
    ASSUME NEW cw, NEW w, NEW S, NEW v, NEW total, NEW paid, URLPick(cw, w, S, v, total, paid), w[v] >= 1
    PROVE  total >= 1 /\ total \in Nat
<1>1. /\ total = SumOver(w, S, URLCount + 1) /\ S \in SUBSET URLRange /\ v \in S
      /\ total \in Nat /\ \A x \in S : w[x] \in Nat
  BY DEF URLPick, IsPick
<1>2. Summable(w, S, URLCount + 1) /\ \A x \in S : w[x] >= 0
  <2>1. Within(S, URLRange, URLCount + 1)
    BY <1>1, SomeURLs
  <2> QED BY <1>1, <2>1 DEF Within, Summable
<1>3. PICK A : A = {v}
  OBVIOUS
<1>4. A \subseteq S
  BY <1>1, <1>3
<1>5. SumOver(w, A, URLCount + 1) <= total /\ Summable(w, A, URLCount + 1)
  BY <1>1, <1>2, <1>4, SumOfPositive
<1>6. SumOver(w, A, URLCount + 1) = w[v]
  BY <1>3, <1>5, SumSingle
<1>7. w[v] \in Nat
  BY <1>1
<1> QED BY <1>1, <1>5, <1>6, <1>7

(* As many picks as the total of the weights leave all current weights at zero *)
(* again, whatever the URLs weigh and whichever of them can be picked.         *)
THEOREM PicksAreInProportion == RoundRobinSpec => []PicksInProportion
<1>1. RoundRobinInv => PicksInProportion
  <2> SUFFICES ASSUME RoundRobinInv, NEW s \in CandidateLists
               PROVE  After(weights, s, TotalWeight(weights, s)) = Zeros
    BY DEF PicksInProportion
  <2>1. weights \in Weightings /\ configured \subseteq URLRange
    BY DEF RoundRobinInv
  <2>2. PICK w, S, total : w = weights /\ S = ToSet(s) /\ total = TotalWeight(w, s)
    OBVIOUS
  <2>3. ASSUME NEW cw \in [URLRange -> Int]
        PROVE  \E v : URLPick(cw, w, S, v, total, Paid(cw, w, s))
    BY <2>1, <2>2, CandidatePick
  <2>4. S \in SUBSET URLRange /\ \A u \in S : w[u] \in Nat /\ w[u] >= 1
    <3>1. Zeros \in [URLRange -> Int]
      BY DEF Zeros
    <3> QED BY <2>1, <2>2, <3>1, CandidatePick
  <2>5. total \in Nat /\ total >= 1
    <3>1. Zeros \in [URLRange -> Int]
      BY DEF Zeros
    <3>2. PICK v, paid : URLPick(Zeros, w, S, v, total, paid)
      BY <2>3, <3>1
    <3>3. w[v] >= 1
      BY <2>4, <3>2 DEF URLPick, IsPick
    <3> QED BY <3>2, <3>3, TotalIsPositive
  <2>6. PICK r : IsRun(r, w, s, total) /\ After(w, s, total) = r[total]
    BY <2>5, AfterIsRun
  <2> DEFINE P == {i \in Nat : i <= total => InShares(r[i], w, S, total, i)}
  <2>7. 0 \in P
    <3>1. r[0] = Zeros
      BY <2>5, <2>6 DEF IsRun
    <3>2. InShares(Zeros, w, S, total, 0)
      BY <2>4, <2>5, StartInShares
    <3> QED BY <3>1, <3>2
  <2>8. ASSUME NEW i \in Nat, i \in P PROVE i + 1 \in P
    <3> SUFFICES ASSUME i + 1 <= total PROVE InShares(r[i + 1], w, S, total, i + 1)
      OBVIOUS
    <3>1. i + 1 \in 0..total /\ i + 1 # 0 /\ (i + 1) - 1 = i /\ i <= total
      BY <2>5
    <3>2. r[i + 1] = Paid(r[i], w, s)
      BY <2>6, <3>1 DEF IsRun
    <3>3. InShares(r[i], w, S, total, i)
      BY <2>8, <3>1
    <3>4. PICK v : URLPick(r[i], w, S, v, total, Paid(r[i], w, s))
      BY <2>3, <3>3 DEF InShares
    <3> QED BY <2>5, <3>2, <3>3, <3>4, PickInShares
  <2> HIDE DEF P
  <2>9. total \in P
    BY <2>5, <2>7, <2>8, InductionOnNat
  <2>10. InShares(r[total], w, S, total, total)
    BY <2>5, <2>9 DEF P
  <2>11. r[total] = Zeros
    BY <2>4, <2>5, <2>10, SharesEven
  <2> QED BY <2>2, <2>6, <2>11
<1>2. RoundRobinInit => RoundRobinInv
  BY StartsFairly
<1> QED BY <1>1, <1>2, RoundRobinStep, PTL DEF RoundRobinSpec
=============================================================================
