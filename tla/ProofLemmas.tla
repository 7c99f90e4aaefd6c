----------------------------- MODULE ProofLemmas -----------------------------
(***************************************************************************)
(* Facts about natural numbers, sequences, sorted lists and sums that      *)
(* several proofs need.                                                    *)
(***************************************************************************)
EXTENDS Sorting, SequencesExt, FiniteSetsExt, SequenceTheorems, WellFoundedInduction,
        FiniteSetTheorems, TLAPS

Distinct(s) == \A m, n \in DOMAIN s : s[m] = s[n] => m = n

Below == {p \in Nat \X Nat : p[1] < p[2]}

LEMMA LeastNumber ==
    ASSUME NEW S, S \subseteq Nat, S # {}
    PROVE  \E least \in S : \A x \in S : least <= x
<1>1. IsWellFoundedOn(Below, Nat)
  BY NatLessThanWellFounded DEF OpToRel, Below
<1>2. PICK least \in S : \A x \in S : <<x, least>> \notin Below
  BY <1>1, WFMin
<1>3. ASSUME NEW x \in S PROVE least <= x
  <2>1. x \in Nat /\ least \in Nat /\ <<x, least>> \notin Below
    BY <1>2
  <2>2. ~(x < least)
    BY <2>1 DEF Below
  <2> QED BY <2>1, <2>2
<1> QED BY <1>3

LEMMA GreatestNumber ==
    ASSUME NEW S, S \subseteq Nat, S # {}, NEW bound \in Nat, \A x \in S : x <= bound
    PROVE  Max(S) \in S /\ \A x \in S : x <= Max(S)
<1> DEFINE Bounds == {b \in Nat : \A x \in S : x <= b}
<1>1. PICK b \in Bounds : \A c \in Bounds : b <= c
  <2>1. Bounds \subseteq Nat /\ Bounds # {}
    OBVIOUS
  <2> HIDE DEF Bounds
  <2> QED BY <2>1, LeastNumber
<1>2. b \in S
  <2> SUFFICES ASSUME b \notin S PROVE FALSE
    OBVIOUS
  <2>1. \A x \in S : x \in Nat /\ x < b
    OBVIOUS
  <2>2. b > 0 /\ b - 1 \in Nat
    <3>1. PICK x : x \in S
      OBVIOUS
    <3> QED BY <2>1, <3>1
  <2>3. b - 1 \in Bounds
    BY <2>1, <2>2
  <2> QED BY <1>1, <2>2, <2>3
<1>3. \E x \in S : \A y \in S : x >= y
  <2>1. \A y \in S : b >= y
    OBVIOUS
  <2> QED BY <1>2, <2>1
<1>4. Max(S) = CHOOSE x \in S : \A y \in S : x >= y
  BY DEF Max
<1>5. Max(S) \in S /\ \A y \in S : Max(S) >= y
  BY <1>3, <1>4
<1> QED BY <1>5

LEMMA SeqFacts ==
    ASSUME NEW E, NEW s \in Seq(E)
    PROVE  /\ DOMAIN s = 1..Len(s) /\ Len(s) \in Nat /\ \A n \in DOMAIN s : s[n] \in E /\ n \in Nat
           /\ DOMAIN s = {} => s = <<>>
<1>1. DOMAIN s = 1..Len(s) /\ Len(s) \in Nat /\ \A n \in DOMAIN s : s[n] \in E /\ n \in Nat
  OBVIOUS
<1>2. DOMAIN s = {} => Len(s) = 0
  BY <1>1
<1>3. Len(s) = 0 => s = <<>>
  OBVIOUS
<1> QED BY <1>1, <1>2, <1>3

LEMMA AppendKeeps ==
    ASSUME NEW E, NEW s \in Seq(E), NEW e \in E
    PROVE  /\ Append(s, e) \in Seq(E) /\ Len(Append(s, e)) = Len(s) + 1
           /\ DOMAIN Append(s, e) = DOMAIN s \cup {Len(s) + 1}
           /\ \A n \in DOMAIN s : Append(s, e)[n] = s[n]
           /\ Append(s, e)[Len(s) + 1] = e
           /\ ToSet(Append(s, e)) = ToSet(s) \cup {e}
           /\ Distinct(s) /\ e \notin ToSet(s) => Distinct(Append(s, e))
<1>1. /\ Append(s, e) \in Seq(E) /\ Len(Append(s, e)) = Len(s) + 1
      /\ DOMAIN Append(s, e) = DOMAIN s \cup {Len(s) + 1}
      /\ \A n \in DOMAIN s : Append(s, e)[n] = s[n]
      /\ Append(s, e)[Len(s) + 1] = e
  OBVIOUS
<1>2. ToSet(Append(s, e)) = ToSet(s) \cup {e}
  BY <1>1 DEF ToSet
<1>3. Distinct(s) /\ e \notin ToSet(s) => Distinct(Append(s, e))
  BY <1>1 DEF ToSet, Distinct
<1> QED BY <1>1, <1>2, <1>3

LEMMA TailKeeps ==
    ASSUME NEW E, NEW s \in Seq(E), s # <<>>
    PROVE  /\ Head(s) \in E /\ Tail(s) \in Seq(E) /\ Len(Tail(s)) = Len(s) - 1
           /\ Head(s) = s[1] /\ 1 \in DOMAIN s
           /\ \A n \in DOMAIN Tail(s) : n + 1 \in DOMAIN s /\ Tail(s)[n] = s[n + 1] /\ n \in Nat \ {0}
           /\ \A n \in DOMAIN s \ {1} : n - 1 \in DOMAIN Tail(s) /\ s[n] = Tail(s)[n - 1]
           /\ ToSet(s) = {Head(s)} \cup ToSet(Tail(s))
           /\ Distinct(s) => Distinct(Tail(s)) /\ Head(s) \notin ToSet(Tail(s))
<1>1. /\ Head(s) \in E /\ Tail(s) \in Seq(E) /\ Len(Tail(s)) = Len(s) - 1
      /\ Head(s) = s[1] /\ 1 \in DOMAIN s /\ DOMAIN s = 1..Len(s) /\ Len(s) \in Nat
      /\ DOMAIN Tail(s) = 1..(Len(s) - 1)
      /\ \A n \in DOMAIN Tail(s) : n + 1 \in DOMAIN s /\ Tail(s)[n] = s[n + 1] /\ n \in Nat \ {0}
  OBVIOUS
<1>2. \A n \in DOMAIN s \ {1} : n - 1 \in DOMAIN Tail(s) /\ s[n] = Tail(s)[n - 1]
  BY <1>1
<1>3. ToSet(s) = {Head(s)} \cup ToSet(Tail(s))
  BY <1>1, <1>2 DEF ToSet
<1>4. ASSUME Distinct(s) PROVE Distinct(Tail(s)) /\ Head(s) \notin ToSet(Tail(s))
  <2>1. \A m, n \in DOMAIN Tail(s) : Tail(s)[m] = Tail(s)[n] => m = n
    BY <1>1, <1>4 DEF Distinct
  <2>2. \A n \in DOMAIN Tail(s) : Tail(s)[n] # s[1]
    BY <1>1, <1>4 DEF Distinct
  <2> QED BY <1>1, <2>1, <2>2 DEF Distinct, ToSet
<1> QED BY <1>1, <1>2, <1>3, <1>4
-----------------------------------------------------------------------------
(* Sorting *)

\* R orders S strictly and completely.
Strict(R, S) ==
    /\ \A x \in S : <<x, x>> \notin R
    /\ \A x, y \in S : x # y => <<x, y>> \in R \/ <<y, x>> \in R
    /\ \A x, y, z \in S : <<x, y>> \in R /\ <<y, z>> \in R => <<x, z>> \in R

Under(x, S, R) == {y \in S : <<y, x>> \in R}

(* Who is behind in the order has more members of the set under it. *)
LEMMA RanksGrow ==
    ASSUME NEW S, IsFiniteSet(S), NEW R, Strict(R, S)
    PROVE  /\ Cardinality(S) \in Nat
           /\ \A x \in S : Cardinality(Under(x, S, R)) \in 0 .. Cardinality(S) - 1
           /\ \A x, y \in S : <<x, y>> \in R => Cardinality(Under(x, S, R)) < Cardinality(Under(y, S, R))
<1>1. Cardinality(S) \in Nat
  BY FS_CardinalityType
<1>2. ASSUME NEW T, IsFiniteSet(T), NEW U \in SUBSET T, U # T
      PROVE  Cardinality(U) \in Nat /\ Cardinality(T) \in Nat /\ Cardinality(U) < Cardinality(T)
  BY <1>2, FS_Subset, FS_CardinalityType
<1>3. ASSUME NEW x \in S PROVE IsFiniteSet(Under(x, S, R)) /\ Cardinality(Under(x, S, R)) \in 0 .. Cardinality(S) - 1
  <2>1. Under(x, S, R) \in SUBSET S /\ x \notin Under(x, S, R)
    BY DEF Under, Strict
  <2>2. IsFiniteSet(Under(x, S, R))
    BY <2>1, FS_Subset
  <2>3. Cardinality(Under(x, S, R)) \in Nat /\ Cardinality(Under(x, S, R)) < Cardinality(S)
    BY <1>2, <2>1
  <2> QED BY <1>1, <2>2, <2>3
<1>4. ASSUME NEW x \in S, NEW y \in S, <<x, y>> \in R
      PROVE  Cardinality(Under(x, S, R)) < Cardinality(Under(y, S, R))
  <2>1. Under(x, S, R) \in SUBSET Under(y, S, R) /\ x \in Under(y, S, R) /\ x \notin Under(x, S, R)
    BY <1>4 DEF Under, Strict
  <2> QED BY <1>2, <1>3, <2>1
<1> QED BY <1>1, <1>3, <1>4

(* Every rank is somebody's. *)
LEMMA RanksAreTaken ==
    ASSUME NEW S, IsFiniteSet(S), NEW R, Strict(R, S), NEW i \in 1 .. Cardinality(S)
    PROVE  \E x \in S : Cardinality(Under(x, S, R)) = i - 1
<1> DEFINE n == Cardinality(S)
           rank == [x \in S |-> Cardinality(Under(x, S, R)) + 1]
<1> SUFFICES ASSUME \A x \in S : Cardinality(Under(x, S, R)) # i - 1 PROVE FALSE
  OBVIOUS
<1>1. /\ n \in Nat
      /\ \A x \in S : Cardinality(Under(x, S, R)) \in 0 .. n - 1
      /\ \A x, y \in S : <<x, y>> \in R => Cardinality(Under(x, S, R)) < Cardinality(Under(y, S, R))
  BY RanksGrow
<1>2. rank \in [S -> (1 .. n) \ {i}]
  BY <1>1
<1>3. IsFiniteSet(1 .. n) /\ Cardinality(1 .. n) = n
  BY <1>1, FS_Interval
<1>4. IsFiniteSet((1 .. n) \ {i}) /\ Cardinality((1 .. n) \ {i}) < n
  <2>1. (1 .. n) \ {i} \in SUBSET (1 .. n) /\ (1 .. n) \ {i} # 1 .. n
    OBVIOUS
  <2>2. /\ IsFiniteSet((1 .. n) \ {i}) /\ Cardinality((1 .. n) \ {i}) <= Cardinality(1 .. n)
        /\ Cardinality((1 .. n) \ {i}) # Cardinality(1 .. n)
    BY <1>3, <2>1, FS_Subset
  <2>3. Cardinality((1 .. n) \ {i}) \in Nat
    BY <2>2, FS_CardinalityType
  <2> QED BY <1>1, <1>3, <2>2, <2>3
<1>5. PICK x, y \in S : x # y /\ rank[x] = rank[y]
  <2>1. Cardinality((1 .. n) \ {i}) < Cardinality(S) /\ IsFiniteSet((1 .. n) \ {i})
    BY <1>4
  <2> HIDE DEF rank
  <2> QED BY <1>2, <2>1, FS_PigeonHole
<1>6. <<x, y>> \in R \/ <<y, x>> \in R
  BY <1>5 DEF Strict
<1> QED BY <1>1, <1>5, <1>6

(* SortedBy names every member once, in the order. *)
LEMMA SortedFacts ==
    ASSUME NEW S, IsFiniteSet(S), NEW R, Strict(R, S), NEW s, s = SortedBy(S, R)
    PROVE  /\ Cardinality(S) \in Nat /\ s \in [1 .. Cardinality(S) -> S] /\ s \in Seq(S)
           /\ ToSet(s) = S /\ Len(s) = Cardinality(S) /\ DOMAIN s = 1 .. Cardinality(S)
           /\ \A i, j \in DOMAIN s : i < j => <<s[i], s[j]>> \in R
           /\ \A i, j \in DOMAIN s : s[i] = s[j] => i = j
<1> DEFINE n == Cardinality(S)
<1>1. /\ n \in Nat
      /\ \A x \in S : Cardinality(Under(x, S, R)) \in 0 .. n - 1
      /\ \A x, y \in S : <<x, y>> \in R => Cardinality(Under(x, S, R)) < Cardinality(Under(y, S, R))
  BY RanksGrow
<1>2. s = [i \in 1 .. n |-> CHOOSE x \in S : Cardinality(Under(x, S, R)) = i - 1]
  BY DEF SortedBy, Under
<1>3. ASSUME NEW i \in 1 .. n PROVE s[i] \in S /\ Cardinality(Under(s[i], S, R)) = i - 1
  <2>1. \E x \in S : Cardinality(Under(x, S, R)) = i - 1
    BY RanksAreTaken
  <2>2. s[i] = CHOOSE x \in S : Cardinality(Under(x, S, R)) = i - 1
    BY <1>2
  <2> QED BY <2>1, <2>2
<1>4. s \in [1 .. n -> S] /\ DOMAIN s = 1 .. n
  BY <1>2, <1>3
<1>5. s \in Seq(S) /\ Len(s) = n
  BY <1>1, <1>4
<1>6. \A i, j \in 1 .. n : s[i] = s[j] => i = j
  BY <1>3
<1>7. ASSUME NEW i \in 1 .. n, NEW j \in 1 .. n, i < j PROVE <<s[i], s[j]>> \in R
  <2>1. s[i] \in S /\ s[j] \in S /\ s[i] # s[j]
    BY <1>3, <1>6, <1>7
  <2>2. <<s[j], s[i]>> \notin R
    BY <1>1, <1>3, <1>7, <2>1
  <2> QED BY <2>1, <2>2 DEF Strict
<1>8. ASSUME NEW x \in S PROVE x \in ToSet(s)
  <2>1. PICK i \in 1 .. n : Cardinality(Under(x, S, R)) = i - 1
    BY <1>1
  <2>2. Cardinality(Under(s[i], S, R)) = Cardinality(Under(x, S, R)) /\ s[i] \in S
    BY <1>3, <2>1
  <2>3. <<x, s[i]>> \notin R /\ <<s[i], x>> \notin R
    BY <1>1, <2>2
  <2>4. s[i] = x
    BY <2>2, <2>3 DEF Strict
  <2> QED BY <1>4, <2>4 DEF ToSet
<1>9. ToSet(s) = S
  BY <1>4, <1>8 DEF ToSet
<1> QED BY <1>1, <1>4, <1>5, <1>6, <1>7, <1>9

(* A finite set that is not empty has a first member. *)
LEMMA FirstMember ==
    ASSUME NEW S, IsFiniteSet(S), S # {}, NEW R, Strict(R, S)
    PROVE  \E c \in S : \A d \in S \ {c} : <<c, d>> \in R
<1>1. PICK s : s = SortedBy(S, R)
  OBVIOUS
<1>2. /\ Cardinality(S) \in Nat /\ s \in [1 .. Cardinality(S) -> S] /\ DOMAIN s = 1 .. Cardinality(S)
      /\ ToSet(s) = S /\ \A i, j \in DOMAIN s : i < j => <<s[i], s[j]>> \in R
  BY <1>1, SortedFacts
<1>3. 1 \in DOMAIN s /\ s[1] \in S
  BY <1>2 DEF ToSet
<1>4. ASSUME NEW d \in S \ {s[1]} PROVE <<s[1], d>> \in R
  <2>1. PICK j \in DOMAIN s : d = s[j]
    BY <1>2 DEF ToSet
  <2>2. 1 < j
    BY <1>2, <2>1
  <2> QED BY <1>2, <1>3, <2>1, <2>2
<1> QED BY <1>3, <1>4

(* An ascending list of numbers. *)
LEMMA AscendingFacts ==
    ASSUME NEW S, IsFiniteSet(S), S \subseteq Int
    PROVE  /\ Cardinality(S) \in Nat /\ Ascending(S) \in [1 .. Cardinality(S) -> S]
           /\ Ascending(S) \in Seq(S) /\ ToSet(Ascending(S)) = S
           /\ Len(Ascending(S)) = Cardinality(S) /\ DOMAIN Ascending(S) = 1 .. Cardinality(S)
<1> DEFINE R == {p \in S \X S : p[1] < p[2]}
<1>1. Strict(R, S)
  BY DEF Strict
<1>2. Ascending(S) = SortedBy(S, R)
  BY DEF Ascending
<1> HIDE DEF R
<1> QED BY <1>1, <1>2, SortedFacts

(* A filter keeps the type of a list and makes it no longer. *)
LEMMA FilteredFacts ==
    ASSUME NEW E, NEW s \in Seq(E), NEW keep
    PROVE  Filtered(s, keep) \in Seq(E) /\ Len(Filtered(s, keep)) <= Len(s)
<1> DEFINE K == {i \in DOMAIN s : s[i] \in keep}
           places == Ascending(K)
<1>1. DOMAIN s = 1 .. Len(s) /\ Len(s) \in Nat /\ \A i \in DOMAIN s : s[i] \in E
  BY SeqFacts
<1>2. IsFiniteSet(1 .. Len(s)) /\ Cardinality(1 .. Len(s)) = Len(s)
  BY <1>1, FS_Interval
<1>3. K \in SUBSET (1 .. Len(s)) /\ K \subseteq Int
  BY <1>1
<1>4. IsFiniteSet(K) /\ Cardinality(K) <= Len(s)
  BY <1>2, <1>3, FS_Subset
<1>5. Cardinality(K) \in Nat /\ places \in [1 .. Cardinality(K) -> K]
  <2> HIDE DEF K
  <2> QED BY <1>3, <1>4, AscendingFacts
<1>6. Filtered(s, keep) = [n \in DOMAIN places |-> s[places[n]]]
  BY DEF Filtered
<1>7. \A n \in 1 .. Cardinality(K) : s[places[n]] \in E
  BY <1>1, <1>5
<1>8. Filtered(s, keep) \in [1 .. Cardinality(K) -> E]
  BY <1>5, <1>6, <1>7
<1>9. Filtered(s, keep) \in Seq(E) /\ Len(Filtered(s, keep)) = Cardinality(K)
  <2> HIDE DEF K, places
  <2> QED BY <1>5, <1>8
<1> QED BY <1>4, <1>9

-----------------------------------------------------------------------------
(* Sums: of the first n values of m, and of the values of f on a set of       *)
(* numbers below n.                                                           *)

LEMMA InductionOnNat ==
    ASSUME NEW S, 0 \in S, \A k \in Nat : k \in S => k + 1 \in S
    PROVE  \A k \in Nat : k \in S
<1> SUFFICES ASSUME NEW x \in Nat, x \notin S PROVE FALSE
  OBVIOUS
<1>1. PICK k \in Nat \ S : \A y \in Nat \ S : k <= y
  <2>1. Nat \ S \subseteq Nat /\ Nat \ S # {}
    OBVIOUS
  <2> QED BY <2>1, LeastNumber
<1>2. k - 1 \in Nat /\ k - 1 < k
  OBVIOUS
<1>3. k - 1 \in S
  BY <1>1, <1>2
<1>4. (k - 1) + 1 = k
  OBVIOUS
<1> QED BY <1>1, <1>2, <1>3, <1>4

(* p holds the sums of the first values of m, up to the first n. *)
IsChain(p, m, n) ==
    p \in [0..n -> Int] /\ p[0] = 0 /\ \A k \in 0..(n - 1) : p[k + 1] = p[k] + m[k]

SumTo(m, n) == (CHOOSE p : IsChain(p, m, n))[n]

LEMMA ChainExists ==
    ASSUME NEW m \in [Nat -> Int]
    PROVE  \A n \in Nat : \E p : IsChain(p, m, n)
<1> DEFINE S == {n \in Nat : \E p : IsChain(p, m, n)}
<1>1. 0 \in S
  <2> DEFINE p == [k \in 0..0 |-> 0]
  <2>1. IsChain(p, m, 0)
    BY DEF IsChain
  <2> QED BY <2>1
<1>2. ASSUME NEW n \in Nat, n \in S PROVE n + 1 \in S
  <2>1. PICK p : IsChain(p, m, n)
    BY <1>2
  <2> DEFINE q == [k \in 0..(n + 1) |-> IF k = n + 1 THEN p[n] + m[n] ELSE p[k]]
  <2>2. p \in [0..n -> Int] /\ p[0] = 0 /\ \A k \in 0..(n - 1) : p[k + 1] = p[k] + m[k]
    BY <2>1 DEF IsChain
  <2>3. q \in [0..(n + 1) -> Int]
    <3>1. ASSUME NEW k \in 0..(n + 1) PROVE (IF k = n + 1 THEN p[n] + m[n] ELSE p[k]) \in Int
      <4>1. k = n + 1 \/ k \in 0..n
        OBVIOUS
      <4> QED BY <2>2, <4>1
    <3> QED BY <3>1
  <2>4. q[0] = 0
    BY <2>2
  <2>5. ASSUME NEW k \in 0..((n + 1) - 1) PROVE q[k + 1] = q[k] + m[k]
    <3>1. k \in Nat /\ k \in 0..(n + 1) /\ k + 1 \in 0..(n + 1) /\ k # n + 1
      OBVIOUS
    <3>2. q[k] = p[k]
      BY <3>1
    <3>3. CASE k = n
      BY <3>1, <3>2, <3>3
    <3>4. CASE k # n
      <4>1. k \in 0..(n - 1) /\ k + 1 # n + 1
        BY <3>4
      <4> QED BY <2>2, <3>1, <3>2, <4>1
    <3> QED BY <3>3, <3>4
  <2> HIDE DEF q
  <2>6. IsChain(q, m, n + 1)
    BY <2>3, <2>4, <2>5 DEF IsChain
  <2> QED BY <2>6
<1> HIDE DEF S
<1>3. \A n \in Nat : n \in S
  BY <1>1, <1>2, InductionOnNat
<1> QED BY <1>3 DEF S

LEMMA ChainsCompare ==
    ASSUME NEW m \in [Nat -> Int], NEW l \in [Nat -> Int], NEW n \in Nat,
           NEW p, NEW q, IsChain(p, m, n), IsChain(q, l, n),
           \A k \in 0..(n - 1) : m[k] <= l[k]
    PROVE  p[n] <= q[n]
<1> DEFINE S == {k \in Nat : k <= n => p[k] <= q[k]}
<1>0. p \in [0..n -> Int] /\ q \in [0..n -> Int]
  BY DEF IsChain
<1>1. 0 \in S
  BY DEF IsChain
<1>2. ASSUME NEW k \in Nat, k \in S PROVE k + 1 \in S
  <2> SUFFICES ASSUME k + 1 <= n PROVE p[k + 1] <= q[k + 1]
    OBVIOUS
  <2>1. k \in 0..(n - 1) /\ k \in 0..n /\ k <= n
    OBVIOUS
  <2>2. p[k + 1] = p[k] + m[k] /\ q[k + 1] = q[k] + l[k] /\ m[k] <= l[k]
    BY <2>1 DEF IsChain
  <2>3. p[k] <= q[k]
    BY <1>2, <2>1
  <2>4. p[k] \in Int /\ q[k] \in Int /\ m[k] \in Int /\ l[k] \in Int
    BY <1>0, <2>1
  <2> QED BY <2>2, <2>3, <2>4
<1> HIDE DEF S
<1>3. n \in S
  BY <1>1, <1>2, InductionOnNat
<1> QED BY <1>3 DEF S

LEMMA SumOfChain ==
    ASSUME NEW m \in [Nat -> Int], NEW n \in Nat, NEW p, IsChain(p, m, n)
    PROVE  SumTo(m, n) = p[n] /\ SumTo(m, n) \in Int
<1>1. PICK q : q = CHOOSE x : IsChain(x, m, n)
  OBVIOUS
<1>2. IsChain(q, m, n)
  BY <1>1
<1>3. \A k \in 0..(n - 1) : m[k] <= m[k]
  OBVIOUS
<1>4. p[n] <= q[n] /\ q[n] <= p[n]
  BY <1>2, <1>3, ChainsCompare
<1>5. p[n] \in Int /\ q[n] \in Int
  BY <1>2 DEF IsChain
<1>6. SumTo(m, n) = q[n]
  BY <1>1 DEF SumTo
<1> QED BY <1>4, <1>5, <1>6

LEMMA SumsAdd ==
    ASSUME NEW m \in [Nat -> Int], NEW l \in [Nat -> Int], NEW n \in Nat
    PROVE  SumTo([k \in Nat |-> m[k] + l[k]], n) = SumTo(m, n) + SumTo(l, n)
<1>1. PICK p : IsChain(p, m, n)
  BY ChainExists
<1>2. PICK q : IsChain(q, l, n)
  BY ChainExists
<1> DEFINE r == [k \in 0..n |-> p[k] + q[k]]
           both == [k \in Nat |-> m[k] + l[k]]
<1>3. p \in [0..n -> Int] /\ q \in [0..n -> Int]
  BY <1>1, <1>2 DEF IsChain
<1>4. both \in [Nat -> Int]
  OBVIOUS
<1>5. r \in [0..n -> Int] /\ r[0] = 0
  BY <1>1, <1>2, <1>3 DEF IsChain
<1>6. ASSUME NEW k \in 0..(n - 1) PROVE r[k + 1] = r[k] + both[k]
  <2>1. k \in Nat /\ k \in 0..n /\ k + 1 \in 0..n
    OBVIOUS
  <2>2. p[k + 1] = p[k] + m[k] /\ q[k + 1] = q[k] + l[k]
    BY <1>1, <1>2 DEF IsChain
  <2>3. p[k] \in Int /\ q[k] \in Int /\ m[k] \in Int /\ l[k] \in Int
    BY <1>3, <2>1
  <2> QED BY <2>1, <2>2, <2>3
<1> HIDE DEF r, both
<1>7. IsChain(r, both, n)
  BY <1>5, <1>6 DEF IsChain
<1>8. SumTo(both, n) = r[n] /\ SumTo(m, n) = p[n] /\ SumTo(l, n) = q[n]
  BY <1>1, <1>2, <1>4, <1>7, SumOfChain
<1> QED BY <1>8 DEF both, r

LEMMA SumsScale ==
    ASSUME NEW m \in [Nat -> Int], NEW a \in Int, NEW n \in Nat
    PROVE  SumTo([k \in Nat |-> a * m[k]], n) = a * SumTo(m, n)
<1>1. PICK p : IsChain(p, m, n)
  BY ChainExists
<1> DEFINE r == [k \in 0..n |-> a * p[k]]
           scaled == [k \in Nat |-> a * m[k]]
<1>3. p \in [0..n -> Int]
  BY <1>1 DEF IsChain
<1>4. scaled \in [Nat -> Int]
  OBVIOUS
<1>5. r \in [0..n -> Int] /\ r[0] = 0
  BY <1>1, <1>3 DEF IsChain
<1>6. ASSUME NEW k \in 0..(n - 1) PROVE r[k + 1] = r[k] + scaled[k]
  <2>1. k \in Nat /\ k \in 0..n /\ k + 1 \in 0..n
    OBVIOUS
  <2>2. p[k + 1] = p[k] + m[k]
    BY <1>1 DEF IsChain
  <2>3. p[k] \in Int /\ m[k] \in Int
    BY <1>3, <2>1
  <2>4. a * (p[k] + m[k]) = a * p[k] + a * m[k]
    BY <2>3
  <2> QED BY <2>1, <2>2, <2>4
<1> HIDE DEF r, scaled
<1>7. IsChain(r, scaled, n)
  BY <1>5, <1>6 DEF IsChain
<1>8. SumTo(scaled, n) = r[n] /\ SumTo(m, n) = p[n]
  BY <1>1, <1>4, <1>7, SumOfChain
<1> QED BY <1>8 DEF scaled, r

(* S is a set of numbers below n, and f gives each of them a number. *)
Masked(f, S) == [k \in Nat |-> IF k \in S THEN f[k] ELSE 0]
SumOver(f, S, n) == SumTo(Masked(f, S), n)
Summable(f, S, n) == n \in Nat /\ S \subseteq 0..(n - 1) /\ \A k \in S : f[k] \in Int

LEMMA MaskedType ==
    ASSUME NEW f, NEW S, NEW n, Summable(f, S, n)
    PROVE  Masked(f, S) \in [Nat -> Int] /\ n \in Nat /\ S \subseteq Nat
BY DEF Masked, Summable

LEMMA SumType ==
    ASSUME NEW f, NEW S, NEW n, Summable(f, S, n)
    PROVE  SumOver(f, S, n) \in Int
<1>1. PICK p : IsChain(p, Masked(f, S), n)
  BY MaskedType, ChainExists
<1> QED BY <1>1, MaskedType, SumOfChain DEF SumOver

IsLeq(f, g, S) == \A k \in S : f[k] <= g[k]

LEMMA SumLeq ==
    ASSUME NEW f, NEW g, NEW S, NEW n, Summable(f, S, n), Summable(g, S, n), IsLeq(f, g, S)
    PROVE  SumOver(f, S, n) <= SumOver(g, S, n)
<1>1. PICK m \in [Nat -> Int] : m = Masked(f, S)
  BY MaskedType
<1>2. PICK l \in [Nat -> Int] : l = Masked(g, S)
  BY MaskedType
<1>3. n \in Nat
  BY DEF Summable
<1>4. PICK p : IsChain(p, m, n)
  BY <1>3, ChainExists
<1>5. PICK q : IsChain(q, l, n)
  BY <1>3, ChainExists
<1>6. \A k \in 0..(n - 1) : m[k] <= l[k]
  BY <1>1, <1>2 DEF Masked, IsLeq
<1>7. p[n] <= q[n]
  BY <1>3, <1>4, <1>5, <1>6, ChainsCompare
<1>8. SumTo(m, n) = p[n] /\ SumTo(l, n) = q[n]
  BY <1>3, <1>4, <1>5, SumOfChain
<1> QED BY <1>1, <1>2, <1>7, <1>8 DEF SumOver

IsPlus(h, f, g, S) == \A k \in S : h[k] = f[k] + g[k]

LEMMA SumPlus ==
    ASSUME NEW f, NEW g, NEW h, NEW S, NEW n, Summable(f, S, n), Summable(g, S, n),
           IsPlus(h, f, g, S)
    PROVE  SumOver(h, S, n) = SumOver(f, S, n) + SumOver(g, S, n)
<1>1. PICK m \in [Nat -> Int] : m = Masked(f, S)
  BY MaskedType
<1>2. PICK l \in [Nat -> Int] : l = Masked(g, S)
  BY MaskedType
<1>3. n \in Nat
  BY DEF Summable
<1>4. Masked(h, S) = [k \in Nat |-> m[k] + l[k]]
  BY <1>1, <1>2 DEF Masked, IsPlus
<1>5. SumTo([k \in Nat |-> m[k] + l[k]], n) = SumTo(m, n) + SumTo(l, n)
  BY <1>3, SumsAdd
<1> QED BY <1>1, <1>2, <1>4, <1>5 DEF SumOver

IsTimes(h, a, f, S) == a \in Int /\ \A k \in S : h[k] = a * f[k]

LEMMA SumTimes ==
    ASSUME NEW f, NEW h, NEW a, NEW S, NEW n, Summable(f, S, n), IsTimes(h, a, f, S)
    PROVE  SumOver(h, S, n) = a * SumOver(f, S, n)
<1>1. PICK m \in [Nat -> Int] : m = Masked(f, S)
  BY MaskedType
<1>2. n \in Nat
  BY DEF Summable
<1>3. Masked(h, S) = [k \in Nat |-> a * m[k]]
  BY <1>1 DEF Masked, IsTimes
<1>4. SumTo([k \in Nat |-> a * m[k]], n) = a * SumTo(m, n)
  BY <1>2, SumsScale DEF IsTimes
<1> QED BY <1>1, <1>3, <1>4 DEF SumOver

LEMMA SumUnion ==
    ASSUME NEW f, NEW A, NEW B, NEW n, Summable(f, A \cup B, n), A \cap B = {}
    PROVE  /\ SumOver(f, A \cup B, n) = SumOver(f, A, n) + SumOver(f, B, n)
           /\ Summable(f, A, n) /\ Summable(f, B, n)
<1>1. Summable(f, A, n) /\ Summable(f, B, n)
  BY DEF Summable
<1>2. PICK m \in [Nat -> Int] : m = Masked(f, A)
  BY <1>1, MaskedType
<1>3. PICK l \in [Nat -> Int] : l = Masked(f, B)
  BY <1>1, MaskedType
<1>4. n \in Nat
  BY DEF Summable
<1>5. Masked(f, A \cup B) = [k \in Nat |-> m[k] + l[k]]
  <2>1. \A k \in A \cup B : f[k] \in Int
    BY DEF Summable
  <2> QED BY <1>2, <1>3, <2>1 DEF Masked
<1>6. SumTo([k \in Nat |-> m[k] + l[k]], n) = SumTo(m, n) + SumTo(l, n)
  BY <1>4, SumsAdd
<1> QED BY <1>1, <1>2, <1>3, <1>5, <1>6 DEF SumOver

LEMMA SumSingle ==
    ASSUME NEW f, NEW x, NEW n, Summable(f, {x}, n)
    PROVE  SumOver(f, {x}, n) = f[x]
<1> DEFINE p == [k \in 0..n |-> IF k <= x THEN 0 ELSE f[x]]
<1>1. n \in Nat /\ x \in 0..(n - 1) /\ f[x] \in Int /\ x \in Nat /\ x < n
  BY DEF Summable
<1>2. p \in [0..n -> Int] /\ p[0] = 0 /\ p[n] = f[x]
  BY <1>1
<1>3. PICK m \in [Nat -> Int] : m = Masked(f, {x})
  BY MaskedType
<1>4. ASSUME NEW k \in 0..(n - 1) PROVE p[k + 1] = p[k] + m[k]
  <2>1. k \in Nat /\ k \in 0..n /\ k + 1 \in 0..n
    BY <1>1
  <2>2. m[k] = IF k = x THEN f[x] ELSE 0
    BY <1>3, <2>1 DEF Masked
  <2>3. CASE k < x
    <3>1. k <= x /\ k + 1 <= x /\ k # x
      BY <1>1, <2>1, <2>3
    <3> QED BY <2>1, <2>2, <3>1
  <2>4. CASE k = x
    <3>1. k <= x /\ ~(k + 1 <= x)
      BY <1>1, <2>1, <2>4
    <3> QED BY <1>1, <2>1, <2>2, <2>4, <3>1
  <2>5. CASE k > x
    <3>1. ~(k <= x) /\ ~(k + 1 <= x) /\ k # x
      BY <1>1, <2>1, <2>5
    <3> QED BY <1>1, <2>1, <2>2, <3>1
  <2> QED BY <1>1, <2>1, <2>3, <2>4, <2>5
<1> HIDE DEF p
<1>5. IsChain(p, m, n)
  BY <1>2, <1>4 DEF IsChain
<1>6. SumTo(m, n) = p[n]
  BY <1>1, <1>5, SumOfChain
<1> QED BY <1>2, <1>3, <1>6 DEF SumOver

LEMMA SumEmpty ==
    ASSUME NEW f, NEW n \in Nat
    PROVE  SumOver(f, {}, n) = 0
<1> DEFINE p == [k \in 0..n |-> 0]
<1>0. PICK m : m = Masked(f, {})
  OBVIOUS
<1>1. m \in [Nat -> Int] /\ \A k \in Nat : m[k] = 0
  BY <1>0 DEF Masked
<1>2. p \in [0..n -> Int] /\ p[0] = 0 /\ p[n] = 0 /\ \A k \in 0..(n - 1) : p[k + 1] = p[k] + m[k]
  BY <1>1
<1> HIDE DEF p
<1>3. SumTo(m, n) = p[n]
  BY <1>1, <1>2, SumOfChain DEF IsChain
<1> QED BY <1>0, <1>2, <1>3 DEF SumOver

LEMMA SumWithout ==
    ASSUME NEW f, NEW S, NEW x \in S, NEW n, Summable(f, S, n)
    PROVE  /\ SumOver(f, S, n) = SumOver(f, S \ {x}, n) + f[x]
           /\ Summable(f, S \ {x}, n) /\ SumOver(f, S \ {x}, n) \in Int /\ f[x] \in Int
<1>1. PICK A : A = S \ {x}
  OBVIOUS
<1>2. S = A \cup {x} /\ A \cap {x} = {}
  BY <1>1
<1>3. SumOver(f, S, n) = SumOver(f, A, n) + SumOver(f, {x}, n) /\ Summable(f, A, n) /\ Summable(f, {x}, n)
  BY <1>2, SumUnion
<1>4. SumOver(f, {x}, n) = f[x] /\ SumOver(f, A, n) \in Int /\ f[x] \in Int
  BY <1>3, SumSingle, SumType DEF Summable
<1> QED BY <1>1, <1>3, <1>4

(* Ones: a set of n members has n of them. *)
LEMMA SumOfOnes ==
    ASSUME NEW f, NEW S, NEW n, Summable(f, S, n), \A k \in S : f[k] = 1
    PROVE  SumOver(f, S, n) = Cardinality(S) /\ IsFiniteSet(S)
<1> DEFINE Lower(k) == {x \in S : x < k}
           p == [k \in 0..n |-> Cardinality(Lower(k))]
<1>1. n \in Nat /\ S \subseteq 0..(n - 1) /\ IsFiniteSet(0..(n - 1))
  BY FS_Interval DEF Summable
<1>2. IsFiniteSet(S)
  BY <1>1, FS_Subset
<1>3. \A k \in 0..n : IsFiniteSet(Lower(k)) /\ Cardinality(Lower(k)) \in Nat
  <2>1. \A k \in 0..n : Lower(k) \subseteq S
    OBVIOUS
  <2> HIDE DEF Lower
  <2> QED BY <1>2, <2>1, FS_Subset, FS_CardinalityType
<1>4. p \in [0..n -> Int]
  <2> HIDE DEF Lower
  <2> QED BY <1>3
<1>4a. \A x \in S : x \in Nat /\ x < n /\ ~(x < 0)
  BY <1>1
<1>5. Lower(0) = {} /\ Lower(n) = S
  BY <1>4a
<1>6. p[0] = 0 /\ p[n] = Cardinality(S)
  <2> HIDE DEF Lower
  <2>1. 0 \in 0..n /\ n \in 0..n
    BY <1>1
  <2> QED BY <1>5, <2>1, FS_EmptySet
<1>7. PICK m \in [Nat -> Int] : m = Masked(f, S)
  BY MaskedType
<1>8. ASSUME NEW k \in 0..(n - 1) PROVE p[k + 1] = p[k] + m[k]
  <2>1. k \in Nat /\ k \in 0..n /\ k + 1 \in 0..n
    BY <1>1
  <2>2. CASE k \in S
    <3>1. Lower(k + 1) = Lower(k) \cup {k} /\ k \notin Lower(k)
      <4>1. k < k + 1 /\ ~(k < k) /\ \A x \in S : x < k + 1 <=> (x < k \/ x = k)
        BY <1>4a, <2>1
      <4> QED BY <2>2, <4>1
    <3>2. m[k] = 1
      BY <1>7, <2>1, <2>2 DEF Masked
    <3> HIDE DEF Lower
    <3>3. IsFiniteSet(Lower(k))
      BY <1>3, <2>1
    <3>4. Cardinality(Lower(k + 1)) = Cardinality(Lower(k)) + 1
      BY <3>1, <3>3, FS_AddElement
    <3> QED BY <2>1, <3>2, <3>4
  <2>3. CASE k \notin S
    <3>1. Lower(k + 1) = Lower(k)
      <4>1. \A x \in S : x \in Int /\ (x < k + 1 <=> x < k)
        BY <1>1, <2>1, <2>3
      <4> QED BY <4>1
    <3>2. m[k] = 0
      BY <1>7, <2>1, <2>3 DEF Masked
    <3> HIDE DEF Lower
    <3>3. Cardinality(Lower(k)) \in Nat
      BY <1>3, <2>1
    <3> QED BY <2>1, <3>1, <3>2, <3>3
  <2> QED BY <2>2, <2>3
<1> HIDE DEF p
<1>9. SumTo(m, n) = p[n]
  BY <1>1, <1>4, <1>6, <1>8, SumOfChain DEF IsChain
<1> QED BY <1>2, <1>6, <1>7, <1>9 DEF SumOver

IsConstant(f, a, S) == a \in Int /\ \A k \in S : f[k] = a

LEMMA SumOfConstant ==
    ASSUME NEW f, NEW a, NEW S, NEW n \in Nat, S \subseteq 0..(n - 1), IsConstant(f, a, S)
    PROVE  SumOver(f, S, n) = a * Cardinality(S)
<1> DEFINE ones == [k \in Nat |-> 1]
<1>1. a \in Int /\ \A k \in S : k \in Nat /\ ones[k] = 1 /\ f[k] = a * ones[k]
  BY DEF IsConstant
<1> HIDE DEF ones
<1>2. Summable(ones, S, n)
  BY <1>1 DEF Summable
<1>3. SumOver(ones, S, n) = Cardinality(S)
  BY <1>1, <1>2, SumOfOnes
<1>4. SumOver(f, S, n) = a * SumOver(ones, S, n)
  <2>1. \A k \in S : f[k] = a * ones[k]
    BY <1>1
  <2>2. IsTimes(f, a, ones, S)
    BY <1>1, <2>1 DEF IsTimes
  <2> QED BY <1>2, <2>2, SumTimes
<1> QED BY <1>3, <1>4

(* Where f is 0, it adds nothing. *)
SameOnPart(f, A, g, B) == B \subseteq A /\ \A k \in A : f[k] = IF k \in B THEN g[k] ELSE 0

LEMMA SumRestrict ==
    ASSUME NEW f, NEW g, NEW A, NEW B, NEW n, SameOnPart(f, A, g, B)
    PROVE  SumOver(f, A, n) = SumOver(g, B, n)
<1>1. Masked(f, A) = Masked(g, B)
  BY DEF Masked, SameOnPart
<1> QED BY <1>1 DEF SumOver

LEMMA SumOfPositive ==
    ASSUME NEW f, NEW A, NEW S, NEW n, Summable(f, S, n), A \subseteq S, \A k \in S : f[k] >= 0
    PROVE  /\ 0 <= SumOver(f, A, n) /\ SumOver(f, A, n) <= SumOver(f, S, n)
           /\ Summable(f, A, n) /\ SumOver(f, A, n) \in Int /\ SumOver(f, S, n) \in Int
<1>1. ASSUME NEW B, B \subseteq S PROVE 0 <= SumOver(f, B, n) /\ SumOver(f, B, n) \in Int
  <2> DEFINE zeros == [k \in Nat |-> 0]
  <2>1. Summable(f, B, n) /\ \A k \in B : k \in Nat /\ f[k] \in Int /\ f[k] >= 0
    BY <1>1 DEF Summable
  <2>2. \A k \in B : zeros[k] = 0 /\ zeros[k] \in Int /\ zeros[k] <= f[k]
    BY <2>1
  <2> HIDE DEF zeros
  <2>3. Summable(zeros, B, n)
    BY <2>1, <2>2 DEF Summable
  <2>4. SumOver(zeros, B, n) <= SumOver(f, B, n) /\ SumOver(f, B, n) \in Int
    BY <2>1, <2>2, <2>3, SumLeq, SumType DEF IsLeq
  <2>5. SumOver(zeros, B, n) = SumOver(zeros, {}, n)
    BY <2>2, SumRestrict DEF SameOnPart
  <2>6. n \in Nat
    BY DEF Summable
  <2> QED BY <2>4, <2>5, <2>6, SumEmpty
<1>2. S = A \cup (S \ A) /\ A \cap (S \ A) = {}
  OBVIOUS
<1>3. SumOver(f, S, n) = SumOver(f, A, n) + SumOver(f, S \ A, n)
  <2>1. Summable(f, A \cup (S \ A), n)
    BY <1>2
  <2> QED BY <1>2, <2>1, SumUnion
<1>4. Summable(f, A, n)
  BY DEF Summable
<1>5. 0 <= SumOver(f, A, n) /\ SumOver(f, A, n) \in Int
  BY <1>1
<1>6. 0 <= SumOver(f, S \ A, n) /\ SumOver(f, S \ A, n) \in Int
  BY <1>1
<1> QED BY <1>3, <1>4, <1>5, <1>6
=============================================================================
