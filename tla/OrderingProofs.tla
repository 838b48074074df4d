----------------------------- MODULE OrderingProofs -----------------------------
(***************************************************************************)
(* Lemmas about orders: what Precedes, Ordered and Min return for keys of  *)
(* any length and sets of any size.  Lemmas about finite sets of numbers   *)
(* and their sums, and induction over the naturals and along a fold, with  *)
(* a set in place of the predicate.                                        *)
(***************************************************************************)
EXTENDS Ordering, FiniteSetsExt, FiniteSetTheorems, TLAPS

\* A set of naturals that is not empty has a least element.
LEMMA MinOfNaturals ==
  ASSUME NEW S \in SUBSET Nat, S # {}
  PROVE  Min(S) \in S /\ \A x \in S : Min(S) <= x
<1>1. IsWellFoundedOn(OpToRel(<, Nat), Nat)
  BY NatLessThanWellFounded
<1>2. PICK x \in S : \A y \in S : <<y, x>> \notin OpToRel(<, Nat)
  BY <1>1, WFMin
<1>3. \A y \in S : x <= y
  <2> SUFFICES ASSUME NEW y \in S PROVE x <= y
    OBVIOUS
  <2>1. ~(y < x)
    BY <1>2 DEF OpToRel
  <2> QED
    BY <2>1
<1> QED
  BY <1>3 DEF Min

\* Keys of one length.
Keys(n) == [1..n -> Int]

LEMMA PrecedesIrreflexive ==
  ASSUME NEW n \in Nat, NEW k \in Keys(n)
  PROVE  ~Precedes(k, k)
BY DEF Precedes, Keys

\* Of two different keys one precedes the other.
LEMMA PrecedesTotal ==
  ASSUME NEW n \in Nat, NEW k \in Keys(n), NEW l \in Keys(n), k # l
  PROVE  Precedes(k, l) \/ Precedes(l, k)
<1> DEFINE D == {i \in 1..n : k[i] # l[i]}
<1>1. D \in SUBSET Nat /\ D # {}
  BY SMTT(30) DEF Keys
<1>2. Min(D) \in D /\ \A i \in D : Min(D) <= i
  BY <1>1, MinOfNaturals
<1> DEFINE m == Min(D)
<1>3. m \in 1..n /\ k[m] # l[m] /\ \A j \in 1..(m - 1) : k[j] = l[j]
  BY <1>2
<1> HIDE DEF m
<1>4. k[m] < l[m] \/ l[m] < k[m]
  BY <1>3 DEF Keys
<1> QED
  BY <1>3, <1>4 DEF Precedes, Keys

LEMMA PrecedesTransitive ==
  ASSUME NEW n \in Nat, NEW k \in Keys(n), NEW l \in Keys(n), NEW m \in Keys(n),
         Precedes(k, l), Precedes(l, m)
  PROVE  Precedes(k, m)
<1>1. PICK i \in 1..n : k[i] < l[i] /\ \A j \in 1..(i - 1) : k[j] = l[j]
  BY DEF Precedes, Keys
<1>2. PICK h \in 1..n : l[h] < m[h] /\ \A j \in 1..(h - 1) : l[j] = m[j]
  BY DEF Precedes, Keys
<1>3. /\ k[i] \in Int /\ l[i] \in Int /\ m[i] \in Int
      /\ k[h] \in Int /\ l[h] \in Int /\ m[h] \in Int
  BY DEF Keys
<1>4. CASE i <= h
  <2>1. k[i] < m[i]
    BY <1>1, <1>2, <1>3, <1>4
  <2>2. \A j \in 1..(i - 1) : k[j] = m[j]
    BY <1>1, <1>2, <1>4
  <2> QED
    BY <2>1, <2>2 DEF Precedes, Keys
<1>5. CASE h < i
  <2>1. k[h] < m[h]
    BY <1>1, <1>2, <1>3, <1>5
  <2>2. \A j \in 1..(h - 1) : k[j] = m[j]
    BY <1>1, <1>2, <1>5
  <2> QED
    BY <2>1, <2>2 DEF Precedes, Keys
<1> QED
  BY <1>4, <1>5

--------------------------------------------------------------------------------
\* The elements of S whose key precedes that of x.
Lower(S, K, x) == {y \in S : Precedes(K[y], K[x])}

\* An injective key for every element.
IsKey(K, S, n) == K \in [S -> Keys(n)] /\ \A x, y \in S : K[x] = K[y] => x = y

LEMMA LowerGrows ==
  ASSUME NEW S, IsFiniteSet(S), NEW n \in Nat, NEW K, IsKey(K, S, n),
         NEW x \in S, NEW y \in S, Precedes(K[x], K[y])
  PROVE  Cardinality(Lower(S, K, x)) < Cardinality(Lower(S, K, y))
<1>1. Lower(S, K, x) \subseteq Lower(S, K, y)
  BY PrecedesTransitive DEF Lower, IsKey
<1>2. x \in Lower(S, K, y) /\ x \notin Lower(S, K, x)
  BY PrecedesIrreflexive DEF Lower, IsKey
<1>3. IsFiniteSet(Lower(S, K, y))
  BY FS_Subset DEF Lower
<1>4. /\ Cardinality(Lower(S, K, x)) <= Cardinality(Lower(S, K, y))
      /\ Cardinality(Lower(S, K, x)) # Cardinality(Lower(S, K, y))
  BY <1>1, <1>2, <1>3, FS_Subset
<1>5. Cardinality(Lower(S, K, x)) \in Nat /\ Cardinality(Lower(S, K, y)) \in Nat
  BY <1>1, <1>3, FS_Subset, FS_CardinalityType
<1> QED
  BY <1>4, <1>5

\* Every place in the order is taken by one element.
LEMMA RanksAreTaken ==
  ASSUME NEW S, IsFiniteSet(S), NEW n \in Nat, NEW K, IsKey(K, S, n)
  PROVE  /\ \A x \in S : Cardinality(Lower(S, K, x)) + 1 \in 1..Cardinality(S)
         /\ \A x, y \in S : Cardinality(Lower(S, K, x)) = Cardinality(Lower(S, K, y)) => x = y
         /\ \A i \in 1..Cardinality(S) : \E x \in S : Cardinality(Lower(S, K, x)) = i - 1
<1> DEFINE c == Cardinality(S)
           rank == [x \in S |-> Cardinality(Lower(S, K, x)) + 1]
<1>1. c \in Nat
  BY FS_CardinalityType
<1>2. \A x \in S : Cardinality(Lower(S, K, x)) + 1 \in 1..c
  <2> SUFFICES ASSUME NEW x \in S PROVE Cardinality(Lower(S, K, x)) + 1 \in 1..c
    OBVIOUS
  <2>1. Lower(S, K, x) \subseteq S /\ x \notin Lower(S, K, x)
    BY PrecedesIrreflexive DEF Lower, IsKey
  <2>2. Cardinality(Lower(S, K, x)) <= c /\ Cardinality(Lower(S, K, x)) # c
    BY <2>1, FS_Subset
  <2>3. Cardinality(Lower(S, K, x)) \in Nat
    BY <2>1, FS_Subset, FS_CardinalityType
  <2> QED
    BY <1>1, <2>2, <2>3
<1>3. \A x, y \in S : Cardinality(Lower(S, K, x)) = Cardinality(Lower(S, K, y)) => x = y
  <2> SUFFICES ASSUME NEW x \in S, NEW y \in S, x # y
               PROVE  Cardinality(Lower(S, K, x)) # Cardinality(Lower(S, K, y))
    OBVIOUS
  <2>1. Precedes(K[x], K[y]) \/ Precedes(K[y], K[x])
    BY PrecedesTotal DEF IsKey
  <2>2. Cardinality(Lower(S, K, x)) \in Nat /\ Cardinality(Lower(S, K, y)) \in Nat
    <3>1. IsFiniteSet(Lower(S, K, x)) /\ IsFiniteSet(Lower(S, K, y))
      BY FS_Subset DEF Lower
    <3> QED
      BY <3>1, FS_CardinalityType
  <2> QED
    BY <2>1, <2>2, LowerGrows
<1>4. rank \in Injection(S, 1..c)
  <2>1. rank \in [S -> 1..c]
    BY <1>2
  <2>2. \A x \in S : Cardinality(Lower(S, K, x)) \in Nat
    BY FS_Subset, FS_CardinalityType DEF Lower
  <2>3. \A x, y \in S : rank[x] = rank[y] => x = y
    BY <1>3, <2>2
  <2> HIDE DEF rank
  <2> QED
    BY <2>1, <2>3 DEF Injection, IsInjective
<1>5. IsFiniteSet(1..c) /\ Cardinality(1..c) = c
  BY <1>1, FS_Interval
<1>6. rank \in Surjection(S, 1..c)
  BY <1>4, <1>5, FS_Injection
<1>7. \A i \in 1..c : \E x \in S : rank[x] = i
  BY <1>6 DEF Surjection
<1>8. \A x \in S : Cardinality(Lower(S, K, x)) \in Nat
  BY FS_Subset, FS_CardinalityType DEF Lower
<1> QED
  BY <1>2, <1>3, <1>7, <1>8

\* f lists the elements of S once, in the order of their keys.
Lists(f, S) ==
  /\ f \in [1..Cardinality(S) -> S]
  /\ \A x \in S : \E i \in DOMAIN f : f[i] = x
  /\ \A i, j \in DOMAIN f : f[i] = f[j] => i = j
Sorts(f, S, K) == Lists(f, S) /\ \A i, j \in DOMAIN f : i < j => Precedes(K[f[i]], K[f[j]])

\* What Ordered returns, for a key that tells the elements apart.
LEMMA OrderedSorts ==
  ASSUME NEW S, IsFiniteSet(S), NEW n \in Nat, NEW K, IsKey(K, S, n)
  PROVE  Sorts(Ordered(K), S, K)
<1> DEFINE c == Cardinality(S)
           At(i) == CHOOSE x \in S : Cardinality(Lower(S, K, x)) = i - 1
           f == Ordered(K)
<1>1. c \in Nat
  BY FS_CardinalityType
<1>2. f = [i \in 1..c |-> At(i)]
  <2>1. DOMAIN K = S
    BY DEF IsKey
  <2> QED
    BY <2>1 DEF Ordered, Lower
<1>3. \A i \in 1..c : At(i) \in S /\ Cardinality(Lower(S, K, At(i))) = i - 1
  BY RanksAreTaken
<1> HIDE DEF At, f
<1>4. DOMAIN f = 1..c /\ \A i \in 1..c : f[i] \in S /\ Cardinality(Lower(S, K, f[i])) = i - 1
  BY <1>2, <1>3
<1>5. f \in [1..c -> S]
  BY <1>2, <1>3
<1>6. \A x \in S : Cardinality(Lower(S, K, x)) \in Nat
  BY FS_Subset, FS_CardinalityType DEF Lower
<1>7. \A x \in S : \E i \in 1..c : f[i] = x
  <2> SUFFICES ASSUME NEW x \in S PROVE \E i \in 1..c : f[i] = x
    OBVIOUS
  <2> DEFINE i == Cardinality(Lower(S, K, x)) + 1
  <2>1. i \in 1..c
    BY RanksAreTaken
  <2>2. f[i] \in S /\ Cardinality(Lower(S, K, f[i])) = i - 1
    BY <1>4, <2>1
  <2>3. i - 1 = Cardinality(Lower(S, K, x))
    BY <1>6
  <2>4. f[i] = x
    BY <2>2, <2>3, RanksAreTaken
  <2> QED
    BY <2>1, <2>4
<1>8. \A i, j \in 1..c : f[i] = f[j] => i = j
  BY <1>1, <1>4
<1>9. \A i, j \in 1..c : i < j => Precedes(K[f[i]], K[f[j]])
  <2> SUFFICES ASSUME NEW i \in 1..c, NEW j \in 1..c, i < j
               PROVE  Precedes(K[f[i]], K[f[j]])
    OBVIOUS
  <2>1. ~Precedes(K[f[j]], K[f[i]])
    <3> SUFFICES ASSUME Precedes(K[f[j]], K[f[i]]) PROVE FALSE
      OBVIOUS
    <3>1. Cardinality(Lower(S, K, f[j])) < Cardinality(Lower(S, K, f[i]))
      BY <1>4, LowerGrows
    <3> QED
      BY <1>1, <1>4, <3>1
  <2>2. f[i] # f[j]
    BY <1>8
  <2>3. K[f[i]] \in Keys(n) /\ K[f[j]] \in Keys(n) /\ K[f[i]] # K[f[j]]
    BY <1>4, <2>2 DEF IsKey
  <2> QED
    BY <2>1, <2>3, PrecedesTotal
<1> QED
  BY <1>5, <1>7, <1>8, <1>9 DEF Sorts, Lists, f

LEMMA ListsRange ==
  ASSUME NEW S, NEW f, Lists(f, S), IsFiniteSet(S)
  PROVE  f \in Seq(S) /\ Len(f) = Cardinality(S) /\ Range(f) = S
<1>1. Cardinality(S) \in Nat
  BY FS_CardinalityType
<1>2. DOMAIN f = 1..Cardinality(S)
  BY DEF Lists
<1> QED
  BY <1>1, <1>2 DEF Lists, Range

\* Tuples of integers are keys.
LEMMA KeysOfTwo == \A a, b \in Int : <<a, b>> \in Keys(2)
BY DEF Keys
LEMMA KeysOfThree == \A a, b, c \in Int : <<a, b, c>> \in Keys(3)
BY DEF Keys
LEMMA KeysOfFive == \A a, b, c, d, e \in Int : <<a, b, c, d, e>> \in Keys(5)
BY DEF Keys

\* What is in order stays as it is.
LEMMA OrderedStays ==
  ASSUME NEW n \in Nat, NEW m \in Nat, NEW K, IsKey(K, 1..n, m),
         \A i, j \in 1..n : i < j => Precedes(K[i], K[j])
  PROVE  Ordered(K) = [i \in 1..n |-> i]
<1> DEFINE f == Ordered(K)
<1>1. IsFiniteSet(1..n) /\ Cardinality(1..n) = n
  BY FS_Interval
<1>2. Sorts(f, 1..n, K)
  BY <1>1, OrderedSorts
<1>3. /\ f \in [1..n -> 1..n] /\ \A x \in 1..n : \E i \in 1..n : f[i] = x
      /\ \A i, j \in 1..n : f[i] = f[j] => i = j
      /\ \A i, j \in 1..n : i < j => Precedes(K[f[i]], K[f[j]])
  BY <1>1, <1>2 DEF Sorts, Lists
<1> HIDE DEF f
<1>4. \A i, j \in 1..n : i < j => f[i] < f[j]
  <2> SUFFICES ASSUME NEW i \in 1..n, NEW j \in 1..n, i < j, ~(f[i] < f[j]) PROVE FALSE
    OBVIOUS
  <2>1. f[i] \in 1..n /\ f[j] \in 1..n /\ Precedes(K[f[i]], K[f[j]])
    BY <1>3
  <2>2. f[j] < f[i]
    BY <1>3, <2>1
  <2>3. K[f[i]] \in Keys(m) /\ K[f[j]] \in Keys(m)
    BY <2>1 DEF IsKey
  <2>4. Precedes(K[f[j]], K[f[i]])
    BY <2>1, <2>2
  <2>5. Precedes(K[f[i]], K[f[i]])
    BY <2>1, <2>3, <2>4, PrecedesTransitive
  <2> QED
    BY <2>3, <2>5, PrecedesIrreflexive
<1>5. \A i \in 1..n : f[i] = i
  <2> SUFFICES ASSUME NEW k \in 1..n, f[k] # k PROVE FALSE
    OBVIOUS
  <2> DEFINE D == {i \in 1..n : f[i] # i}
  <2>1. D \in SUBSET Nat /\ D # {}
    OBVIOUS
  <2>2. PICK i \in D : \A j \in D : i <= j
    BY <2>1, MinOfNaturals
  <2>3. i \in 1..n /\ f[i] # i /\ \A j \in 1..n : j < i => f[j] = j
    BY <2>2
  <2> HIDE DEF D
  <2>4. PICK j \in 1..n : f[j] = i
    BY <1>3, <2>3
  <2>5. i < j
    BY <2>3, <2>4
  <2>6. f[i] \in 1..n /\ f[i] < i
    BY <1>3, <1>4, <2>3, <2>4, <2>5
  <2>7. f[f[i]] = f[i]
    BY <2>3, <2>6
  <2> QED
    BY <1>3, <2>3, <2>6, <2>7
<1>6. f = [i \in 1..n |-> f[i]]
  BY <1>3
<1> QED
  BY <1>5, <1>6 DEF f

\* Keys of a single number.
LEMMA KeysOfOne == \A a \in Int : <<a>> \in Keys(1)
BY DEF Keys

\* Numbers as their own keys.
LEMMA NumbersInOrder ==
  ASSUME NEW S \in SUBSET Int, IsFiniteSet(S)
  PROVE  Lists(Ordered([i \in S |-> <<i>>]), S)
<1> DEFINE K == [i \in S |-> <<i>>]
<1>1. IsKey(K, S, 1)
  <2>1. \A i \in S : <<i>> \in Keys(1)
    BY KeysOfOne
  <2>2. \A i, j \in S : <<i>> = <<j>> => i = j
    OBVIOUS
  <2> QED
    BY <2>1, <2>2 DEF IsKey
<1> HIDE DEF K
<1>2. Lists(Ordered(K), S)
  BY <1>1, OrderedSorts DEF Sorts
<1> QED
  BY <1>2 DEF K

\* The numbers of a set, one after the other.
InLine(S, f) ==
  /\ f \in Seq(S) /\ \A k, l \in 1..Len(f) : k < l => f[k] < f[l]
  /\ \A x \in S : \E k \in 1..Len(f) : f[k] = x

LEMMA NumbersInLine ==
  ASSUME NEW S \in SUBSET Int, IsFiniteSet(S)
  PROVE  InLine(S, Ordered([i \in S |-> <<i>>]))
<1> DEFINE K == [i \in S |-> <<i>>]
           f == Ordered(K)
           n == Cardinality(S)
<1>1. IsKey(K, S, 1)
  <2>1. \A i \in S : <<i>> \in Keys(1)
    BY KeysOfOne
  <2>2. \A i, j \in S : <<i>> = <<j>> => i = j
    OBVIOUS
  <2> QED
    BY <2>1, <2>2 DEF IsKey
<1>2. \A i \in S : K[i] = <<i>>
  OBVIOUS
<1> HIDE DEF K
<1>3. n \in Nat /\ Sorts(f, S, K)
  BY <1>1, OrderedSorts, FS_CardinalityType
<1> HIDE DEF f, n
<1>4. /\ f \in [1..n -> S] /\ \A x \in S : \E i \in 1..n : f[i] = x
      /\ \A i, j \in 1..n : i < j => Precedes(K[f[i]], K[f[j]])
  BY <1>3 DEF Sorts, Lists, n
<1>5. \A a, b \in S : Precedes(<<a>>, <<b>>) => a < b
  <2> SUFFICES ASSUME NEW a \in S, NEW b \in S, Precedes(<<a>>, <<b>>) PROVE a < b
    OBVIOUS
  <2>1. PICK i \in DOMAIN <<a>> : <<a>>[i] < <<b>>[i]
    BY DEF Precedes
  <2>2. i = 1
    BY <2>1
  <2> QED
    BY <2>1, <2>2
<1>6. f \in Seq(S) /\ Len(f) = n
  BY <1>3, <1>4
<1>7. \A k, l \in 1..n : k < l => f[k] < f[l]
  <2> SUFFICES ASSUME NEW k \in 1..n, NEW l \in 1..n, k < l PROVE f[k] < f[l]
    OBVIOUS
  <2>1. f[k] \in S /\ f[l] \in S /\ Precedes(K[f[k]], K[f[l]])
    BY <1>4
  <2>2. Precedes(<<f[k]>>, <<f[l]>>)
    BY <1>2, <2>1
  <2> QED
    BY <1>5, <2>1, <2>2
<1>8. InLine(S, f)
  BY <1>4, <1>6, <1>7 DEF InLine
<1> QED
  BY <1>8 DEF f, K

--------------------------------------------------------------------------------
\* Sets of numbers.

\* Max of a few numbers is the greatest of them.
LEMMA MaxOfThree ==
  ASSUME NEW a \in Int, NEW b \in Int, NEW c \in Int
  PROVE  LET m == Max({a, b, c}) IN m \in {a, b, c} /\ a <= m /\ b <= m /\ c <= m
<1>1. \E x \in {a, b, c} : \A y \in {a, b, c} : x >= y
  BY Z3
<1> QED
  BY <1>1 DEF Max

LEMMA MaxOfTwo ==
  ASSUME NEW a \in Nat, NEW b \in Nat
  PROVE  Max({a, b}) = IF a <= b THEN b ELSE a
<1>1. {a, b} = {a, b, b}
  OBVIOUS
<1>2. LET m == Max({a, b}) IN m \in {a, b} /\ a <= m /\ b <= m
  BY <1>1, MaxOfThree
<1> QED
  BY <1>2

\* A set of numbers up to a bound has a greatest element.
LEMMA LastNumber ==
  ASSUME NEW n \in Nat, NEW S \in SUBSET (1..n), S # {}
  PROVE  \E m \in S : \A i \in S : i <= m
<1> DEFINE D == {n - i : i \in S}
<1>1. D \in SUBSET Nat /\ D # {}
  <2>1. \A i \in S : n - i \in Nat
    OBVIOUS
  <2>2. \E i \in S : n - i \in D
    OBVIOUS
  <2> QED
    BY <2>1, <2>2
<1>2. PICK d \in D : \A e \in D : d <= e
  BY <1>1, MinOfNaturals
<1>3. PICK m \in S : d = n - m
  BY <1>2
<1>4. \A i \in S : n - i \in D
  OBVIOUS
<1>5. \A i \in S : n - m <= n - i
  BY <1>2, <1>3, <1>4
<1>6. \A i \in S : i <= m
  BY <1>5
<1> QED
  BY <1>6

\* Two finite sets without a common element.
LEMMA DisjointUnion ==
  ASSUME NEW A, IsFiniteSet(A), NEW B, IsFiniteSet(B), A \cap B = {}
  PROVE  IsFiniteSet(A \cup B) /\ Cardinality(A \cup B) = Cardinality(A) + Cardinality(B)
<1>1. Cardinality(A \cap B) = 0
  BY FS_EmptySet
<1>2. Cardinality(A) \in Nat /\ Cardinality(B) \in Nat
  BY FS_CardinalityType
<1>3. /\ IsFiniteSet(A \cup B)
      /\ Cardinality(A \cup B) = Cardinality(A) + Cardinality(B) - Cardinality(A \cap B)
  BY FS_Union
<1> QED
  BY <1>1, <1>2, <1>3

--------------------------------------------------------------------------------
\* Induction.

\* Induction with a set in place of a predicate.
LEMMA SetOfNaturals ==
  ASSUME NEW S \in SUBSET Nat, 0 \in S, \A n \in S : n + 1 \in S
  PROVE  S = Nat
<1> DEFINE D == Nat \ S
<1>1. SUFFICES ASSUME D # {} PROVE FALSE
  OBVIOUS
<1>2. Min(D) \in D /\ \A n \in D : Min(D) <= n
  BY <1>1, MinOfNaturals
<1>3. Min(D) # 0 /\ Min(D) \in Nat
  BY <1>2
<1>4. Min(D) - 1 \in S
  BY <1>2, <1>3
<1> QED
  BY <1>2, <1>3, <1>4

\* Steps that begin with a and lead from one value to the next.
AreSteps(n, S, a, G) == n \in Nat /\ a \in S /\ G \in [(1..n) \X S -> S]
Follows(f, n, S, a, G) ==
  f \in [0..n -> S] /\ f[0] = a /\ \A i \in 1..n : f[i] = G[<<i, f[i - 1]>>]

\* A function that is defined step by step exists.
LEMMA StepsExist ==
  ASSUME NEW n, NEW S, NEW a, NEW G, AreSteps(n, S, a, G)
  PROVE  \E f : Follows(f, n, S, a, G)
<1> USE DEF AreSteps
<1> DEFINE Right(f, m) == f[0] = a /\ \A i \in 1..n : i <= m => f[i] = G[<<i, f[i - 1]>>]
           Q == {m \in Nat : \E f \in [0..n -> S] : Right(f, m)}
<1>1. 0 \in Q
  <2>1. [i \in 0..n |-> a] \in [0..n -> S] /\ Right([i \in 0..n |-> a], 0)
    OBVIOUS
  <2> HIDE DEF Right
  <2> QED
    BY <2>1
<1>2. ASSUME NEW m \in Q PROVE m + 1 \in Q
  <2>1. PICK f \in [0..n -> S] : Right(f, m)
    OBVIOUS
  <2> DEFINE g == [i \in 0..n |-> IF i = m + 1 THEN G[<<i, f[i - 1]>>] ELSE f[i]]
  <2>2. g \in [0..n -> S]
    <3> SUFFICES ASSUME NEW i \in 0..n PROVE (IF i = m + 1 THEN G[<<i, f[i - 1]>>] ELSE f[i]) \in S
      OBVIOUS
    <3>1. CASE i = m + 1
      <4>1. i \in 1..n /\ i - 1 \in 0..n
        BY <3>1
      <4>2. <<i, f[i - 1]>> \in (1..n) \X S
        BY <4>1
      <4> QED
        BY <3>1, <4>2
    <3>2. CASE i # m + 1
      BY <3>2
    <3> QED
      BY <3>1, <3>2
  <2>3. m + 1 \in Nat /\ \A i \in 0..n : i # m + 1 => g[i] = f[i]
    OBVIOUS
  <2>4. \A i \in 1..n : i = m + 1 => g[i] = G[<<i, f[i - 1]>>]
    OBVIOUS
  <2> HIDE DEF g
  <2>5. g[0] = a
    BY <2>1, <2>3
  <2>6. ASSUME NEW i \in 1..n, i <= m + 1 PROVE g[i] = G[<<i, g[i - 1]>>]
    <3>1. i - 1 \in 0..n /\ i - 1 # m + 1
      BY <2>6
    <3>2. g[i - 1] = f[i - 1]
      BY <2>3, <3>1
    <3>3. CASE i = m + 1
      BY <2>4, <3>2, <3>3
    <3>4. CASE i # m + 1
      BY <2>1, <2>3, <2>6, <3>2, <3>4
    <3> QED
      BY <3>3, <3>4
  <2>7. Right(g, m + 1)
    BY <2>5, <2>6
  <2> HIDE DEF Right
  <2> QED
    BY <2>2, <2>3, <2>7
<1>3. n \in Q
  <2>1. Q \in SUBSET Nat
    OBVIOUS
  <2> HIDE DEF Q
  <2>2. Q = Nat
    BY <1>1, <1>2, <2>1, SetOfNaturals
  <2> QED
    BY <2>2
<1>4. PICK f \in [0..n -> S] : Right(f, n)
  BY <1>3
<1>5. \A i \in 1..n : i <= n
  OBVIOUS
<1> QED
  BY <1>4, <1>5 DEF Follows

\* The element that a fold takes first, and what is left.
First(T) == CHOOSE x \in T : TRUE
Rest(T) == T \ {First(T)}

\* What a fold has left is one element less.
LEMMA RestIsSmaller ==
  ASSUME NEW T, IsFiniteSet(T), T # {}
  PROVE  /\ First(T) \in T /\ T = Rest(T) \cup {First(T)} /\ First(T) \notin Rest(T)
         /\ IsFiniteSet(Rest(T)) /\ Cardinality(Rest(T)) = Cardinality(T) - 1
<1>1. First(T) \in T
  BY DEF First
<1> QED
  BY <1>1, FS_RemoveElement DEF Rest

\* Induction along a fold.
LEMMA FoldInduction ==
  ASSUME NEW S, IsFiniteSet(S), NEW P \in SUBSET SUBSET S, {} \in P,
         \A T \in SUBSET S : T # {} /\ Rest(T) \in P => T \in P
  PROVE  P = SUBSET S
<1> DEFINE Q == {n \in Nat : \A T \in SUBSET S : Cardinality(T) = n => T \in P}
<1>1. \A T \in SUBSET S : IsFiniteSet(T) /\ Cardinality(T) \in Nat
  BY FS_Subset, FS_CardinalityType
<1>2. 0 \in Q
  BY <1>1, FS_EmptySet
<1>3. ASSUME NEW n \in Q PROVE n + 1 \in Q
  <2> SUFFICES ASSUME NEW T \in SUBSET S, Cardinality(T) = n + 1 PROVE T \in P
    OBVIOUS
  <2>1. T # {}
    BY FS_EmptySet
  <2>2. Rest(T) \in SUBSET S /\ Cardinality(Rest(T)) = n
    BY <1>1, <2>1, RestIsSmaller
  <2> QED
    BY <2>1, <2>2
<1> HIDE DEF Q
<1>4. Q = Nat
  <2>1. Q \in SUBSET Nat
    BY DEF Q
  <2> QED
    BY <1>2, <1>3, <2>1, SetOfNaturals
<1> QED
  BY <1>1, <1>4 DEF Q

\* What a fold over S is of every part of S.
IsFold(f, S, base, joined) ==
  \A T \in SUBSET S : f[T] = IF T = {} THEN base ELSE joined[<<First(T), f[Rest(T)]>>]

\* A fold over a finite set has a value for every part of the set.
LEMMA FoldExists ==
  ASSUME NEW S, IsFiniteSet(S), NEW B, NEW base \in B, NEW joined \in [S \X B -> B]
  PROVE  \E f \in [SUBSET S -> B] : IsFold(f, S, base, joined)
<1> DEFINE Value(f, T) == IF T = {} THEN base ELSE joined[<<First(T), f[Rest(T)]>>]
           Q == {n \in Nat : \E f \in [SUBSET S -> B] : \A T \in SUBSET S :
                               Cardinality(T) <= n => f[T] = Value(f, T)}
<1>1. \A T \in SUBSET S : IsFiniteSet(T) /\ Cardinality(T) \in Nat
  BY FS_Subset, FS_CardinalityType
<1>2. \A T \in SUBSET S : T # {} =>
        Rest(T) \in SUBSET S /\ First(T) \in S /\ Cardinality(Rest(T)) = Cardinality(T) - 1
  BY <1>1, RestIsSmaller
<1>3. 0 \in Q
  <2> DEFINE f == [T \in SUBSET S |-> base]
  <2>1. \A T \in SUBSET S : Cardinality(T) <= 0 => T = {}
    BY <1>1, FS_EmptySet
  <2>2. f \in [SUBSET S -> B] /\ \A T \in SUBSET S : Cardinality(T) <= 0 => f[T] = Value(f, T)
    BY <2>1
  <2> HIDE DEF f
  <2> QED
    BY <2>2
<1>4. ASSUME NEW n \in Q PROVE n + 1 \in Q
  <2>1. PICK f \in [SUBSET S -> B] : \A T \in SUBSET S : Cardinality(T) <= n => f[T] = Value(f, T)
    OBVIOUS
  <2> DEFINE g == [T \in SUBSET S |-> Value(f, T)]
  <2>2. g \in [SUBSET S -> B]
    <3>1. \A T \in SUBSET S : Value(f, T) \in B
      BY <1>2
    <3> QED
      BY <3>1
  <2>3. ASSUME NEW T \in SUBSET S, Cardinality(T) <= n + 1 PROVE g[T] = Value(g, T)
    <3>1. CASE T = {}
      BY <3>1
    <3>2. CASE T # {}
      <4>1. Rest(T) \in SUBSET S /\ Cardinality(Rest(T)) <= n
        BY <1>1, <1>2, <2>3, <3>2
      <4>2. f[Rest(T)] = g[Rest(T)]
        BY <2>1, <4>1
      <4> QED
        BY <4>2
    <3> QED
      BY <3>1, <3>2
  <2> HIDE DEF g, Value
  <2> QED
    BY <2>2, <2>3
<1> HIDE DEF Q
<1>5. Cardinality(S) \in Q
  <2>1. Q \in SUBSET Nat
    BY DEF Q
  <2>2. Q = Nat
    BY <1>3, <1>4, <2>1, SetOfNaturals
  <2> QED
    BY <1>1, <2>2
<1>6. PICK f \in [SUBSET S -> B] : \A T \in SUBSET S :
        Cardinality(T) <= Cardinality(S) => f[T] = Value(f, T)
  BY <1>5 DEF Q
<1>7. \A T \in SUBSET S : Cardinality(T) <= Cardinality(S)
  BY FS_Subset
<1> QED
  BY <1>6, <1>7 DEF IsFold

--------------------------------------------------------------------------------
\* Sums over a finite set.

\* f has the sum of w over every part of S, as a fold adds it up.
SumsUp(f, w, S) ==
  f = [T \in SUBSET S |-> IF T = {} THEN 0 ELSE w[First(T)] + f[Rest(T)]]

LEMMA SumExists ==
  ASSUME NEW S, IsFiniteSet(S), NEW w \in [S -> Nat]
  PROVE  \E f : SumsUp(f, w, S)
<1> DEFINE joined == [x \in S \X Nat |-> w[x[1]] + x[2]]
<1>1. joined \in [S \X Nat -> Nat]
  OBVIOUS
<1> HIDE DEF joined
<1>2. PICK f \in [SUBSET S -> Nat] : IsFold(f, S, 0, joined)
  BY <1>1, FoldExists
<1>3. ASSUME NEW T \in SUBSET S, T # {}
      PROVE  joined[<<First(T), f[Rest(T)]>>] = w[First(T)] + f[Rest(T)]
  <2>1. First(T) \in S /\ Rest(T) \in SUBSET S
    BY <1>3 DEF First, Rest
  <2> QED
    BY <2>1 DEF joined
<1>4. SumsUp(f, w, S)
  BY <1>2, <1>3 DEF IsFold, SumsUp
<1> QED
  BY <1>4

LEMMA SumType ==
  ASSUME NEW S, IsFiniteSet(S), NEW w \in [S -> Nat], NEW f, SumsUp(f, w, S)
  PROVE  f \in [SUBSET S -> Nat] /\ f[{}] = 0
<1> DEFINE P == {T \in SUBSET S : f[T] \in Nat}
<1>1. {} \in P
  BY DEF SumsUp
<1>2. ASSUME NEW T \in SUBSET S, T # {}, Rest(T) \in P PROVE T \in P
  <2>1. First(T) \in S
    BY <1>2 DEF First
  <2>2. f[T] = w[First(T)] + f[Rest(T)]
    BY <1>2 DEF SumsUp
  <2> QED
    BY <1>2, <2>1, <2>2
<1> HIDE DEF P
<1>3. P = SUBSET S
  <2>1. P \in SUBSET SUBSET S
    BY DEF P
  <2> QED
    BY <1>1, <1>2, <2>1, FoldInduction
<1>4. \A T \in SUBSET S : f[T] \in Nat
  BY <1>3 DEF P
<1> QED
  BY <1>4 DEF SumsUp

\* Any element may be added last.
LEMMA SumOfOneMore ==
  ASSUME NEW S, IsFiniteSet(S), NEW w \in [S -> Nat], NEW f, SumsUp(f, w, S),
         NEW T \in SUBSET S, NEW x \in T
  PROVE  f[T] = w[x] + f[T \ {x}]
<1> DEFINE Q == {n \in Nat : \A U \in SUBSET S : Cardinality(U) = n =>
                      \A y \in U : f[U] = w[y] + f[U \ {y}]}
<1>1. f \in [SUBSET S -> Nat]
  BY SumType
<1>2. \A U \in SUBSET S : IsFiniteSet(U) /\ Cardinality(U) \in Nat
  BY FS_Subset, FS_CardinalityType
<1>3. \A U \in SUBSET S : \A y \in U :
        U \ {y} \in SUBSET S /\ Cardinality(U \ {y}) = Cardinality(U) - 1
  BY <1>2, FS_RemoveElement
<1>4. 0 \in Q
  BY <1>2, FS_EmptySet
<1>5. ASSUME NEW n \in Q PROVE n + 1 \in Q
  <2> SUFFICES ASSUME NEW U \in SUBSET S, Cardinality(U) = n + 1, NEW y \in U
               PROVE  f[U] = w[y] + f[U \ {y}]
    OBVIOUS
  <2> DEFINE z == First(U)
  <2>1. z \in U /\ f[U] = w[z] + f[U \ {z}]
    BY DEF SumsUp, First, Rest
  <2>2. CASE y = z
    BY <2>1, <2>2
  <2>3. CASE y # z
    <3> HIDE DEF z
    <3> DEFINE A == U \ {z}
               B == U \ {y}
               C == U \ {y, z}
    <3>1. /\ A \in SUBSET S /\ Cardinality(A) = n /\ y \in A /\ A \ {y} = C
          /\ B \in SUBSET S /\ Cardinality(B) = n /\ z \in B /\ B \ {z} = C
      BY <1>3, <2>1, <2>3
    <3>2. C \in SUBSET S /\ w[y] \in Nat /\ w[z] \in Nat
      BY <2>1
    <3> HIDE DEF A, B, C
    <3>3. f[A] = w[y] + f[C] /\ f[B] = w[z] + f[C]
      BY <3>1
    <3>4. f[C] \in Nat
      BY <1>1, <3>2
    <3>5. f[U] = w[z] + f[A]
      BY <2>1 DEF A
    <3>6. f[U] = w[y] + f[B]
      BY <3>2, <3>3, <3>4, <3>5
    <3> QED
      BY <3>6 DEF B
  <2> QED
    BY <2>2, <2>3
<1> HIDE DEF Q
<1>6. Q = Nat
  <2>1. Q \in SUBSET Nat
    BY DEF Q
  <2> QED
    BY <1>4, <1>5, <2>1, SetOfNaturals
<1> QED
  BY <1>2, <1>6 DEF Q

\* The sum over what is added is not less.
LEMMA SumGrows ==
  ASSUME NEW S, IsFiniteSet(S), NEW w \in [S -> Nat], NEW f, SumsUp(f, w, S),
         NEW T \in SUBSET S
  PROVE  f[T] <= f[S]
<1> DEFINE Q == {n \in Nat : \A U \in SUBSET S : Cardinality(S \ U) = n => f[U] <= f[S]}
<1>1. f \in [SUBSET S -> Nat]
  BY SumType
<1>2. \A U \in SUBSET S : IsFiniteSet(S \ U) /\ Cardinality(S \ U) \in Nat
  BY FS_Subset, FS_CardinalityType
<1>3. 0 \in Q
  <2> SUFFICES ASSUME NEW U \in SUBSET S, Cardinality(S \ U) = 0 PROVE f[U] <= f[S]
    OBVIOUS
  <2>1. S \ U = {}
    BY <1>2, FS_EmptySet
  <2>2. U = S
    BY <2>1
  <2> QED
    BY <1>1, <2>2
<1>4. ASSUME NEW n \in Q PROVE n + 1 \in Q
  <2> SUFFICES ASSUME NEW U \in SUBSET S, Cardinality(S \ U) = n + 1 PROVE f[U] <= f[S]
    OBVIOUS
  <2>1. n \in Nat /\ S \ U # {}
    <3>1. n \in Nat /\ n + 1 # 0
      OBVIOUS
    <3>2. Cardinality(S \ U) # Cardinality({})
      BY <3>1, FS_EmptySet, Zenon
    <3> QED
      BY <3>1, <3>2, Zenon
  <2>5. PICK x \in S \ U : TRUE
    BY <2>1
  <2> DEFINE V == U \cup {x}
  <2>2. V \in SUBSET S /\ S \ V = (S \ U) \ {x} /\ x \in V /\ V \ {x} = U
    BY <2>5
  <2>3. Cardinality(S \ V) = n
    <3>1. IsFiniteSet(S \ U) /\ x \in S \ U
      BY <1>2, <2>5
    <3>2. Cardinality((S \ U) \ {x}) = Cardinality(S \ U) - 1
      BY <3>1, FS_RemoveElement
    <3>3. Cardinality(S \ V) = Cardinality(S \ U) - 1
      BY <2>2, <3>2, Zenon
    <3> HIDE DEF V, Q
    <3> QED
      BY <2>1, <3>3
  <2> HIDE DEF V
  <2>4. f[V] <= f[S] /\ f[V] = w[x] + f[U]
    BY <2>2, <2>3, SumOfOneMore
  <2> QED
    BY <1>1, <2>5, <2>2, <2>4
<1> HIDE DEF Q
<1>5. Q = Nat
  <2>1. Q \in SUBSET Nat
    BY DEF Q
  <2> QED
    BY <1>3, <1>4, <2>1, SetOfNaturals
<1> QED
  BY <1>2, <1>5 DEF Q

\* Each summand of v is found in w, at a place of its own or it is 0.
LEMMA SumOfPart ==
  ASSUME NEW S, IsFiniteSet(S), NEW v \in [S -> Nat], NEW e, SumsUp(e, v, S),
         NEW R, IsFiniteSet(R), NEW w \in [R -> Nat], NEW f, SumsUp(f, w, R),
         NEW M \in SUBSET S, NEW g \in [M -> R],
         \A i, j \in M : g[i] = g[j] => i = j,
         \A i \in M : v[i] <= w[g[i]],
         \A i \in S \ M : v[i] = 0
  PROVE  e[S] <= f[R]
<1> DEFINE Image(T) == {g[i] : i \in T \cap M}
           P == {T \in SUBSET S : e[T] <= f[Image(T)]}
<1>1. e \in [SUBSET S -> Nat] /\ e[{}] = 0 /\ f \in [SUBSET R -> Nat] /\ f[{}] = 0
  BY SumType
<1>2. \A T \in SUBSET S : Image(T) \in SUBSET R
  OBVIOUS
<1>3. {} \in P
  BY <1>1, <1>2
<1>4. ASSUME NEW T \in SUBSET S, T # {}, Rest(T) \in P PROVE T \in P
  <2> DEFINE x == First(T)
             U == Rest(T)
  <2>1. x \in T /\ T = U \cup {x} /\ x \notin U /\ U \in SUBSET S
    BY <1>4 DEF First, Rest
  <2>2. e[T] = v[x] + e[U] /\ e[U] <= f[Image(U)]
    BY <1>4 DEF SumsUp
  <2> HIDE DEF x, U
  <2>3. e[U] \in Nat /\ v[x] \in Nat /\ f[Image(U)] \in Nat
    BY <1>1, <1>2, <2>1
  <2>4. CASE x \notin M
    <3>1. Image(T) = Image(U) /\ v[x] = 0
      BY <2>1, <2>4
    <3> HIDE DEF Image
    <3>2. e[T] <= f[Image(T)]
      BY <2>2, <2>3, <3>1
    <3> QED
      BY <3>2
  <2>5. CASE x \in M
    <3>1. g[x] \in Image(T) /\ Image(T) \ {g[x]} = Image(U)
      BY <2>1, <2>5
    <3>2. Image(T) \in SUBSET R /\ w[g[x]] \in Nat /\ v[x] <= w[g[x]]
      BY <1>2, <2>5
    <3> HIDE DEF Image
    <3>3. f[Image(T)] = w[g[x]] + f[Image(U)]
      BY <3>1, <3>2, SumOfOneMore
    <3>4. e[T] <= f[Image(T)]
      BY <2>2, <2>3, <3>2, <3>3
    <3> QED
      BY <3>4
  <2> QED
    BY <2>4, <2>5
<1>5. P = SUBSET S
  <2>1. P \in SUBSET SUBSET S
    OBVIOUS
  <2> HIDE DEF P
  <2> QED
    BY <1>3, <1>4, <2>1, FoldInduction
<1>6. e[S] <= f[Image(S)]
  <2>1. S \in P
    BY <1>5
  <2> QED
    BY <2>1
<1>7. f[Image(S)] <= f[R] /\ Image(S) \in SUBSET R
  <2>1. Image(S) \in SUBSET R
    BY <1>2
  <2> HIDE DEF Image
  <2> QED
    BY <2>1, SumGrows
<1>8. e[S] \in Nat /\ f[Image(S)] \in Nat /\ f[R] \in Nat
  BY <1>1, <1>7
<1> HIDE DEF Image
<1> QED
  BY <1>6, <1>7, <1>8
================================================================================
