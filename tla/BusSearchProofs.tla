----------------------------- MODULE BusSearchProofs ----------------------------
(***************************************************************************)
(* Theorems about the search for one bus itinerary, for any timetable, any *)
(* stops, any request and any answers of the provider of walks.            *)
(***************************************************************************)
EXTENDS BusSearch, OrderingProofs

--------------------------------------------------------------------------------
\* The order of the pairs of stops.

LEMMA RangeFinite ==
  ASSUME NEW T, NEW s \in Seq(T)
  PROVE  IsFiniteSet(Range(s)) /\ Range(s) \subseteq T
<1>1. Len(s) \in Nat /\ DOMAIN s = 1..Len(s)
  OBVIOUS
<1>2. s \in Surjection(1..Len(s), Range(s))
  BY <1>1 DEF Surjection, Range
<1>3. IsFiniteSet(1..Len(s))
  BY <1>1, FS_Interval
<1>4. IsFiniteSet(Range(s))
  BY <1>2, <1>3, FS_Surjection
<1> QED
  BY <1>1, <1>4 DEF Range

LEMMA RankOfFacts ==
  ASSUME NEW f, NEW x \in Range(f)
  PROVE  RankOf(f, x) \in DOMAIN f /\ f[RankOf(f, x)] = x
BY DEF RankOf, Range

\* A ride has the ends that were asked for and is on the timetable.
LEMMA RidesAreTyped ==
  ASSUME NEW from, NEW to, NEW r \in AllRides(from, to)
  PROVE  /\ r.trip \in Trips /\ r.from = from /\ r.to = to
         /\ r.departs \in Nat /\ r.arrives \in Nat /\ OnTimetable(r)
<1>1. PICK t \in Trips : r \in RidesOf(t, from, to)
  BY DEF AllRides
<1> DEFINE c == CallsOf[t]
<1>2. PICK p \in (DOMAIN c) \X (DOMAIN c) :
        /\ p[1] < p[2] /\ c[p[1]].stop = from /\ c[p[2]].stop = to
        /\ r = [trip |-> t, from |-> from, to |-> to,
                departs |-> c[p[1]].departs, arrives |-> c[p[2]].arrives]
  BY <1>1 DEF RidesOf
<1>3. c \in Seq(Call)
  BY TimetableAssumption
<1>4. c[p[1]] \in Call /\ c[p[2]] \in Call
  BY <1>2, <1>3
<1> QED
  BY <1>2, <1>4 DEF OnTimetable, Call

LEMMA FirstPairsFacts ==
  ASSUME NEW S, IsFiniteSet(S), NEW f, Lists(f, S)
  PROVE  /\ FirstPairs(f) \in Seq(S) /\ Range(FirstPairs(f)) \subseteq S
         /\ Cardinality(S) <= MaxPairs => Range(FirstPairs(f)) = S
<1>1. f \in Seq(S) /\ Len(f) = Cardinality(S) /\ Range(f) = S /\ Len(f) \in Nat
  BY ListsRange, FS_CardinalityType
<1> DEFINE m == IF Len(f) < MaxPairs THEN Len(f) ELSE MaxPairs
<1>2. m \in 0..Len(f) /\ (Cardinality(S) <= MaxPairs => m = Len(f))
  BY <1>1 DEF MaxPairs
<1>3. FirstPairs(f) = SubSeq(f, 1, m)
  BY DEF FirstPairs
<1> HIDE DEF m
<1>4. SubSeq(f, 1, m) \in Seq(S)
  BY <1>1, <1>2
<1>5. m = Len(f) => SubSeq(f, 1, m) = f
  BY <1>1
<1> QED
  BY <1>1, <1>2, <1>3, <1>4, <1>5, RangeFinite

PairsFrom(ready) ==
  {p \in Range(Boarding) \X Range(Alighting) : Rides(p[1], p[2], ready) # {}}

LEMMA StopsFinite ==
  /\ IsFiniteSet(Range(Boarding)) /\ Range(Boarding) \subseteq Stops
  /\ IsFiniteSet(Range(Alighting)) /\ Range(Alighting) \subseteq Stops
BY BusSearchAssumption, RangeFinite

LEMMA PairsFinite ==
  ASSUME NEW ready
  PROVE  IsFiniteSet(PairsFrom(ready))
<1>1. IsFiniteSet(Range(Boarding) \X Range(Alighting))
  BY StopsFinite, FS_Product
<1> QED
  BY <1>1, FS_Subset DEF PairsFrom

LEMMA SignaturesFacts ==
  ASSUME NEW ready \in Nat
  PROVE  /\ Signatures(ready) \in Seq(PairsFrom(ready))
         /\ Cardinality(PairsFrom(ready)) <= MaxPairs =>
              Range(Signatures(ready)) = PairsFrom(ready)
<1> DEFINE S == PairsFrom(ready)
           first(p) == Min({r.arrives : r \in Rides(p[1], p[2], ready)})
           K == [p \in S |-> <<first(p), p[1], p[2]>>]
<1>1. \A p \in S : first(p) \in Int
  <2> SUFFICES ASSUME NEW p \in S PROVE first(p) \in Nat
    OBVIOUS
  <2> DEFINE A == {r.arrives : r \in Rides(p[1], p[2], ready)}
  <2>1. A \in SUBSET Nat /\ A # {}
    BY RidesAreTyped DEF PairsFrom, Rides
  <2> HIDE DEF A
  <2>2. Min(A) \in A
    BY <2>1, MinOfNaturals
  <2> QED
    BY <2>1, <2>2 DEF A
<1>2. \A p \in S : p[1] \in Int /\ p[2] \in Int /\ p = <<p[1], p[2]>>
  BY StopsFinite DEF PairsFrom, Stops
<1>3. IsKey(K, S, 3)
  <2> HIDE DEF first, S
  <2> QED
    BY <1>1, <1>2, KeysOfThree DEF IsKey
<1>4. Signatures(ready) = FirstPairs(Ordered(K))
  BY DEF Signatures, PairsFrom
<1> QED
  <2> HIDE DEF K
  <2> QED
    BY <1>3, <1>4, PairsFinite, OrderedSorts, FirstPairsFacts DEF Sorts

\* Ranking loses no pair and repeats none.
LEMMA RankedFirst ==
  ASSUME NEW ready \in Nat
  PROVE  Lists(RankedSignatures(ready), Range(Signatures(ready)))
<1> DEFINE s == Signatures(ready)
           S == Range(s)
           K == [p \in S |-> <<RankOf(Boarding, p[1]) + RankOf(Alighting, p[2]), RankOf(s, p)>>]
<1>1. s \in Seq(PairsFrom(ready)) /\ S \subseteq PairsFrom(ready) /\ IsFiniteSet(S)
  BY SignaturesFacts, RangeFinite
<1> HIDE DEF s
<1>2. \A p \in S : RankOf(s, p) \in Int /\ s[RankOf(s, p)] = p
  BY <1>1, RankOfFacts
<1>3. \A p \in S : RankOf(Boarding, p[1]) + RankOf(Alighting, p[2]) \in Int
  <2> SUFFICES ASSUME NEW p \in S
               PROVE  RankOf(Boarding, p[1]) \in Nat /\ RankOf(Alighting, p[2]) \in Nat
    OBVIOUS
  <2>1. p[1] \in Range(Boarding) /\ p[2] \in Range(Alighting)
    BY <1>1 DEF PairsFrom
  <2>2. DOMAIN Boarding \subseteq Nat /\ DOMAIN Alighting \subseteq Nat
    BY BusSearchAssumption
  <2> QED
    BY <2>1, <2>2, RankOfFacts
<1>4. IsKey(K, S, 2)
  <2> HIDE DEF S
  <2> QED
    BY <1>2, <1>3, KeysOfTwo DEF IsKey
<1>5. RankedSignatures(ready) = Ordered(K)
  BY DEF RankedSignatures, s
<1> QED
  <2> HIDE DEF K
  <2> QED
    BY <1>1, <1>4, <1>5, OrderedSorts DEF Sorts, s

LEMMA BoardsInOrder ==
  ASSUME NEW T, NEW ranked \in Seq(T)
  PROVE  Lists(BoardingOrder(ranked), Range(Boarding))
<1> DEFINE S == Range(Boarding)
           best(b) == Min({i \in DOMAIN ranked : ranked[i][1] = b} \cup {Len(ranked) + 1})
           K == [b \in S |-> <<best(b), RankOf(Boarding, b)>>]
<1>1. \A b \in S : best(b) \in Int
  <2> SUFFICES ASSUME NEW b \in S PROVE best(b) \in Nat
    OBVIOUS
  <2> DEFINE A == {i \in DOMAIN ranked : ranked[i][1] = b} \cup {Len(ranked) + 1}
  <2>1. A \in SUBSET Nat /\ A # {}
    OBVIOUS
  <2> HIDE DEF A
  <2>2. Min(A) \in A
    BY <2>1, MinOfNaturals
  <2> QED
    BY <2>1, <2>2 DEF A
<1>2. \A b \in S : RankOf(Boarding, b) \in Int /\ Boarding[RankOf(Boarding, b)] = b
  BY RankOfFacts, BusSearchAssumption
<1>3. IsKey(K, S, 2)
  <2> HIDE DEF best, S
  <2> QED
    BY <1>1, <1>2, KeysOfTwo DEF IsKey
<1>4. BoardingOrder(ranked) = Ordered(K)
  BY DEF BoardingOrder
<1> QED
  <2> HIDE DEF K
  <2> QED
    BY <1>3, <1>4, StopsFinite, OrderedSorts DEF Sorts

LEMMA FirstDecides ==
  ASSUME NEW a \in Int, NEW b \in Int, NEW c \in Int, NEW d \in Int,
         Precedes(<<a, b>>, <<c, d>>)
  PROVE  a <= c
<1>1. PICK i \in 1..2 : /\ <<a, b>>[i] < <<c, d>>[i]
                        /\ \A j \in 1..(i - 1) : <<a, b>>[j] = <<c, d>>[j]
  BY DEF Precedes
<1>2. CASE i = 1
  BY <1>1, <1>2
<1>3. CASE i = 2
  BY <1>1, <1>3
<1> QED
  BY <1>2, <1>3

\* The pairs of one boarding stop follow each other.
Grouped(q) ==
  \A i, j, k \in DOMAIN q : i <= j /\ j <= k /\ q[i][1] = q[k][1] => q[j][1] = q[i][1]

\* Which pairs are tried: all of them unless they are too many.
LEMMA DirectQueueFacts ==
  ASSUME NEW ready \in Nat
  PROVE  /\ DirectQueue(ready) \in Seq(PairsFrom(ready)) /\ Grouped(DirectQueue(ready))
         /\ Cardinality(PairsFrom(ready)) <= MaxPairs =>
              Range(DirectQueue(ready)) = PairsFrom(ready)
<1> DEFINE s == Signatures(ready)
           ranked == RankedSignatures(ready)
           S == Range(ranked)
           boards == BoardingOrder(ranked)
           K == [p \in S |-> <<RankOf(boards, p[1]), RankOf(ranked, p)>>]
           q == DirectQueue(ready)
<1>1. s \in Seq(PairsFrom(ready)) /\ Range(s) \subseteq PairsFrom(ready) /\ IsFiniteSet(Range(s))
      /\ (Cardinality(PairsFrom(ready)) <= MaxPairs => Range(s) = PairsFrom(ready))
  BY SignaturesFacts, RangeFinite
<1>2. ranked \in Seq(Range(s)) /\ S = Range(s)
  BY <1>1, RankedFirst, ListsRange
<1>3. Lists(boards, Range(Boarding))
  BY <1>2, BoardsInOrder
<1> HIDE DEF s, ranked, boards
<1>4. boards \in Seq(Range(Boarding)) /\ Range(boards) = Range(Boarding)
  BY <1>3, StopsFinite, ListsRange
<1>5. \A p \in S : RankOf(ranked, p) \in Int /\ ranked[RankOf(ranked, p)] = p
  BY <1>2, RankOfFacts
<1>6. \A p \in S : RankOf(boards, p[1]) \in Int /\ boards[RankOf(boards, p[1])] = p[1]
  <2> SUFFICES ASSUME NEW p \in S
               PROVE  RankOf(boards, p[1]) \in Int /\ boards[RankOf(boards, p[1])] = p[1]
    OBVIOUS
  <2>1. p[1] \in Range(boards)
    BY <1>1, <1>2, <1>4 DEF PairsFrom
  <2> QED
    BY <1>4, <2>1, RankOfFacts
<1>7. IsKey(K, S, 2)
  <2> HIDE DEF S
  <2> QED
    BY <1>5, <1>6, KeysOfTwo DEF IsKey
<1>8. q = Ordered(K)
  BY DEF DirectQueue, ranked, boards
<1>9. Sorts(q, S, K)
  <2> HIDE DEF K, S
  <2> QED
    BY <1>1, <1>2, <1>7, <1>8, OrderedSorts
<1> HIDE DEF q
<1>10. q \in Seq(S) /\ Range(q) = S
  BY <1>1, <1>2, <1>9, ListsRange DEF Sorts
<1>11. \A i, j \in DOMAIN q : i <= j => RankOf(boards, q[i][1]) <= RankOf(boards, q[j][1])
  <2> SUFFICES ASSUME NEW i \in DOMAIN q, NEW j \in DOMAIN q, i < j
               PROVE  RankOf(boards, q[i][1]) <= RankOf(boards, q[j][1])
    <3>1. \A i \in DOMAIN q : RankOf(boards, q[i][1]) \in Int
      BY <1>6, <1>10
    <3>2. DOMAIN q \subseteq Int
      BY <1>10
    <3> QED
      BY <3>1, <3>2
  <2>1. Precedes(K[q[i]], K[q[j]]) /\ q[i] \in S /\ q[j] \in S
    <3> HIDE DEF K, S
    <3> QED
      BY <1>9, <1>10 DEF Sorts
  <2>2. Precedes(<<RankOf(boards, q[i][1]), RankOf(ranked, q[i])>>,
                 <<RankOf(boards, q[j][1]), RankOf(ranked, q[j])>>)
    BY <2>1
  <2>3. \A a, b, c, d \in Int : Precedes(<<a, b>>, <<c, d>>) => a <= c
    BY FirstDecides
  <2> QED
    BY <1>5, <1>6, <2>1, <2>2, <2>3
<1>12. Grouped(q)
  <2> SUFFICES ASSUME NEW i \in DOMAIN q, NEW j \in DOMAIN q, NEW k \in DOMAIN q,
                      i <= j, j <= k, q[i][1] = q[k][1]
               PROVE  q[j][1] = q[i][1]
    BY DEF Grouped
  <2>1. q[i] \in S /\ q[j] \in S /\ q[k] \in S
    BY <1>10
  <2>2. /\ RankOf(boards, q[i][1]) <= RankOf(boards, q[j][1])
        /\ RankOf(boards, q[j][1]) <= RankOf(boards, q[k][1])
    BY <1>11
  <2>3. RankOf(boards, q[i][1]) = RankOf(boards, q[j][1])
    BY <1>6, <2>1, <2>2
  <2> QED
    BY <1>6, <2>1, <2>3
<1>13. q \in Seq(PairsFrom(ready))
  BY <1>1, <1>2, <1>10
<1> QED
  BY <1>1, <1>2, <1>10, <1>12, <1>13 DEF q

--------------------------------------------------------------------------------
\* The fours of stops of a change.
Fours == {<<b, n[1], n[2], a>> : b \in Range(Boarding), n \in Nearby, a \in Range(Alighting)}

LEMMA FoursAre ==
  \A p : p \in Fours <=> \E b \in Range(Boarding), n \in Nearby, a \in Range(Alighting) :
                         p = <<b, n[1], n[2], a>>
BY DEF Fours

LEMMA FoursFacts ==
  /\ IsFiniteSet(Fours)
  /\ \A p \in Fours : /\ p[1] \in Range(Boarding) /\ p[4] \in Range(Alighting)
                      /\ <<p[2], p[3]>> \in Nearby
                      /\ p = <<p[1], p[2], p[3], p[4]>>
                      /\ p[1] \in Int /\ p[2] \in Int /\ p[3] \in Int /\ p[4] \in Int
<1>1. \A n \in Nearby : n = <<n[1], n[2]>> /\ n[1] \in Int /\ n[2] \in Int
  BY BusSearchAssumption DEF Stops
<1>2. \A p \in Fours : /\ p[1] \in Range(Boarding) /\ p[4] \in Range(Alighting)
                       /\ <<p[2], p[3]>> \in Nearby /\ p = <<p[1], p[2], p[3], p[4]>>
                       /\ p[2] \in Int /\ p[3] \in Int
  <2> SUFFICES ASSUME NEW p \in Fours
               PROVE  /\ p[1] \in Range(Boarding) /\ p[4] \in Range(Alighting)
                      /\ <<p[2], p[3]>> \in Nearby /\ p = <<p[1], p[2], p[3], p[4]>>
                      /\ p[2] \in Int /\ p[3] \in Int
    OBVIOUS
  <2> PICK b \in Range(Boarding), n \in Nearby, a \in Range(Alighting) :
           p = <<b, n[1], n[2], a>>
    BY FoursAre
  <2>1. p[1] = b /\ p[2] = n[1] /\ p[3] = n[2] /\ p[4] = a
    OBVIOUS
  <2> QED
    BY <1>1, <2>1
<1>3. IsFiniteSet(Fours)
  <2> DEFINE D == (Range(Boarding) \X Nearby) \X Range(Alighting)
             m == [x \in D |-> <<x[1][1], x[1][2][1], x[1][2][2], x[2]>>]
  <2>1. IsFiniteSet(D)
    BY StopsFinite, BusSearchAssumption, FS_Product
  <2>2. \A p \in Fours : \E x \in D : m[x] = p
    <3> SUFFICES ASSUME NEW p \in Fours PROVE \E x \in D : m[x] = p
      OBVIOUS
    <3> PICK b \in Range(Boarding), n \in Nearby, a \in Range(Alighting) :
             p = <<b, n[1], n[2], a>>
      BY FoursAre
    <3>1. <<<<b, n>>, a>> \in D /\ m[<<<<b, n>>, a>>] = p
      OBVIOUS
    <3> QED
      BY <3>1
  <2>3. \A x \in D : m[x] \in Fours
    BY DEF Fours
  <2>4. m \in Surjection(D, Fours)
    <3> HIDE DEF D
    <3>1. m \in [D -> Fours]
      BY <2>3
    <3> HIDE DEF m
    <3> QED
      BY <2>2, <3>1 DEF Surjection
  <2> QED
    BY <2>1, <2>4, FS_Surjection
<1> QED
  BY <1>2, <1>3, StopsFinite DEF Stops

LEMMA TransferQueueFacts ==
  ASSUME NEW ready \in Nat, NEW before
  PROVE  TransferQueue(ready, before) \in Seq(Fours)
<1> DEFINE first(p) == Min({c[2].arrives : c \in Changes(ready, p)})
           D == {f \in Fours : Changes(ready, f) # {}}
           arrival == [p \in D |-> first(p)]
           S == {p \in DOMAIN arrival : before = NoWalk \/ arrival[p] < before}
           K == [p \in S |-> <<arrival[p], p[1], p[4], p[2], p[3]>>]
           best == FirstPairs(Ordered(K))
           boards == BoardingOrder(RankedSignatures(ready))
           T == Range(best)
           L == [p \in T |-> <<RankOf(boards, p[1]), RankOf(Alighting, p[4]), RankOf(best, p)>>]
<1>1. S \subseteq Fours /\ IsFiniteSet(S)
  BY FoursFacts, FS_Subset
<1>2. \A p \in S : arrival[p] \in Int
  <2> SUFFICES ASSUME NEW p \in D PROVE first(p) \in Nat
    OBVIOUS
  <2> DEFINE A == {c[2].arrives : c \in Changes(ready, p)}
  <2>1. A \in SUBSET Nat /\ A # {}
    BY RidesAreTyped DEF Changes
  <2> HIDE DEF A
  <2>2. Min(A) \in A
    BY <2>1, MinOfNaturals
  <2> QED
    BY <2>1, <2>2 DEF A
<1> HIDE DEF D, arrival, S
<1>3. IsKey(K, S, 5)
  <2>1. \A p \in S : <<arrival[p], p[1], p[4], p[2], p[3]>> \in Keys(5)
    BY <1>1, <1>2, FoursFacts, KeysOfFive
  <2>2. \A p, q \in S : <<arrival[p], p[1], p[4], p[2], p[3]>> = <<arrival[q], q[1], q[4], q[2], q[3]>>
                          => p = q
    <3> SUFFICES ASSUME NEW p \in S, NEW q \in S,
                        <<arrival[p], p[1], p[4], p[2], p[3]>> = <<arrival[q], q[1], q[4], q[2], q[3]>>
                 PROVE  p = q
      OBVIOUS
    <3>1. p[1] = q[1] /\ p[2] = q[2] /\ p[3] = q[3] /\ p[4] = q[4]
      OBVIOUS
    <3>2. p = <<p[1], p[2], p[3], p[4]>> /\ q = <<q[1], q[2], q[3], q[4]>>
      BY <1>1, FoursFacts
    <3> QED
      BY <3>1, <3>2
  <2> QED
    BY <2>1, <2>2 DEF IsKey
<1>4. Lists(Ordered(K), S)
  <2> HIDE DEF K
  <2> QED
    BY <1>1, <1>3, OrderedSorts DEF Sorts
<1>5. best \in Seq(S) /\ T \subseteq S
  BY <1>1, <1>4, FirstPairsFacts
<1> HIDE DEF best
<1>6. IsFiniteSet(T)
  BY <1>1, <1>5, FS_Subset
<1>7. \A p \in T : RankOf(best, p) \in Int /\ best[RankOf(best, p)] = p
  BY <1>5, RankOfFacts
<1>8. boards \in Seq(Range(Boarding)) /\ Range(boards) = Range(Boarding)
  <2>1. RankedSignatures(ready) \in Seq(Range(Signatures(ready)))
    BY RankedFirst, SignaturesFacts, RangeFinite, ListsRange
  <2> QED
    BY <2>1, BoardsInOrder, StopsFinite, ListsRange
<1> HIDE DEF boards
<1>9. \A p \in T : RankOf(boards, p[1]) \in Int /\ RankOf(Alighting, p[4]) \in Int
  <2>1. \A p \in T : p[1] \in Range(boards) /\ p[4] \in Range(Alighting)
    BY <1>1, <1>5, <1>8, FoursFacts
  <2>2. DOMAIN boards \subseteq Int /\ DOMAIN Alighting \subseteq Int
    BY <1>8, BusSearchAssumption
  <2> QED
    BY <2>1, <2>2, RankOfFacts
<1>10. IsKey(L, T, 3)
  <2> HIDE DEF T
  <2> QED
    BY <1>7, <1>9, KeysOfThree DEF IsKey
<1>11. Lists(Ordered(L), T)
  <2> HIDE DEF L, T
  <2> QED
    BY <1>6, <1>10, OrderedSorts DEF Sorts
<1>12. TransferQueue(ready, before) = Ordered(L)
  BY DEF TransferQueue, Fours, boards, best, S, arrival, D
<1>13. Ordered(L) \in Seq(T)
  <2> HIDE DEF L, T
  <2> QED
    BY <1>6, <1>11, ListsRange
<1> QED
  <2> HIDE DEF L
  <2> QED
    BY <1>1, <1>5, <1>12, <1>13

--------------------------------------------------------------------------------
\* Walks and queues.

\* A walk that is asked for is remembered, and nothing else is.
LEMMA KnownFacts ==
  ASSUME NEW asked, NEW w, NEW minutes
  PROVE  /\ DOMAIN Known(asked, w, minutes) \subseteq DOMAIN asked \cup {w}
         /\ DOMAIN asked \subseteq DOMAIN Known(asked, w, minutes)
         /\ \A x \in DOMAIN Known(asked, w, minutes) :
              Known(asked, w, minutes)[x] = IF x \in DOMAIN asked THEN asked[x] ELSE minutes
         /\ w[1] # w[2] => w \in DOMAIN Known(asked, w, minutes)
BY DEF Known

LEMMA OneMoreWalk ==
  ASSUME NEW asked, IsFiniteSet(DOMAIN asked), NEW w, NEW minutes
  PROVE  /\ IsFiniteSet(DOMAIN Known(asked, w, minutes))
         /\ Cardinality(DOMAIN Known(asked, w, minutes)) \in Nat
         /\ Cardinality(DOMAIN asked) \in Nat
         /\ Cardinality(DOMAIN Known(asked, w, minutes)) <= Cardinality(DOMAIN asked) + 1
<1> DEFINE A == DOMAIN asked
           B == DOMAIN Known(asked, w, minutes)
<1>1. B \subseteq A \cup {w}
  BY KnownFacts
<1> HIDE DEF A, B
<1>2. IsFiniteSet(A \cup {w}) /\ IsFiniteSet(A)
  BY FS_AddElement DEF A
<1>3. Cardinality(A \cup {w}) = IF w \in A THEN Cardinality(A) ELSE Cardinality(A) + 1
  BY <1>2, FS_AddElement
<1>4. IsFiniteSet(B) /\ Cardinality(B) <= Cardinality(A \cup {w})
  BY <1>1, <1>2, FS_Subset
<1>5. Cardinality(A) \in Nat /\ Cardinality(B) \in Nat
  BY <1>2, <1>4, FS_CardinalityType
<1> QED
  BY <1>3, <1>4, <1>5 DEF A, B

--------------------------------------------------------------------------------
\* Every walk that is asked for is counted, and of each kind two are.
WalksInv ==
  /\ phase \in {"start", "direct", "transfer", "done"}
  /\ counted \in [access : 0..2, change : 0..2, egress : 0..2]
  /\ phase \in {"start", "direct"} => counted.change = 0
  /\ IsFiniteSet(DOMAIN walks)
  /\ Cardinality(DOMAIN walks) <= (IF phase \in {"start", "direct"} THEN 0 ELSE 4)
                                    + counted.access + counted.change + counted.egress

LEMMA WalksInit == Init => WalksInv
<1> SUFFICES ASSUME Init PROVE WalksInv
  OBVIOUS
<1>1. DOMAIN walks = {}
  BY DEF Init
<1>2. IsFiniteSet(DOMAIN walks) /\ Cardinality(DOMAIN walks) = 0
  BY <1>1, FS_EmptySet
<1> QED
  BY <1>2 DEF Init, WalksInv, NotCounted

\* The counts after one more walk.
Counts == [access : 0..2, change : 0..2, egress : 0..2]

LEMMA CountedAccess ==
  ASSUME counted \in Counts, counted.access < 2,
         counted' = [counted EXCEPT !.access = @ + 1]
  PROVE  /\ counted' \in Counts /\ counted'.access = counted.access + 1
         /\ counted'.change = counted.change /\ counted'.egress = counted.egress
BY DEF Counts

LEMMA CountedChange ==
  ASSUME counted \in Counts, counted.change < 2,
         counted' = [counted EXCEPT !.change = @ + 1]
  PROVE  /\ counted' \in Counts /\ counted'.change = counted.change + 1
         /\ counted'.access = counted.access /\ counted'.egress = counted.egress
BY DEF Counts

LEMMA CountedEgress ==
  ASSUME counted \in Counts, counted.egress < 2,
         counted' = [counted EXCEPT !.egress = @ + 1]
  PROVE  /\ counted' \in Counts /\ counted'.egress = counted.egress + 1
         /\ counted'.access = counted.access /\ counted'.change = counted.change
BY DEF Counts

LEMMA CountedBoth ==
  ASSUME counted \in Counts, counted.change < 2, counted.egress < 2,
         counted' = [counted EXCEPT !.change = @ + 1, !.egress = @ + 1]
  PROVE  /\ counted' \in Counts /\ counted'.egress = counted.egress + 1
         /\ counted'.access = counted.access /\ counted'.change = counted.change + 1
<1> DEFINE x == counted.change + 1
           y == counted.egress + 1
<1>1. x \in 0..2 /\ y \in 0..2
  BY DEF Counts
<1>2. counted' = [counted EXCEPT !.change = x, !.egress = y]
  OBVIOUS
<1> HIDE DEF x, y
<1>3. counted' = [access |-> counted.access, change |-> x, egress |-> y]
  BY <1>2 DEF Counts
<1> QED
  BY <1>1, <1>3 DEF Counts, x, y

\* What a try of a change does: the change is given up after the walk between
\* the stops, or its second ride is tried too.
GivenUp(p, w) ==
  /\ walks' = Known(walks, <<p[2], p[3]>>, w) /\ queue' = Tail(queue)
  /\ counted' = [counted EXCEPT !.change = @ + 1] /\ UNCHANGED <<phase, found>>
Ridden(r, t, p, w, e) ==
  /\ walks' = Known(Known(walks, <<p[2], p[3]>>, w), <<p[4], Destination>>, e)
  /\ counted' = [counted EXCEPT !.change = @ + 1, !.egress = @ + 1]
  /\ counted.egress < 2 /\ UNCHANGED phase
  /\ \/ queue' = Tail(queue) /\ UNCHANGED found
     \/ /\ queue' = <<>> /\ e # NoWalk
        /\ found' = found \/ found' = Itinerary(<<r, t>>, <<here.access, w, e>>)

LEMMA TryChangeIs ==
  ASSUME TryChange, counted.egress \in 0..2
  PROVE  \E r \in FirstRide(Head(queue)) : \E s \in SecondRide(r, Head(queue)) :
         \E w \in Answers(<<Head(queue)[2], Head(queue)[3]>>) :
           \/ GivenUp(Head(queue), w)
           \/ \E t \in Fitting(r, s, Head(queue), w) :
              \E e \in Answers(<<Head(queue)[4], Destination>>) : Ridden(r, t, Head(queue), w, e)
<1> DEFINE p == Head(queue)
           Tried(r, s, w) ==
             IF Fitting(r, s, p, w) = {} \/ counted.egress >= 2
             THEN /\ walks' = Known(walks, <<p[2], p[3]>>, w) /\ queue' = Tail(queue)
                  /\ counted' = [counted EXCEPT !.change = @ + 1] /\ UNCHANGED <<phase, found>>
             ELSE \E t \in Fitting(r, s, p, w) : \E e \in Answers(<<p[4], Destination>>) :
                    /\ walks' = Known(Known(walks, <<p[2], p[3]>>, w), <<p[4], Destination>>, e)
                    /\ counted' = [counted EXCEPT !.change = @ + 1, !.egress = @ + 1]
                    /\ IF e # NoWalk /\ Affordable(<<r, t>>)
                       THEN /\ found' = IF found = None \/ t.arrives + e < found.ends
                                        THEN Itinerary(<<r, t>>, <<here.access, w, e>>)
                                        ELSE found
                            /\ queue' = <<>>
                       ELSE queue' = Tail(queue) /\ UNCHANGED found
                    /\ UNCHANGED phase
<1>1. \E r \in FirstRide(p) : \E s \in SecondRide(r, p) : \E w \in Answers(<<p[2], p[3]>>) :
        Tried(r, s, w)
  BY DEF TryChange
<1> HIDE DEF p, Tried
<1>2. \A r, s, w : Tried(r, s, w) =>
        \/ GivenUp(p, w)
        \/ \E t \in Fitting(r, s, p, w) : \E e \in Answers(<<p[4], Destination>>) :
             Ridden(r, t, p, w, e)
  <2> SUFFICES ASSUME NEW r, NEW s, NEW w, Tried(r, s, w), ~GivenUp(p, w)
               PROVE  \E t \in Fitting(r, s, p, w) : \E e \in Answers(<<p[4], Destination>>) :
                        Ridden(r, t, p, w, e)
    OBVIOUS
  <2>1. ~(Fitting(r, s, p, w) = {} \/ counted.egress >= 2)
    BY DEF Tried, GivenUp
  <2>2. PICK t \in Fitting(r, s, p, w) : \E e \in Answers(<<p[4], Destination>>) :
             /\ walks' = Known(Known(walks, <<p[2], p[3]>>, w), <<p[4], Destination>>, e)
             /\ counted' = [counted EXCEPT !.change = @ + 1, !.egress = @ + 1]
             /\ IF e # NoWalk /\ Affordable(<<r, t>>)
                THEN /\ found' = IF found = None \/ t.arrives + e < found.ends
                                 THEN Itinerary(<<r, t>>, <<here.access, w, e>>)
                                 ELSE found
                     /\ queue' = <<>>
                ELSE queue' = Tail(queue) /\ UNCHANGED found
             /\ UNCHANGED phase
    BY <2>1 DEF Tried
  <2>3. PICK e \in Answers(<<p[4], Destination>>) :
             /\ walks' = Known(Known(walks, <<p[2], p[3]>>, w), <<p[4], Destination>>, e)
             /\ counted' = [counted EXCEPT !.change = @ + 1, !.egress = @ + 1]
             /\ IF e # NoWalk /\ Affordable(<<r, t>>)
                THEN /\ found' = IF found = None \/ t.arrives + e < found.ends
                                 THEN Itinerary(<<r, t>>, <<here.access, w, e>>)
                                 ELSE found
                     /\ queue' = <<>>
                ELSE queue' = Tail(queue) /\ UNCHANGED found
             /\ UNCHANGED phase
    BY <2>2
  <2>4. Ridden(r, t, p, w, e)
    BY <2>1, <2>3 DEF Ridden
  <2> QED
    BY <2>4
<1> QED
  BY <1>1, <1>2 DEF p

LEMMA WalksStep == WalksInv /\ [Next]_vars => WalksInv'
<1> SUFFICES ASSUME WalksInv, [Next]_vars PROVE WalksInv'
  OBVIOUS
<1> USE DEF WalksInv
<1>1. Cardinality(DOMAIN walks) \in Nat /\ counted.access \in 0..2
      /\ counted.change \in 0..2 /\ counted.egress \in 0..2
  BY FS_CardinalityType
<1>2. CASE Rank \/ SkipStop \/ PassPair \/ PassChange \/ EndTransfer \/ UNCHANGED vars
  <2>1. UNCHANGED <<walks, counted>>
    BY <1>2 DEF Rank, SkipStop, PassPair, PassChange, EndTransfer, vars
  <2>2. /\ phase' \in {"start", "direct", "transfer", "done"}
        /\ phase' \in {"start", "direct"} <=> phase \in {"start", "direct"}
    BY <1>2 DEF Rank, SkipStop, PassPair, PassChange, EndTransfer, vars
  <2> QED
    BY <2>1, <2>2
<1>3. CASE WalkToStop
  <2>1. /\ \E w, m : walks' = Known(walks, w, m)
        /\ phase' = phase /\ counted' = [counted EXCEPT !.access = @ + 1] /\ counted.access < 2
    BY <1>3 DEF WalkToStop, MayWalk
  <2>2. PICK w, m : walks' = Known(walks, w, m)
    BY <2>1
  <2>3. /\ IsFiniteSet(DOMAIN walks') /\ Cardinality(DOMAIN walks') \in Nat
        /\ Cardinality(DOMAIN walks') <= Cardinality(DOMAIN walks) + 1
    BY <2>2, OneMoreWalk
  <2> QED
    BY <1>1, <2>1, <2>3, CountedAccess DEF Counts
<1>4. CASE TryPair
  <2>1. /\ \E w, m : walks' = Known(walks, w, m)
        /\ phase' = phase /\ counted' = [counted EXCEPT !.egress = @ + 1] /\ counted.egress < 2
    BY <1>4 DEF TryPair, CountEgress
  <2>2. PICK w, m : walks' = Known(walks, w, m)
    BY <2>1
  <2>3. /\ IsFiniteSet(DOMAIN walks') /\ Cardinality(DOMAIN walks') \in Nat
        /\ Cardinality(DOMAIN walks') <= Cardinality(DOMAIN walks) + 1
    BY <2>2, OneMoreWalk
  <2> QED
    BY <1>1, <2>1, <2>3, CountedEgress DEF Counts
<1>5. CASE EndDirect
  <2>1. UNCHANGED walks /\ counted' = NotCounted /\ phase' \in {"transfer", "done"}
        /\ phase = "direct"
    BY <1>5 DEF EndDirect
  <2> QED
    BY <1>1, <2>1 DEF NotCounted
<1>6. CASE TryChange
  <2>1. phase' = phase /\ phase = "transfer" /\ counted.change < 2
    BY <1>6 DEF TryChange, EndDirect
  <2> DEFINE p == Head(queue)
  <2>2. \E w : GivenUp(p, w) \/ \E r, t, e : Ridden(r, t, p, w, e)
    BY <1>1, <1>6, TryChangeIs
  <2> HIDE DEF p
  <2>3. PICK w : GivenUp(p, w) \/ \E r, t, e : Ridden(r, t, p, w, e)
    BY <2>2
  <2> DEFINE x == <<p[2], p[3]>>
  <2> DEFINE k == Known(walks, x, w)
  <2>4. /\ IsFiniteSet(DOMAIN k) /\ Cardinality(DOMAIN k) \in Nat
        /\ Cardinality(DOMAIN k) <= Cardinality(DOMAIN walks) + 1
    BY OneMoreWalk
  <2> HIDE DEF k
  <2>5. CASE walks' = k /\ counted' = [counted EXCEPT !.change = @ + 1]
    BY <1>1, <2>1, <2>4, <2>5, CountedChange DEF Counts
  <2>6. CASE /\ \E y, e : walks' = Known(k, y, e)
             /\ counted' = [counted EXCEPT !.change = @ + 1, !.egress = @ + 1]
             /\ counted.egress < 2
    <3>1. /\ IsFiniteSet(DOMAIN walks') /\ Cardinality(DOMAIN walks') \in Nat
          /\ Cardinality(DOMAIN walks') <= Cardinality(DOMAIN k) + 1
      BY <2>4, <2>6, OneMoreWalk
    <3> QED
      BY <1>1, <2>1, <2>4, <2>6, <3>1, CountedBoth DEF Counts
  <2> QED
    BY <2>3, <2>5, <2>6 DEF k, GivenUp, Ridden
<1> QED
  BY <1>2, <1>3, <1>4, <1>5, <1>6 DEF Next

\* FewWalksAreAsked holds of every search: two walks of a kind in either phase,
\* whatever the stops are and whatever the calls answer.
THEOREM FewWalks == Spec => []FewWalksAreAsked
<1>1. WalksInv => FewWalksAreAsked
  <2> SUFFICES ASSUME WalksInv PROVE FewWalksAreAsked
    OBVIOUS
  <2>1. Cardinality(DOMAIN walks) \in Nat /\ counted.access \in 0..2
        /\ counted.change \in 0..2 /\ counted.egress \in 0..2
    BY FS_CardinalityType DEF WalksInv
  <2> QED
    BY <2>1 DEF WalksInv, FewWalksAreAsked
<1> QED
  BY <1>1, WalksInit, WalksStep, PTL DEF Spec

--------------------------------------------------------------------------------
\* What is left to try was found in the timetable, and what has been answered
\* is an answer of the provider.
Minutes == Nat \cup {NoWalk}
TravelInv ==
  /\ ask \in Ask
  /\ here.access \in Nat
  /\ DOMAIN walks \subseteq Walks /\ \A x \in DOMAIN walks : walks[x] \in Minutes
  /\ phase \in {"start", "direct", "transfer", "done"}
  /\ phase = "start" => queue = <<>>
  /\ phase = "direct" => queue \in Seq(PairsFrom(Ready))
  /\ phase = "transfer" => queue \in Seq(Fours) /\ ask.transfers > 0
  /\ phase = "done" => queue = <<>>
  /\ ItineraryCanBeTravelled

LEMMA TravelInit == Init => TravelInv
<1> SUFFICES ASSUME Init PROVE TravelInv
  OBVIOUS
<1>1. ask \in Ask /\ here.access \in Nat
  BY BusSearchAssumption DEF Init, Nowhere
<1>2. DOMAIN walks = {}
  BY DEF Init
<1> QED
  BY <1>1, <1>2 DEF Init, TravelInv, ItineraryCanBeTravelled

\* A walk on the way of a search is a walk that can be asked for.
LEMMA AnswersAreMinutes ==
  ASSUME TravelInv, NEW x, x \in Walks \/ x[1] = x[2], NEW m \in Answers(x)
  PROVE  /\ m \in Minutes
         /\ DOMAIN Known(walks, x, m) \subseteq Walks
         /\ \A y \in DOMAIN Known(walks, x, m) : Known(walks, x, m)[y] \in Minutes
<1>1. m \in Minutes
  BY BusSearchAssumption DEF Answers, Minutes, TravelInv
<1> QED
  BY <1>1 DEF Known, TravelInv

LEMMA ReadyIsNatural ==
  ASSUME ask \in Ask
  PROVE  Ready \in Nat /\ ask.leave \in Nat /\ ask.maxWait \in Nat /\ ask.transfers \in 0..4
BY DEF Ask, Ready, BoardingBuffer

\* Without its first stop the queue is a part of what it was.
LEMMA WithoutStopIsPart ==
  ASSUME NEW T, queue \in Seq(T), NEW b
  PROVE  WithoutStop(b) \in Seq(T)
<1>1. CASE Others(b) = {}
  BY <1>1 DEF WithoutStop
<1>2. CASE Others(b) # {}
  <2>1. Others(b) \in SUBSET Nat
    BY DEF Others
  <2>2. Min(Others(b)) \in Others(b)
    BY <1>2, <2>1, MinOfNaturals
  <2>3. Min(Others(b)) \in 1..Len(queue)
    BY <2>2 DEF Others
  <2> QED
    BY <1>2, <2>3 DEF WithoutStop
<1> QED
  BY <1>1, <1>2

LEMMA ScheduledAreTyped ==
  ASSUME NEW from, NEW to, NEW ready \in Nat, NEW r \in Scheduled(from, to, ready)
  PROVE  /\ r.trip \in Trips /\ r.from = from /\ r.to = to
         /\ r.departs \in Nat /\ r.arrives \in Nat /\ OnTimetable(r)
         /\ r.departs >= ready
BY RidesAreTyped DEF Scheduled, Rides

\* The queue moves on, and so do the walks: what has been found stays.
LEMMA SearchGoesOn ==
  ASSUME TravelInv, ask' = ask, here' = here, found' = found, phase' = phase,
         queue # <<>>, queue' = Tail(queue),
         DOMAIN walks' \subseteq Walks, \A x \in DOMAIN walks' : walks'[x] \in Minutes
  PROVE  TravelInv'
<1>1. ItineraryCanBeTravelled'
  BY DEF TravelInv, ItineraryCanBeTravelled, Boarded, OnTimetable
<1>2. Ready' = Ready
  BY DEF Ready
<1>3. \A T : queue \in Seq(T) => queue' \in Seq(T)
  OBVIOUS
<1>4. PairsFrom(Ready)' = PairsFrom(Ready) /\ Fours' = Fours
  BY <1>2 DEF PairsFrom, Fours
<1>5. phase \in {"direct", "transfer"}
  BY DEF TravelInv
<1> QED
  BY <1>1, <1>3, <1>4, <1>5, SMTT(30) DEF TravelInv

LEMMA SearchEnds ==
  ASSUME TravelInv, ask' = ask, here' = here, phase' = phase, queue # <<>>, queue' = <<>>,
         DOMAIN walks' \subseteq Walks, \A x \in DOMAIN walks' : walks'[x] \in Minutes,
         ItineraryCanBeTravelled'
  PROVE  TravelInv'
<1>1. queue' \in Seq(PairsFrom(Ready)') /\ queue' \in Seq(Fours')
  OBVIOUS
<1>2. phase' \in {"direct", "transfer"}
  BY DEF TravelInv
<1>3. ask' \in Ask /\ here'.access \in Nat /\ (phase' = "transfer" => ask'.transfers > 0)
  BY DEF TravelInv
<1> QED
  BY <1>1, <1>2, <1>3, SMTT(30) DEF TravelInv

LEMMA TravelSkip ==
  ASSUME TravelInv, SkipStop
  PROVE  TravelInv'
<1>1. ItineraryCanBeTravelled'
  <2>1. ItineraryCanBeTravelled /\ found' = found /\ ask' = ask
    BY DEF TravelInv, SkipStop
  <2> QED
    BY <2>1, SMTT(30) DEF ItineraryCanBeTravelled, Boarded
<1>2. Ready' = Ready
  BY DEF Ready, SkipStop
<1>3. \A T : queue \in Seq(T) => queue' \in Seq(T)
  BY WithoutStopIsPart DEF SkipStop
<1>4. PairsFrom(Ready)' = PairsFrom(Ready) /\ Fours' = Fours
  BY <1>2 DEF PairsFrom, Fours
<1>5. phase \in {"direct", "transfer"}
  BY DEF TravelInv, SkipStop
<1> QED
  BY <1>1, <1>3, <1>4, <1>5, SMTT(30) DEF TravelInv, SkipStop

LEMMA TravelWalk ==
  ASSUME TravelInv, WalkToStop
  PROVE  TravelInv'
<1> DEFINE b == Head(queue)[1]
<1>1. ItineraryCanBeTravelled'
  BY DEF TravelInv, ItineraryCanBeTravelled, Boarded, OnTimetable, WalkToStop
<1>2. Ready' = Ready /\ queue # <<>> /\ ask' = ask /\ phase' = phase
  BY DEF Ready, WalkToStop
<1>3. phase \in {"direct", "transfer"}
  BY <1>2 DEF TravelInv
<1>4. Head(queue) \in PairsFrom(Ready) \/ Head(queue) \in Fours
  BY <1>2, <1>3 DEF TravelInv
<1>5. b \in Range(Boarding)
  BY <1>4, FoursFacts DEF PairsFrom
<1>6. <<Origin, b>> \in Walks
  BY <1>5, BusSearchAssumption
<1>7. PICK w \in Answers(<<Origin, b>>) :
        /\ walks' = Known(walks, <<Origin, b>>, w)
        /\ IF w = NoWalk THEN queue' = WithoutStop(b) /\ UNCHANGED here
           ELSE here' = [stop |-> b, access |-> w] /\ UNCHANGED queue
  BY DEF WalkToStop
<1>8. \A T : queue \in Seq(T) => queue' \in Seq(T)
  BY <1>7, WithoutStopIsPart
<1> HIDE DEF b
<1>9. w \in Minutes /\ DOMAIN walks' \subseteq Walks /\ \A x \in DOMAIN walks' : walks'[x] \in Minutes
  BY <1>6, <1>7, AnswersAreMinutes
<1>10. here'.access \in Nat
  BY <1>7, <1>9 DEF TravelInv, Minutes
<1>11. PairsFrom(Ready)' = PairsFrom(Ready) /\ Fours' = Fours
  BY <1>2 DEF PairsFrom, Fours
<1> QED
  BY <1>1, <1>2, <1>3, <1>8, <1>9, <1>10, <1>11, SMTT(30) DEF TravelInv

\* The pair that is tried: its ride is caught at the stop that was walked to.
LEMMA TravelPair ==
  ASSUME TravelInv, TryPair
  PROVE  TravelInv'
<1> DEFINE p == Head(queue)
           at == AtStop
<1>1. p \in PairsFrom(Ready) /\ ask' = ask /\ here' = here /\ phase' = phase
      /\ phase = "direct" /\ queue # <<>>
  BY DEF TravelInv, TryPair
<1>2. at \in Nat /\ ask.leave \in Nat /\ ask.maxWait \in Nat /\ here.access \in Nat
  BY ReadyIsNatural DEF TravelInv, AtStop
<1>3. PICK r \in Scheduled(here.stop, p[2], at + BoardingBuffer) :
        /\ CatchableFirst(r)
        /\ \E w \in Answers(<<r.to, Destination>>) :
             /\ walks' = Known(walks, <<r.to, Destination>>, w)
             /\ IF w # NoWalk /\ Affordable(<<r>>)
                THEN /\ found' = Itinerary(<<r>>, <<here.access, w>>)
                     /\ queue' = <<>>
                ELSE queue' = NextPair /\ UNCHANGED found
  BY DEF TryPair
<1>4. PICK w \in Answers(<<r.to, Destination>>) :
        /\ walks' = Known(walks, <<r.to, Destination>>, w)
        /\ IF w # NoWalk /\ Affordable(<<r>>)
           THEN /\ found' = Itinerary(<<r>>, <<here.access, w>>)
                /\ queue' = <<>>
           ELSE queue' = NextPair /\ UNCHANGED found
  BY <1>3
<1>5. /\ r.to = p[2] /\ r.departs \in Nat /\ r.arrives \in Nat /\ OnTimetable(r)
      /\ r.departs >= at + BoardingBuffer
  BY <1>2, <1>3, ScheduledAreTyped DEF BoardingBuffer
<1>6. p[2] \in Range(Alighting)
  BY <1>1 DEF PairsFrom
<1>7. <<r.to, Destination>> \in Walks
  BY <1>5, <1>6, BusSearchAssumption
<1>8. w \in Minutes /\ DOMAIN walks' \subseteq Walks /\ \A x \in DOMAIN walks' : walks'[x] \in Minutes
  BY <1>4, <1>7, AnswersAreMinutes
<1>9. CASE w # NoWalk /\ Affordable(<<r>>)
  <2>1. found' = [rides |-> <<r>>, walks |-> <<here.access, w>>, ends |-> r.arrives + w]
    BY <1>4, <1>9 DEF Itinerary
  <2>2. w \in Nat /\ NoWalk # here.access
    BY <1>2, <1>8, <1>9, BusSearchAssumption DEF Minutes
  <2>3. r.departs - (ask.leave + here.access) \in BoardingBuffer..ask.maxWait
    BY <1>2, <1>3, <1>5 DEF CatchableFirst, Waits, AtStop, BoardingBuffer
  <2>4. NoWalk \notin Range(<<here.access, w>>)
    BY <1>9, <2>2 DEF Range
  <2>5. ItineraryCanBeTravelled'
    <3> DEFINE rides == <<r>>
               ws == <<here.access, w>>
    <3>1. found'.rides = rides /\ found'.walks = ws /\ found'.ends = r.arrives + w /\ Len(rides) = 1
      BY <2>1
    <3>2. \A i \in 1..1 : OnTimetable(rides[i])'
      BY <1>5 DEF OnTimetable
    <3>3. Boarded(rides[1], ask.leave, ws[1], BoardingBuffer)'
      BY <1>1, <2>3 DEF Boarded, BoardingBuffer
    <3> QED
      BY <2>4, <3>1, <3>2, <3>3, <1>1 DEF ItineraryCanBeTravelled
  <2> QED
    BY <1>1, <1>4, <1>8, <1>9, <2>5, SearchEnds
<1>10. CASE ~(w # NoWalk /\ Affordable(<<r>>))
  BY <1>1, <1>4, <1>8, <1>10, SearchGoesOn DEF NextPair
<1> QED
  BY <1>9, <1>10

LEMMA TravelRank ==
  ASSUME TravelInv, Rank
  PROVE  TravelInv'
<1>1. ItineraryCanBeTravelled'
  BY DEF TravelInv, ItineraryCanBeTravelled, Boarded, OnTimetable, Rank
<1>2. Ready' = Ready /\ Ready \in Nat /\ queue' = DirectQueue(Ready)
  BY ReadyIsNatural DEF Ready, Rank, TravelInv
<1>3. PairsFrom(Ready)' = PairsFrom(Ready)
  BY <1>2 DEF PairsFrom
<1>4. queue' \in Seq(PairsFrom(Ready))
  BY <1>2, DirectQueueFacts
<1> QED
  BY <1>1, <1>3, <1>4 DEF TravelInv, Rank

LEMMA TravelEndDirect ==
  ASSUME TravelInv, EndDirect
  PROVE  TravelInv'
<1>1. ItineraryCanBeTravelled'
  BY DEF TravelInv, ItineraryCanBeTravelled, Boarded, OnTimetable, EndDirect
<1>2. here'.access \in Nat
  BY DEF EndDirect, Nowhere
<1>3. Fours' = Fours /\ ask' = ask /\ walks' = walks /\ queue = <<>>
  BY DEF Fours, EndDirect
<1>4. Ready \in Nat /\ ask.transfers \in 0..4
  BY ReadyIsNatural DEF TravelInv
<1>5. CASE phase' = "done" /\ UNCHANGED queue
  BY <1>1, <1>2, <1>3, <1>5 DEF TravelInv
<1>6. CASE /\ phase' = "transfer" /\ ask.transfers # 0
           /\ queue' = TransferQueue(Ready, IF found = None THEN NoWalk ELSE found.ends)
  <2>1. queue' \in Seq(Fours)
    BY <1>4, <1>6, TransferQueueFacts
  <2> QED
    BY <1>1, <1>2, <1>3, <1>4, <1>6, <2>1 DEF TravelInv
<1> QED
  BY <1>5, <1>6, SMTT(30) DEF EndDirect

\* The second ride is caught after the walk between the stops.
LEMMA TravelChange ==
  ASSUME TravelInv, TryChange, counted.egress \in 0..2
  PROVE  TravelInv'
<1> DEFINE p == Head(queue)
           at == AtStop
           x == <<p[2], p[3]>>
           y == <<p[4], Destination>>
<1>1. p \in Fours /\ ask' = ask /\ here' = here /\ queue # <<>> /\ phase = "transfer"
  BY DEF TravelInv, TryChange
<1>2. at \in Nat /\ ask.leave \in Nat /\ ask.maxWait \in Nat /\ here.access \in Nat
      /\ ask.transfers > 0
  BY <1>1, ReadyIsNatural DEF TravelInv, AtStop
<1>3. x \in Nearby /\ p[4] \in Range(Alighting)
  BY <1>1, FoursFacts
<1>4. (x \in Walks \/ x[1] = x[2]) /\ y \in Walks
  BY <1>3, BusSearchAssumption
<1>5. PICK r \in FirstRide(p) : \E s \in SecondRide(r, p) : \E w \in Answers(x) :
        \/ GivenUp(p, w)
        \/ \E t \in Fitting(r, s, p, w) : \E e \in Answers(y) : Ridden(r, t, p, w, e)
  BY TryChangeIs
<1>6. PICK s \in SecondRide(r, p) : \E w \in Answers(x) :
        \/ GivenUp(p, w)
        \/ \E t \in Fitting(r, s, p, w) : \E e \in Answers(y) : Ridden(r, t, p, w, e)
  BY <1>5
<1>7. PICK w \in Answers(x) :
        \/ GivenUp(p, w)
        \/ \E t \in Fitting(r, s, p, w) : \E e \in Answers(y) : Ridden(r, t, p, w, e)
  BY <1>6
<1> HIDE DEF p, at, x, y
<1>8. /\ r.from = p[1] /\ r.to = p[2] /\ r.departs \in Nat /\ r.arrives \in Nat
      /\ OnTimetable(r) /\ r.departs >= at + BoardingBuffer /\ CatchableFirst(r)
  BY <1>2, ScheduledAreTyped DEF FirstRide, BoardingBuffer, at
<1>9. s \in Scheduled(p[3], p[4], r.arrives + TransferBuffer)
  BY DEF SecondRide
<1>10. s.departs \in Nat /\ s.arrives \in Nat /\ OnTimetable(s) /\ s.from = p[3]
  BY <1>8, <1>9, ScheduledAreTyped DEF TransferBuffer
<1> DEFINE k == Known(walks, x, w)
<1>11. /\ w \in Minutes /\ DOMAIN k \subseteq Walks
       /\ \A z \in DOMAIN k : k[z] \in Minutes
  BY <1>4, AnswersAreMinutes
<1> HIDE DEF k
<1>12. CASE GivenUp(p, w)
  BY <1>1, <1>11, <1>12, SearchGoesOn DEF GivenUp, k, x, p
<1>13. ASSUME NEW t \in Fitting(r, s, p, w), NEW e \in Answers(y), Ridden(r, t, p, w, e)
       PROVE  TravelInv'
  <2>1. w \in Nat /\ t \in AfterWalk(s, r, p, w)
        /\ Waits(t, r.arrives + w) <= ask.maxWait /\ Different(r, t)
    BY <1>11 DEF Fitting, Minutes
  <2>2. /\ t.departs \in Nat /\ t.arrives \in Nat /\ OnTimetable(t) /\ t.from = p[3]
        /\ t.departs >= r.arrives + w + TransferBuffer
    <3> DEFINE ready == r.arrives + w + TransferBuffer
    <3>1. ready \in Nat
      BY <1>8, <2>1 DEF TransferBuffer
    <3>2. CASE s.departs >= ready
      BY <1>10, <2>1, <3>2 DEF AfterWalk
    <3>3. CASE ~(s.departs >= ready)
      <4>1. t \in Scheduled(p[3], p[4], ready)
        BY <2>1, <3>3 DEF AfterWalk
      <4> QED
        BY <3>1, <4>1, ScheduledAreTyped
    <3> QED
      BY <3>2, <3>3
  <2>3. e \in Minutes
    BY <1>4, AnswersAreMinutes
  <2>4. DOMAIN walks' \subseteq Walks /\ \A z \in DOMAIN walks' : walks'[z] \in Minutes
    <3>1. walks' = Known(k, y, e)
      BY <1>13 DEF Ridden, k, x, y
    <3> QED
      BY <1>4, <1>11, <2>3, <3>1 DEF Known
  <2>5. CASE queue' = Tail(queue) /\ UNCHANGED found
    BY <1>1, <1>13, <2>4, <2>5, SearchGoesOn DEF Ridden
  <2>6. CASE queue' = <<>> /\ found' = found
    <3>1. ItineraryCanBeTravelled'
      BY <1>1, <2>6 DEF TravelInv, ItineraryCanBeTravelled, Boarded, OnTimetable
    <3> QED
      BY <1>1, <1>13, <2>4, <2>6, <3>1, SearchEnds DEF Ridden
  <2>7. CASE /\ queue' = <<>> /\ e # NoWalk
             /\ found' = Itinerary(<<r, t>>, <<here.access, w, e>>)
    <3> DEFINE rides == <<r, t>>
               ws == <<here.access, w, e>>
    <3>1. found'.rides = rides /\ found'.walks = ws /\ found'.ends = t.arrives + e /\ Len(rides) = 2
      BY <2>7 DEF Itinerary
    <3>2. e \in Nat /\ NoWalk # here.access /\ NoWalk # w
      BY <1>2, <2>1, <2>3, <2>7, BusSearchAssumption DEF Minutes
    <3>3. NoWalk \notin Range(ws)
      BY <2>7, <3>2 DEF Range
    <3>4. r.departs - (ask.leave + here.access) \in BoardingBuffer..ask.maxWait
      BY <1>2, <1>8 DEF CatchableFirst, Waits, AtStop, BoardingBuffer, at
    <3>5. t.departs - (r.arrives + w) \in TransferBuffer..ask.maxWait
      BY <1>2, <1>8, <2>1, <2>2, SMTT(30) DEF Waits, TransferBuffer
    <3>6. \A i \in 1..2 : OnTimetable(rides[i])
      BY <1>8, <2>2 DEF OnTimetable
    <3>7. Boarded(rides[1], ask.leave, ws[1], BoardingBuffer)
      BY <3>4 DEF Boarded, BoardingBuffer
    <3>8. Boarded(rides[2], rides[1].arrives, ws[2], TransferBuffer)
      BY <3>5 DEF Boarded, TransferBuffer
    <3>9. <<rides[1].to, rides[2].from>> \in Nearby /\ NumberOf[rides[1].trip] # NumberOf[rides[2].trip]
      BY <1>3, <1>8, <2>1, <2>2 DEF Different, x
    <3>10. rides[2].arrives + ws[3] = t.arrives + e
      OBVIOUS
    <3> HIDE DEF rides, ws
    <3>11. ItineraryCanBeTravelled'
      <4>1. (\A i \in 1..Len(found.rides) : OnTimetable(found.rides[i]))'
        BY <3>1, <3>6 DEF OnTimetable
      <4>2. (NoWalk \notin Range(found.walks))'
        BY <3>1, <3>3
      <4>3. Boarded(found.rides[1], ask.leave, found.walks[1], BoardingBuffer)'
        BY <1>1, <3>1, <3>7 DEF Boarded
      <4>4. (/\ ask.transfers > 0
             /\ <<found.rides[1].to, found.rides[2].from>> \in Nearby
             /\ NumberOf[found.rides[1].trip] # NumberOf[found.rides[2].trip])'
        BY <1>1, <1>2, <3>1, <3>9
      <4>5. Boarded(found.rides[2], found.rides[1].arrives, found.walks[2], TransferBuffer)'
        BY <1>1, <3>1, <3>8 DEF Boarded
      <4>6. (found.ends = found.rides[Len(found.rides)].arrives + found.walks[Len(found.rides) + 1])'
        BY <3>1, <3>10
      <4> QED
        BY <4>1, <4>2, <4>3, <4>4, <4>5, <4>6 DEF ItineraryCanBeTravelled
    <3> QED
      BY <1>1, <1>13, <2>4, <2>7, <3>11, SearchEnds DEF Ridden
  <2> QED
    BY <1>13, <2>5, <2>6, <2>7 DEF Ridden
<1> QED
  BY <1>7, <1>12, <1>13

LEMMA TravelStep == WalksInv /\ TravelInv /\ [Next]_vars => TravelInv'
<1> SUFFICES ASSUME WalksInv, TravelInv, [Next]_vars PROVE TravelInv'
  OBVIOUS
<1>1. CASE PassPair \/ PassChange
  <2>1. /\ ask' = ask /\ here' = here /\ found' = found /\ phase' = phase /\ walks' = walks
        /\ queue # <<>> /\ queue' = Tail(queue)
    BY <1>1 DEF PassPair, PassChange, NextPair
  <2> QED
    BY <2>1, SearchGoesOn DEF TravelInv
<1>2. CASE EndTransfer \/ UNCHANGED vars
  <2>1. /\ ask' = ask /\ here' = here /\ found' = found /\ walks' = walks /\ queue' = queue
        /\ (phase' = phase \/ (phase' = "done" /\ queue = <<>>))
    <3>1. CASE EndTransfer
      BY <3>1 DEF EndTransfer
    <3>2. CASE UNCHANGED vars
      BY <3>2, SMTT(30) DEF vars
    <3> QED
      BY <1>2, <3>1, <3>2
  <2>2. ItineraryCanBeTravelled'
    BY <2>1 DEF TravelInv, ItineraryCanBeTravelled, Boarded, OnTimetable
  <2>3. PairsFrom(Ready)' = PairsFrom(Ready) /\ Fours' = Fours
    BY <2>1 DEF PairsFrom, Fours, Ready
  <2> QED
    BY <2>1, <2>2, <2>3 DEF TravelInv
<1>3. CASE TryChange
  <2>1. counted.egress \in 0..2
    BY DEF WalksInv
  <2> QED
    BY <1>3, <2>1, TravelChange
<1> QED
  BY <1>1, <1>2, <1>3, TravelRank, TravelSkip, TravelWalk, TravelPair, TravelEndDirect DEF Next

\* ItineraryCanBeTravelled holds of every search: the rides are caught with
\* their buffers also when a ride is looked up again after a walk.
THEOREM ItineraryTravelled == Spec => []ItineraryCanBeTravelled
<1>1. TravelInv => ItineraryCanBeTravelled
  BY DEF TravelInv
<1> QED
  BY <1>1, WalksInit, WalksStep, TravelInit, TravelStep, PTL DEF Spec

--------------------------------------------------------------------------------
\* The boarding stops that have been walked to.
Walked == {b \in Range(Boarding) : <<Origin, b>> \in DOMAIN walks}
BoardsOf(pairs) == {p[1] : p \in pairs}

\* As long as nothing is found, a pair of the timetable is refuted or waits in
\* the queue; of the stops in it only the one in front may have been walked to.
MissInv ==
  /\ phase = "start" => walks = <<>> /\ found = None /\ counted = NotCounted /\ here = Nowhere
  /\ phase = "direct" =>
       /\ Grouped(queue)
       /\ found = None => \A p \in Pairs : Capped \/ p \in Range(queue) \/ Refuted(p[1], p[2])
       /\ here.stop # 0 => /\ <<Origin, here.stop>> \in DOMAIN walks
                           /\ walks[<<Origin, here.stop>>] = here.access
       /\ Walked \subseteq BoardsOf(Pairs) /\ Cardinality(Walked) = counted.access
       /\ \A i \in DOMAIN queue : <<Origin, queue[i][1]>> \in DOMAIN walks =>
            queue[1][1] = here.stop /\ queue[i][1] = here.stop

LEMMA PairsArePairsFrom == Pairs = PairsFrom(Ready)
BY DEF Pairs, PairsFrom

\* What has been refuted stays refuted, and a cap stays reached.
LEMMA RefutedStays ==
  ASSUME ask' = ask, DOMAIN walks \subseteq DOMAIN walks',
         \A x \in DOMAIN walks : walks'[x] = walks[x]
  PROVE  \A b, a : Refuted(b, a) => Refuted(b, a)'
<1> SUFFICES ASSUME NEW b, NEW a, Refuted(b, a) PROVE Refuted(b, a)'
  OBVIOUS
<1> DEFINE access == walks[<<Origin, b>>]
           at == ask.leave + access
           rides == Scheduled(b, a, at + BoardingBuffer)
           egress == <<a, Destination>>
<1>1. <<Origin, b>> \in DOMAIN walks /\ <<Origin, b>> \in DOMAIN walks' /\ walks'[<<Origin, b>>] = access
  BY DEF Refuted
<1>2. access # NoWalk => (rides # {} => \E r \in rides :
        \/ r.departs - at > ask.maxWait
        \/ egress \in DOMAIN walks /\ (walks[egress] = NoWalk \/ ~Affordable(<<r>>)))
  BY DEF Refuted
<1>3. \A r : Affordable(<<r>>)' <=> Affordable(<<r>>)
  BY DEF Affordable
<1> QED
  BY <1>1, <1>2, <1>3 DEF Refuted

LEMMA PairsStay ==
  ASSUME ask' = ask
  PROVE  Pairs' = Pairs
BY DEF Pairs, Ready

LEMMA CappedStays ==
  ASSUME ask' = ask, counted.egress \in Nat, counted'.egress \in Nat,
         counted.egress <= counted'.egress, Capped
  PROVE  Capped'
BY PairsStay DEF Capped

LEMMA WithoutStopFacts ==
  ASSUME NEW T, queue \in Seq(T), queue # <<>>, Grouped(queue), NEW b, b = queue[1][1]
  PROVE  /\ Grouped(WithoutStop(b))
         /\ \A x \in Range(WithoutStop(b)) : x[1] # b /\ x \in Range(queue)
         /\ \A x \in Range(queue) : x[1] = b \/ x \in Range(WithoutStop(b))
<1>1. CASE Others(b) = {}
  <2>1. WithoutStop(b) = <<>>
    BY <1>1 DEF WithoutStop
  <2>2. \A x \in Range(queue) : x[1] = b
    BY <1>1 DEF Others, Range
  <2>3. Range(<<>>) = {}
    BY DEF Range
  <2> QED
    BY <2>1, <2>2, <2>3 DEF Grouped
<1>2. CASE Others(b) # {}
  <2> DEFINE m == Min(Others(b))
             q == SubSeq(queue, m, Len(queue))
  <2>1. Others(b) \in SUBSET Nat
    BY DEF Others
  <2>2. m \in Others(b) /\ \A o \in Others(b) : m <= o
    BY <1>2, <2>1, MinOfNaturals
  <2>3. m \in 1..Len(queue) /\ queue[m][1] # b
    BY <2>2 DEF Others
  <2>4. \A k \in 1..Len(queue) : k < m => queue[k][1] = b
    <3> SUFFICES ASSUME NEW k \in 1..Len(queue), k < m, queue[k][1] # b PROVE FALSE
      OBVIOUS
    <3>1. k \in Others(b)
      BY DEF Others
    <3> QED
      BY <2>2, <2>3, <3>1
  <2>5. WithoutStop(b) = q
    BY <1>2 DEF WithoutStop
  <2> HIDE DEF m
  <2>6. /\ q \in Seq(T) /\ DOMAIN q = 1..(Len(queue) - m + 1)
        /\ \A i \in DOMAIN q : q[i] = queue[m + i - 1] /\ m + i - 1 \in 1..Len(queue)
    BY <2>3
  <2>7. \A k \in 1..Len(queue) : k >= m => queue[k][1] # b
    BY <2>3 DEF Grouped
  <2>8. \A k \in 1..Len(queue) : k >= m => k - m + 1 \in DOMAIN q /\ q[k - m + 1] = queue[k]
    BY <2>3, <2>6
  <2> HIDE DEF q
  <2>9. Grouped(q)
    <3> SUFFICES ASSUME NEW i \in DOMAIN q, NEW j \in DOMAIN q, NEW k \in DOMAIN q,
                        i <= j, j <= k, q[i][1] = q[k][1]
                 PROVE  q[j][1] = q[i][1]
      BY DEF Grouped
    <3> i \in Int /\ j \in Int /\ k \in Int /\ m \in Int
      BY <2>3, <2>6
    <3>1. /\ m + i - 1 \in 1..Len(queue) /\ m + j - 1 \in 1..Len(queue)
          /\ m + k - 1 \in 1..Len(queue)
      BY <2>6
    <3>2. m + i - 1 <= m + j - 1 /\ m + j - 1 <= m + k - 1
      OBVIOUS
    <3>3. DOMAIN queue = 1..Len(queue)
      OBVIOUS
    <3>4. queue[m + i - 1][1] = queue[m + k - 1][1]
      BY <2>6
    <3>5. queue[m + j - 1][1] = queue[m + i - 1][1]
      BY <3>1, <3>4, <3>2, <3>3 DEF Grouped
    <3> QED
      BY <2>6, <3>5
  <2>10. \A x \in Range(q) : x[1] # b /\ x \in Range(queue)
    BY <2>3, <2>6, <2>7 DEF Range
  <2>11. \A x \in Range(queue) : x[1] = b \/ x \in Range(q)
    BY <2>3, <2>4, <2>8 DEF Range
  <2> QED
    BY <2>5, <2>9, <2>10, <2>11
<1> QED
  BY <1>1, <1>2

LEMMA TailFacts ==
  ASSUME NEW T, queue \in Seq(T), queue # <<>>
  PROVE  /\ Grouped(queue) => Grouped(Tail(queue))
         /\ \A x \in Range(queue) : x = Head(queue) \/ x \in Range(Tail(queue))
         /\ \A i \in DOMAIN Tail(queue) : Tail(queue)[i] = queue[i + 1] /\ i + 1 \in DOMAIN queue
<1>1. /\ Len(queue) \in Nat /\ Len(queue) > 0 /\ DOMAIN queue = 1..Len(queue)
      /\ DOMAIN Tail(queue) = 1..(Len(queue) - 1)
      /\ \A i \in 1..(Len(queue) - 1) : Tail(queue)[i] = queue[i + 1]
      /\ Head(queue) = queue[1]
  OBVIOUS
<1>2. ASSUME Grouped(queue) PROVE Grouped(Tail(queue))
  <2> SUFFICES ASSUME NEW i \in DOMAIN Tail(queue), NEW j \in DOMAIN Tail(queue),
                      NEW k \in DOMAIN Tail(queue), i <= j, j <= k,
                      Tail(queue)[i][1] = Tail(queue)[k][1]
               PROVE  Tail(queue)[j][1] = Tail(queue)[i][1]
    BY DEF Grouped
  <2>1. /\ i + 1 \in DOMAIN queue /\ j + 1 \in DOMAIN queue /\ k + 1 \in DOMAIN queue
        /\ i + 1 <= j + 1 /\ j + 1 <= k + 1
    BY <1>1
  <2>2. queue[i + 1][1] = queue[k + 1][1]
    BY <1>1
  <2>3. queue[j + 1][1] = queue[i + 1][1]
    BY <1>2, <2>1, <2>2 DEF Grouped
  <2> QED
    BY <1>1, <2>3
<1>3. \A k \in 1..Len(queue) : k # 1 => k - 1 \in DOMAIN Tail(queue) /\ Tail(queue)[k - 1] = queue[k]
  BY <1>1
<1>4. \A x \in Range(queue) : x = Head(queue) \/ x \in Range(Tail(queue))
  <2> SUFFICES ASSUME NEW k \in 1..Len(queue)
               PROVE  queue[k] = Head(queue) \/ queue[k] \in Range(Tail(queue))
    BY <1>1 DEF Range
  <2> QED
    BY <1>1, <1>3 DEF Range
<1>5. \A i \in DOMAIN Tail(queue) : Tail(queue)[i] = queue[i + 1] /\ i + 1 \in DOMAIN queue
  BY <1>1
<1> QED
  BY <1>2, <1>4, <1>5

LEMMA FrontFacts ==
  ASSUME TravelInv, MissInv, phase = "direct", queue # <<>>
  PROVE  /\ queue \in Seq(Pairs) /\ Head(queue) = queue[1] /\ Head(queue) \in Pairs
         /\ Head(queue)[1] \in Range(Boarding) /\ Head(queue)[2] \in Range(Alighting)
         /\ Head(queue)[1] # 0 /\ Head(queue)[1] # Origin
         /\ Head(queue)[1] \in BoardsOf(Pairs)
         /\ Head(queue)[1] # here.stop =>
              \A i \in DOMAIN queue : <<Origin, queue[i][1]>> \notin DOMAIN walks
<1>1. queue \in Seq(Pairs)
  BY PairsArePairsFrom DEF TravelInv
<1>2. Head(queue) = queue[1] /\ Head(queue) \in Pairs
  BY <1>1
<1>3. Head(queue)[1] \in Range(Boarding) /\ Head(queue)[2] \in Range(Alighting)
  BY <1>2 DEF Pairs
<1>4. Head(queue)[1] # 0 /\ Head(queue)[1] # Origin
  BY <1>3, StopsFinite, BusSearchAssumption DEF Stops
<1> QED
  BY <1>1, <1>2, <1>3, <1>4 DEF BoardsOf, MissInv

LEMMA BoardsFinite == IsFiniteSet(BoardsOf(Pairs)) /\ IsFiniteSet(Walked)
<1>1. BoardsOf(Pairs) \subseteq Range(Boarding)
  BY DEF BoardsOf, Pairs
<1> QED
  BY <1>1, StopsFinite, FS_Subset DEF Walked

LEMMA MissSkip ==
  ASSUME WalksInv, TravelInv, MissInv, SkipStop
  PROVE  MissInv'
<1> DEFINE b == Head(queue)[1]
           q == WithoutStop(b)
<1>1. /\ queue # <<>> /\ b # here.stop /\ ~(counted.access < 2) /\ queue' = q
      /\ ask' = ask /\ phase' = phase /\ here' = here /\ counted' = counted
      /\ walks' = walks /\ found' = found
  BY DEF SkipStop, MayWalk
<1>2. CASE phase = "direct"
  <2>1. /\ queue \in Seq(Pairs) /\ b = queue[1][1] /\ b \in Range(Boarding)
        /\ b \in BoardsOf(Pairs) /\ 1 \in DOMAIN queue
        /\ \A i \in DOMAIN queue : <<Origin, queue[i][1]>> \notin DOMAIN walks
    BY <1>1, <1>2, FrontFacts
  <2>2. b \notin Walked
    BY <2>1 DEF Walked
  <2>3. Cardinality(Walked) = 2 /\ Walked \subseteq BoardsOf(Pairs)
    BY <1>1, <1>2 DEF MissInv, WalksInv
  <2> DEFINE B == BoardsOf(Pairs)
             W == Walked
  <2> HIDE DEF B, W
  <2>4. IsFiniteSet(B) /\ IsFiniteSet(W)
    BY BoardsFinite DEF B, W
  <2>5. IsFiniteSet(W \cup {b}) /\ Cardinality(W \cup {b}) = 3
    BY <2>2, <2>3, <2>4, FS_AddElement DEF W
  <2>6. W \cup {b} \subseteq B
    BY <2>1, <2>3 DEF B, W
  <2>7. Cardinality(B) >= 3 /\ Cardinality(B) \in Nat
    BY <2>4, <2>5, <2>6, FS_Subset, FS_CardinalityType
  <2>8. Capped
    BY <2>7 DEF Capped, B, BoardsOf
  <2>9. Capped' /\ Pairs' = Pairs /\ Walked' = Walked
    BY <1>1, <2>8, CappedStays, PairsStay DEF WalksInv, Walked
  <2>10. Grouped(queue)
    BY <1>2 DEF MissInv
  <2> HIDE DEF b, q
  <2>11. Grouped(q) /\ \A x \in Range(q) : x[1] # b /\ x \in Range(queue)
    BY <1>1, <2>1, <2>10, WithoutStopFacts DEF q
  <2>12. \A i \in DOMAIN q : <<Origin, q[i][1]>> \notin DOMAIN walks
    BY <2>1, <2>11 DEF Range
  <2> QED
    BY <1>1, <1>2, <2>9, <2>11, <2>12 DEF MissInv
<1>3. CASE phase # "direct"
  BY <1>1, <1>3 DEF MissInv
<1> QED
  BY <1>2, <1>3

\* A stop that cannot be reached refutes its pairs; the next one is in front.
LEMMA MissWalk ==
  ASSUME WalksInv, TravelInv, MissInv, WalkToStop
  PROVE  MissInv'
<1> PICK b : b = Head(queue)[1]
  OBVIOUS
<1> DEFINE x == <<Origin, b>>
<1>1. /\ queue # <<>> /\ b # here.stop /\ ask' = ask /\ phase' = phase /\ found' = found
      /\ counted.access < 2 /\ counted' = [counted EXCEPT !.access = @ + 1]
  BY DEF WalkToStop, MayWalk
<1>2. PICK w \in Answers(x) :
        /\ walks' = Known(walks, x, w)
        /\ IF w = NoWalk THEN queue' = WithoutStop(b) /\ UNCHANGED here
           ELSE here' = [stop |-> b, access |-> w] /\ UNCHANGED queue
  BY DEF WalkToStop
<1>3. CASE phase = "direct"
  <2>1. /\ queue \in Seq(Pairs) /\ b = queue[1][1] /\ b \in Range(Boarding) /\ b # 0 /\ b # Origin
        /\ b \in BoardsOf(Pairs) /\ 1 \in DOMAIN queue
        /\ \A i \in DOMAIN queue : <<Origin, queue[i][1]>> \notin DOMAIN walks
    BY <1>1, <1>3, FrontFacts
  <2>2. b \notin Walked /\ x \notin DOMAIN walks
    BY <2>1 DEF Walked
  <2>3. /\ DOMAIN walks' = DOMAIN walks \cup {x} /\ walks'[x] = w
        /\ \A y \in DOMAIN walks : walks'[y] = walks[y]
    BY <1>2, <2>1, <2>2 DEF Known
  <2>4. /\ counted' \in Counts /\ counted'.access = counted.access + 1
        /\ counted'.egress = counted.egress
    BY <1>1, CountedAccess DEF WalksInv, Counts
  <2>5. Pairs' = Pairs
    BY <1>1, PairsStay
  <2>6. Walked' = Walked \cup {b}
    BY <2>1, <2>3 DEF Walked
  <2>7. Cardinality(Walked') = counted'.access
    <3> DEFINE W == Walked
    <3>1. IsFiniteSet(W) /\ b \notin W
      BY <2>2, BoardsFinite
    <3> HIDE DEF W
    <3>2. Cardinality(W \cup {b}) = Cardinality(W) + 1
      BY <3>1, FS_AddElement
    <3>3. Walked' = W \cup {b} /\ Cardinality(W) = counted.access
      BY <1>3, <2>6 DEF W, MissInv
    <3> QED
      BY <2>4, <3>2, <3>3
  <2>8. Walked' \subseteq BoardsOf(Pairs)'
    BY <1>3, <2>1, <2>5, <2>6 DEF MissInv, BoardsOf
  <2>9. Capped => Capped'
    BY <1>1, <2>4, CappedStays DEF Counts, WalksInv
  <2>10. \A c, a : Refuted(c, a) => Refuted(c, a)'
    BY <1>1, <2>3, RefutedStays
  <2>11. found' = None => \A p \in Pairs : Capped' \/ p \in Range(queue) \/ Refuted(p[1], p[2])'
    BY <1>1, <1>3, <2>9, <2>10 DEF MissInv
  <2>12. Grouped(queue)
    BY <1>3 DEF MissInv
  <2>13. CASE w = NoWalk
    <3> DEFINE q == WithoutStop(b)
    <3>1. queue' = q /\ here' = here
      BY <1>2, <2>13
    <3> HIDE DEF q
    <3>2. /\ Grouped(q) /\ \A p \in Range(q) : p[1] # b /\ p \in Range(queue)
          /\ \A p \in Range(queue) : p[1] = b \/ p \in Range(q)
      BY <1>1, <2>1, <2>12, WithoutStopFacts DEF q
    <3>3. \A a : Refuted(b, a)'
      BY <2>3, <2>13 DEF Refuted
    <3>4. found' = None => \A p \in Pairs : Capped' \/ p \in Range(q) \/ Refuted(p[1], p[2])'
      BY <2>11, <3>2, <3>3
    <3>5. \A i \in DOMAIN q : q[i][1] # b /\ <<Origin, q[i][1]>> \notin DOMAIN walks
      BY <2>1, <3>2 DEF Range
    <3>6. \A i \in DOMAIN q : <<Origin, q[i][1]>> \notin DOMAIN walks'
      BY <2>3, <3>5
    <3>7. here'.stop # 0 => /\ <<Origin, here'.stop>> \in DOMAIN walks'
                            /\ walks'[<<Origin, here'.stop>>] = here'.access
      BY <1>3, <2>3, <3>1 DEF MissInv
    <3> QED
      BY <1>1, <1>3, <2>5, <2>7, <2>8, <3>1, <3>2, <3>4, <3>6, <3>7 DEF MissInv
  <2>14. CASE w # NoWalk
    <3>1. queue' = queue /\ here'.stop = b /\ here'.access = w
      BY <1>2, <2>14
    <3>2. \A i \in DOMAIN queue : <<Origin, queue[i][1]>> \in DOMAIN walks' =>
            queue[1][1] = b /\ queue[i][1] = b
      BY <2>1, <2>3
    <3>3. here'.stop # 0 => /\ <<Origin, here'.stop>> \in DOMAIN walks'
                            /\ walks'[<<Origin, here'.stop>>] = here'.access
      BY <2>3, <3>1
    <3> QED
      BY <1>1, <1>3, <2>5, <2>7, <2>8, <2>11, <2>12, <3>1, <3>2, <3>3 DEF MissInv
  <2> QED
    BY <2>13, <2>14
<1>4. CASE phase # "direct"
  <2>1. phase # "start"
    BY <1>1 DEF TravelInv
  <2> QED
    BY <1>1, <1>4, <2>1 DEF MissInv
<1> QED
  BY <1>3, <1>4

\* The queue moves on behind a pair that is refuted, or because a cap is reached.
LEMMA MissMovesOn ==
  ASSUME WalksInv, TravelInv, MissInv, phase = "direct", queue # <<>>,
         Head(queue)[1] = here.stop, queue' = Tail(queue),
         ask' = ask, phase' = phase, here' = here, found' = found,
         NEW f, f = Head(queue),
         DOMAIN walks \subseteq DOMAIN walks', \A y \in DOMAIN walks : walks'[y] = walks[y],
         \A b \in Range(Boarding) : <<Origin, b>> \in DOMAIN walks' => <<Origin, b>> \in DOMAIN walks,
         counted'.access = counted.access, counted'.egress \in Nat,
         counted.egress <= counted'.egress,
         found = None => Capped' \/ Refuted(f[1], f[2])'
  PROVE  MissInv'
<1> DEFINE q == Tail(queue)
<1>1. /\ queue \in Seq(Pairs) /\ Head(queue) = queue[1]
  BY FrontFacts
<1>2. /\ Grouped(q) /\ \A p \in Range(queue) : p = f \/ p \in Range(q)
      /\ \A i \in DOMAIN q : q[i] = queue[i + 1] /\ i + 1 \in DOMAIN queue
  BY <1>1, TailFacts DEF MissInv
<1>3. DOMAIN q = 1..(Len(queue) - 1) /\ DOMAIN queue = 1..Len(queue) /\ Len(queue) \in Nat
  BY <1>1
<1> HIDE DEF q
<1>4. Pairs' = Pairs
  BY PairsStay
<1>5. Capped => Capped'
  BY CappedStays DEF WalksInv
<1>6. \A c, a : Refuted(c, a) => Refuted(c, a)'
  BY RefutedStays
<1>7. found' = None => \A p \in Pairs : Capped' \/ p \in Range(q) \/ Refuted(p[1], p[2])'
  BY <1>2, <1>5, <1>6 DEF MissInv
<1>8. Walked' = Walked
  BY DEF Walked
<1>9. \A i \in DOMAIN q : q[i][1] \in Range(Boarding)
  BY <1>1, <1>2 DEF Pairs
<1>10. \A i \in DOMAIN q : <<Origin, q[i][1]>> \in DOMAIN walks' =>
         q[1][1] = here.stop /\ q[i][1] = here.stop
  <2> SUFFICES ASSUME NEW i \in DOMAIN q, <<Origin, q[i][1]>> \in DOMAIN walks'
               PROVE  q[1][1] = here.stop /\ q[i][1] = here.stop
    OBVIOUS
  <2>1. queue[i + 1][1] = here.stop /\ queue[1][1] = here.stop /\ q[i] = queue[i + 1]
    BY <1>2, <1>9 DEF MissInv
  <2>2. 1 \in DOMAIN q /\ q[1] = queue[2] /\ i \in Int /\ 2 <= i + 1 /\ 1 \in DOMAIN queue
        /\ 2 \in DOMAIN queue /\ i + 1 \in DOMAIN queue
    BY <1>2, <1>3
  <2>3. queue[2][1] = queue[1][1]
    BY <2>1, <2>2 DEF MissInv, Grouped
  <2> QED
    BY <2>1, <2>2, <2>3
<1>11. here'.stop # 0 => /\ <<Origin, here'.stop>> \in DOMAIN walks'
                         /\ walks'[<<Origin, here'.stop>>] = here'.access
  BY DEF MissInv
<1>12. queue' = q
  BY DEF q
<1> QED
  BY <1>2, <1>4, <1>7, <1>8, <1>10, <1>11, <1>12 DEF MissInv, BoardsOf

LEMMA MissPass ==
  ASSUME WalksInv, TravelInv, MissInv, PassPair
  PROVE  MissInv'
<1>1. /\ phase = "direct" /\ queue # <<>> /\ Head(queue)[1] = here.stop /\ queue' = Tail(queue)
      /\ ask' = ask /\ phase' = phase /\ here' = here /\ found' = found
      /\ walks' = walks /\ counted' = counted
  BY DEF PassPair, NextPair
<1> PICK f : f = Head(queue)
  OBVIOUS
<1>2. /\ f \in Pairs /\ f[1] = here.stop /\ here.stop # 0
  BY <1>1, FrontFacts
<1>3. <<Origin, f[1]>> \in DOMAIN walks /\ walks[<<Origin, f[1]>>] = here.access
  BY <1>1, <1>2 DEF MissInv
<1>4. AtStop \in Nat /\ ask.maxWait \in Nat
  BY ReadyIsNatural DEF TravelInv, AtStop
<1> DEFINE rides == Scheduled(f[1], f[2], AtStop + BoardingBuffer)
<1>5. \A r \in rides : r.departs \in Nat
  BY <1>4, ScheduledAreTyped DEF BoardingBuffer
<1>6. /\ rides = Scheduled(f[1], f[2], (ask.leave + walks[<<Origin, f[1]>>]) + BoardingBuffer)
      /\ AtStop = ask.leave + walks[<<Origin, f[1]>>]
  BY <1>3 DEF AtStop
<1> HIDE DEF rides
<1>7. rides = {} \/ (\E r \in rides : ~CatchableFirst(r)) => Refuted(f[1], f[2])
  <2>1. CASE rides = {}
    BY <1>3, <1>6, <2>1 DEF Refuted
  <2>2. CASE \E r \in rides : ~CatchableFirst(r)
    <3>1. PICK r \in rides : ~(r.departs - AtStop <= ask.maxWait)
      BY <2>2 DEF CatchableFirst, Waits
    <3>2. r.departs - AtStop > ask.maxWait
      BY <1>4, <1>5, <3>1
    <3>3. r.departs - (ask.leave + walks[<<Origin, f[1]>>]) > ask.maxWait
      BY <1>6, <3>2
    <3> QED
      BY <1>3, <1>6, <3>3 DEF Refuted
  <2> QED
    BY <2>1, <2>2
<1>8. Capped \/ Refuted(f[1], f[2])
  <2>1. CASE counted.egress >= 2
    BY <2>1 DEF Capped
  <2>2. rides = {} \/ (\E r \in rides : ~CatchableFirst(r)) \/ counted.egress >= 2
    BY <1>2 DEF PassPair, rides
  <2> QED
    BY <1>7, <2>1, <2>2
<1>9. counted.egress \in Nat
  BY DEF WalksInv
<1>10. Capped => Capped'
  BY <1>1, <1>9, CappedStays
<1>11. Refuted(f[1], f[2]) => Refuted(f[1], f[2])'
  BY <1>1, RefutedStays
<1> QED
  BY <1>1, <1>8, <1>9, <1>10, <1>11, MissMovesOn

LEMMA MissTry ==
  ASSUME WalksInv, TravelInv, MissInv, TryPair
  PROVE  MissInv'
<1> PICK f : f = Head(queue)
  OBVIOUS
<1>1. /\ phase = "direct" /\ queue # <<>> /\ f[1] = here.stop
      /\ ask' = ask /\ phase' = phase /\ here' = here /\ counted.egress < 2
      /\ counted' = [counted EXCEPT !.egress = @ + 1]
  BY DEF TryPair, CountEgress
<1>2. f \in Pairs /\ f[1] # 0 /\ f[1] # Origin /\ f[2] \in Range(Alighting)
  BY <1>1, FrontFacts
<1>3. <<Origin, f[1]>> \in DOMAIN walks /\ walks[<<Origin, f[1]>>] = here.access
  BY <1>1, <1>2 DEF MissInv
<1>4. AtStop \in Nat
  BY ReadyIsNatural DEF TravelInv, AtStop
<1>5. PICK r \in Scheduled(f[1], f[2], AtStop + BoardingBuffer) :
        \E w \in Answers(<<r.to, Destination>>) :
          /\ walks' = Known(walks, <<r.to, Destination>>, w)
          /\ IF w # NoWalk /\ Affordable(<<r>>)
             THEN /\ found' = Itinerary(<<r>>, <<here.access, w>>)
                  /\ queue' = <<>>
             ELSE queue' = NextPair /\ UNCHANGED found
  BY <1>1 DEF TryPair
<1>6. PICK w \in Answers(<<r.to, Destination>>) :
          /\ walks' = Known(walks, <<r.to, Destination>>, w)
          /\ IF w # NoWalk /\ Affordable(<<r>>)
             THEN /\ found' = Itinerary(<<r>>, <<here.access, w>>)
                  /\ queue' = <<>>
             ELSE queue' = NextPair /\ UNCHANGED found
  BY <1>5
<1>7. r.to = f[2]
  BY <1>4, <1>5, ScheduledAreTyped DEF BoardingBuffer
<1> DEFINE y == <<f[2], Destination>>
<1>8. f[2] # Origin /\ f[2] # Destination
  BY <1>2, BusSearchAssumption
<1>9. /\ DOMAIN walks' = DOMAIN walks \cup {y}
      /\ \A x \in DOMAIN walks : walks'[x] = walks[x]
      /\ walks'[y] = w
  BY <1>6, <1>7, <1>8 DEF Known, Answers
<1>10. \A b : <<Origin, b>> # y
  BY <1>8
<1>11. /\ counted' \in Counts /\ counted'.access = counted.access
       /\ counted'.egress = counted.egress + 1 /\ counted.egress \in Nat /\ counted'.egress \in Nat
  BY <1>1, CountedEgress DEF WalksInv, Counts
<1>12. CASE ~(w # NoWalk /\ Affordable(<<r>>))
  <2>1. queue' = Tail(queue) /\ found' = found
    BY <1>6, <1>12 DEF NextPair
  <2>2. Affordable(<<r>>)' <=> Affordable(<<r>>)
    BY <1>1 DEF Affordable
  <2>3. Scheduled(f[1], f[2], AtStop + BoardingBuffer)
          = Scheduled(f[1], f[2], ask'.leave + walks'[<<Origin, f[1]>>] + BoardingBuffer)
    BY <1>1, <1>3, <1>9 DEF AtStop
  <2>4. y \in DOMAIN walks' /\ (walks'[y] = NoWalk \/ ~Affordable(<<r>>)')
    BY <1>9, <1>12, <2>2
  <2>5. <<Origin, f[1]>> \in DOMAIN walks'
    BY <1>3, <1>9
  <2>6. Refuted(f[1], f[2])'
    BY <1>5, <2>3, <2>4, <2>5 DEF Refuted
  <2> QED
    BY <1>1, <1>9, <1>10, <1>11, <2>1, <2>6, MissMovesOn
<1>13. CASE w # NoWalk /\ Affordable(<<r>>)
  <2>1. found' = Itinerary(<<r>>, <<here.access, w>>) /\ queue' = <<>>
    BY <1>6, <1>13
  <2>2. found' # None
    <3>1. found'.rides = <<r>> /\ None.rides = <<>>
      BY <2>1 DEF Itinerary, None
    <3>2. <<r>> # <<>>
      OBVIOUS
    <3> QED
      BY <3>1, <3>2
  <2>3. Walked' = Walked /\ Pairs' = Pairs
    BY <1>1, <1>9, <1>10, PairsStay DEF Walked
  <2>4. here'.stop # 0 => /\ <<Origin, here'.stop>> \in DOMAIN walks'
                          /\ walks'[<<Origin, here'.stop>>] = here'.access
    BY <1>1, <1>3, <1>9
  <2> QED
    BY <1>1, <1>11, <2>1, <2>2, <2>3, <2>4 DEF MissInv, Grouped, BoardsOf
<1> QED
  BY <1>12, <1>13

LEMMA MissRank ==
  ASSUME WalksInv, TravelInv, MissInv, Rank
  PROVE  MissInv'
<1>1. /\ phase = "start" /\ phase' = "direct" /\ queue' = DirectQueue(Ready)
      /\ ask' = ask /\ here' = Nowhere /\ counted' = NotCounted /\ walks' = <<>> /\ found' = None
  BY DEF Rank, MissInv
<1>2. Ready \in Nat
  BY ReadyIsNatural DEF TravelInv
<1>3. Pairs' = Pairs /\ Pairs = PairsFrom(Ready)
  BY <1>1, PairsStay, PairsArePairsFrom
<1>4. Grouped(queue')
  BY <1>1, <1>2, DirectQueueFacts
<1>5. Cardinality(Pairs) <= MaxPairs => Range(queue') = Pairs
  BY <1>1, <1>2, <1>3, DirectQueueFacts
<1>6. Cardinality(Pairs) \in Nat
  BY <1>3, PairsFinite, FS_CardinalityType
<1>7. \A p \in Pairs : Capped' \/ p \in Range(queue')
  BY <1>3, <1>5, <1>6 DEF Capped, MaxPairs
<1>8. Walked' = {} /\ DOMAIN walks' = {}
  BY <1>1 DEF Walked
<1>9. Cardinality(Walked') = 0
  BY <1>8, FS_EmptySet
<1> QED
  BY <1>1, <1>3, <1>4, <1>7, <1>8, <1>9 DEF MissInv, Nowhere, NotCounted

LEMMA MissStep == WalksInv /\ TravelInv /\ MissInv /\ [Next]_vars => MissInv'
<1> SUFFICES ASSUME WalksInv, TravelInv, MissInv, [Next]_vars PROVE MissInv'
  OBVIOUS
<1>1. CASE EndDirect \/ PassChange \/ TryChange \/ EndTransfer
  <2>1. phase' \notin {"start", "direct"}
    BY <1>1 DEF EndDirect, PassChange, TryChange, EndTransfer, GivenUp, Ridden
  <2> QED
    BY <2>1 DEF MissInv
<1>2. CASE UNCHANGED vars
  <2>1. Walked' = Walked /\ Pairs' = Pairs /\ (Capped => Capped')
        /\ \A b, a : Refuted(b, a) => Refuted(b, a)'
    BY <1>2, PairsStay, RefutedStays, CappedStays DEF vars, Walked, WalksInv
  <2> QED
    BY <1>2, <2>1 DEF MissInv, vars
<1> QED
  BY <1>1, <1>2, MissSkip, MissWalk, MissPass, MissTry, MissRank DEF Next

\* NothingIsMissed holds of every search: a direct search that finds nothing has
\* reached a cap or has seen every pair of stops fail.
THEOREM NothingMissed == Spec => []NothingIsMissed
<1>1. Init => MissInv
  BY DEF Init, MissInv
<1>2. MissInv => NothingIsMissed
  BY DEF MissInv, NothingIsMissed, Range
<1> QED
  BY <1>1, <1>2, WalksInit, WalksStep, TravelInit, TravelStep, MissStep, PTL DEF Spec
================================================================================
