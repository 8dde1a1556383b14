--------------------------- MODULE CompactionProofs ---------------------------
(***************************************************************************)
(* What Compaction does to a list of any length, whatever is dropped: the  *)
(* proofs about the rows of the listing and the entries of the jump list   *)
(* rest on it.                                                             *)
(***************************************************************************)
EXTENDS Compaction, FiniteSetTheorems, SequenceTheorems, TLAPS

\* An interval has no more elements than its ends allow, nor has a part of it.
LEMMA PartOfInterval ==
  ASSUME NEW a \in Int, NEW b \in Int, NEW D, \A j \in D : j \in a .. b, a <= b + 1
  PROVE  IsFiniteSet(D) /\ Cardinality(D) \in 0 .. b - a + 1
<1>1. IsFiniteSet(a .. b) /\ Cardinality(a .. b) = b - a + 1
  BY FS_Interval
<1>2. D \in SUBSET (a .. b)
  OBVIOUS
<1>3. IsFiniteSet(D) /\ Cardinality(D) <= Cardinality(a .. b)
  BY <1>1, <1>2, FS_Subset
<1>4. Cardinality(D) \in Nat
  BY <1>3, FS_CardinalityType
<1>5. QED
  BY <1>1, <1>3, <1>4

\* A set in two parts has no more elements than the parts.
LEMMA CardinalityOfParts ==
  ASSUME NEW S, NEW A, NEW B, IsFiniteSet(A), IsFiniteSet(B), \A x \in S : x \in A \/ x \in B
  PROVE  Cardinality(S) <= Cardinality(A) + Cardinality(B)
<1>1. /\ IsFiniteSet(A \cup B)
      /\ Cardinality(A \cup B) = Cardinality(A) + Cardinality(B) - Cardinality(A \cap B)
  BY FS_Union
<1>2. IsFiniteSet(A \cap B) /\ Cardinality(A \cap B) \in Nat
  BY FS_Intersection, FS_CardinalityType
<1>3. S \in SUBSET (A \cup B)
  OBVIOUS
<1>4. IsFiniteSet(S) /\ Cardinality(S) <= Cardinality(A \cup B)
  BY <1>1, <1>3, FS_Subset
<1>5. Cardinality(S) \in Nat /\ Cardinality(A) \in Nat /\ Cardinality(B) \in Nat
  BY <1>4, FS_CardinalityType
<1>6. Cardinality(A \cup B) \in Nat
  BY <1>1, FS_CardinalityType
<1>7. QED
  BY <1>1, <1>2, <1>4, <1>5, <1>6

\* Those that stay keep their order and fill the positions from 1 on.
LEMMA PositionIsBijective ==
  ASSUME NEW n \in Nat, NEW D \in SUBSET (1 .. n)
  PROVE  /\ Cardinality(D) \in 0 .. n
         /\ \A i \in (1 .. n) \ D : Position(i, D) \in 1 .. n - Cardinality(D)
         /\ \A i, j \in (1 .. n) \ D : i < j => Position(i, D) < Position(j, D)
         /\ \A k \in 1 .. n - Cardinality(D) : \E i \in (1 .. n) \ D : Position(i, D) = k
<1> DEFINE Before(i) == {j \in D : j < i}
           Stay == (1 .. n) \ D
<1>1. IsFiniteSet(D) /\ Cardinality(D) \in 0 .. n
  <2>1. 1 \in Int /\ n \in Int /\ 1 <= n + 1 /\ \A j \in D : j \in 1 .. n
    OBVIOUS
  <2>2. IsFiniteSet(D) /\ Cardinality(D) \in 0 .. n - 1 + 1
    BY <2>1, PartOfInterval
  <2>3. QED
    BY <2>2
<1>2. ASSUME NEW i \in 1 .. n
      PROVE  /\ IsFiniteSet(Before(i)) /\ Cardinality(Before(i)) \in 0 .. i - 1
             /\ Position(i, D) = i - Cardinality(Before(i))
  <2>1. \A j \in Before(i) : j \in 1 .. i - 1
    OBVIOUS
  <2>2. IsFiniteSet(Before(i)) /\ Cardinality(Before(i)) \in 0 .. i - 1
    <3> HIDE DEF Before
    <3>1. IsFiniteSet(Before(i)) /\ Cardinality(Before(i)) \in 0 .. (i - 1) - 1 + 1
      BY <2>1, PartOfInterval
    <3>2. QED
      BY <3>1
  <2>3. QED
    BY <2>2 DEF Position
<1>3. ASSUME NEW i \in Stay, NEW j \in 1 .. n, i < j
      PROVE  Cardinality(Before(j)) <= Cardinality(Before(i)) + (j - i - 1)
  <2> DEFINE Between == (i + 1) .. (j - 1)
  <2>1. \A x \in Before(j) : x \in Before(i) \/ x \in Between
    BY <1>3
  <2>2. IsFiniteSet(Between) /\ Cardinality(Between) = j - i - 1
    BY <1>3, FS_Interval
  <2>3. IsFiniteSet(Before(i)) /\ Cardinality(Before(i)) \in Nat /\ Cardinality(Before(j)) \in Nat
    BY <1>2
  <2> HIDE DEF Before, Between
  <2>4. Cardinality(Before(j)) <= Cardinality(Before(i)) + Cardinality(Between)
    BY <2>1, <2>2, <2>3, CardinalityOfParts
  <2>5. QED
    BY <2>2, <2>3, <2>4
<1>4. ASSUME NEW i \in Stay PROVE Cardinality(D) <= Cardinality(Before(i)) + (n - i)
  <2> DEFINE After == (i + 1) .. n
  <2>1. \A x \in D : x \in Before(i) \/ x \in After
    OBVIOUS
  <2>2. IsFiniteSet(After) /\ Cardinality(After) = n - i
    BY FS_Interval
  <2>3. IsFiniteSet(Before(i)) /\ Cardinality(Before(i)) \in Nat
    BY <1>2
  <2> HIDE DEF Before, After
  <2>4. Cardinality(D) <= Cardinality(Before(i)) + Cardinality(After)
    BY <1>1, <2>1, <2>2, <2>3, CardinalityOfParts
  <2>5. QED
    BY <1>1, <2>2, <2>3, <2>4
<1>5. \A i, j \in Stay : i < j => Position(i, D) < Position(j, D)
  <2> TAKE i, j \in Stay
  <2> HAVE i < j
  <2> HIDE DEF Before
  <2>1. Cardinality(Before(j)) <= Cardinality(Before(i)) + (j - i - 1)
    BY <1>3
  <2>2. QED
    BY <1>2, <2>1
<1>6. \A i \in Stay : Position(i, D) \in 1 .. n - Cardinality(D)
  <2> TAKE i \in Stay
  <2> HIDE DEF Before
  <2>1. Cardinality(D) <= Cardinality(Before(i)) + (n - i)
    BY <1>4
  <2>2. QED
    BY <1>1, <1>2, <2>1
<1>7. IsFiniteSet(Stay) /\ Cardinality(Stay) = n - Cardinality(D)
  <2>1. IsFiniteSet(1 .. n) /\ Cardinality(1 .. n) = n
    BY FS_Interval
  <2>2. (1 .. n) \cap D = D
    OBVIOUS
  <2>3. IsFiniteSet(Stay) /\ Cardinality(Stay) = Cardinality(1 .. n) - Cardinality((1 .. n) \cap D)
    BY <2>1, FS_Difference
  <2>4. QED
    BY <2>1, <2>2, <2>3
<1>8. \A k \in 1 .. n - Cardinality(D) : \E i \in Stay : Position(i, D) = k
  <2> DEFINE f == [i \in Stay |-> Position(i, D)]
             T == 1 .. n - Cardinality(D)
  <2> HIDE DEF Stay
  <2>1. f \in [Stay -> T]
    BY <1>6
  <2>2. \A i, j \in Stay : f[i] = f[j] => i = j
    <3> TAKE i, j \in Stay
    <3>1. i \in Int /\ j \in Int
      BY DEF Stay
    <3>2. f[i] \in Int /\ f[j] \in Int /\ f[i] = Position(i, D) /\ f[j] = Position(j, D)
      BY <1>1, <1>6
    <3>3. QED
      BY <1>5, <3>1, <3>2
  <2>3. f \in Injection(Stay, T)
    <3> HIDE DEF f, T
    <3> QED BY <2>1, <2>2 DEF Injection, IsInjective
  <2>4. IsFiniteSet(T) /\ Cardinality(T) = n - Cardinality(D)
    <3>1. /\ n - Cardinality(D) \in Int
          /\ (IF 1 > n - Cardinality(D) THEN 0 ELSE n - Cardinality(D) - 1 + 1) = n - Cardinality(D)
      BY <1>1
    <3>2. QED
      BY <3>1, FS_Interval
  <2>5. f \in Surjection(Stay, T)
    <3> HIDE DEF f, T
    <3> QED BY <1>7, <2>3, <2>4, FS_Injection
  <2>6. QED
    BY <2>5 DEF Surjection
<1>9. QED
  BY <1>1, <1>5, <1>6, <1>8

\* What is left of a list are the entries not dropped, each once, in their order.
LEMMA WithoutIsCompact ==
  ASSUME NEW S, NEW list \in Seq(S), NEW D \in SUBSET DOMAIN list
  PROVE  /\ Without(list, D) \in Seq(S)
         /\ \A i \in DOMAIN list \ D :
              /\ Position(i, D) \in DOMAIN Without(list, D)
              /\ Without(list, D)[Position(i, D)] = list[i]
         /\ \A k \in DOMAIN Without(list, D) :
              \E i \in DOMAIN list \ D : k = Position(i, D) /\ Without(list, D)[k] = list[i]
         /\ \A i, j \in DOMAIN list \ D : i < j => Position(i, D) < Position(j, D)
<1> DEFINE n == Len(list)
           m == n - Cardinality(D)
           At(k) == CHOOSE i \in (1 .. n) \ D : Position(i, D) = k
<1>1. n \in Nat /\ DOMAIN list = 1 .. n /\ D \in SUBSET (1 .. n)
  OBVIOUS
<1> HIDE DEF n
<1>2. /\ Cardinality(D) \in 0 .. n
      /\ \A i \in (1 .. n) \ D : Position(i, D) \in 1 .. m
      /\ \A i, j \in (1 .. n) \ D : i < j => Position(i, D) < Position(j, D)
      /\ \A k \in 1 .. m : \E i \in (1 .. n) \ D : Position(i, D) = k
  BY <1>1, PositionIsBijective
<1>3. \A k \in 1 .. m : At(k) \in (1 .. n) \ D /\ Position(At(k), D) = k
  BY <1>2
<1>4. m \in Nat
  BY <1>1, <1>2
<1>5. Without(list, D) = [k \in 1 .. m |-> list[At(k)]]
  BY <1>1 DEF Without, n
<1> HIDE DEF At, m
<1>6. \A i \in (1 .. n) \ D : At(Position(i, D)) = i
  <2> TAKE i \in (1 .. n) \ D
  <2> DEFINE k == Position(i, D)
  <2>1. k \in 1 .. m /\ k \in Int
    BY <1>2, <1>4
  <2>2. At(k) \in (1 .. n) \ D /\ Position(At(k), D) = k
    BY <1>3, <2>1
  <2> HIDE DEF k
  <2>3. ~(At(k) < i) /\ ~(i < At(k))
    BY <1>2, <2>1, <2>2 DEF k
  <2>4. i \in Int /\ At(k) \in Int
    BY <1>1, <2>2
  <2>5. QED
    BY <2>3, <2>4 DEF k
<1>7. Without(list, D) \in Seq(S)
  <2>1. \A k \in 1 .. m : list[At(k)] \in S
    BY <1>1, <1>3
  <2>2. QED
    BY <1>4, <1>5, <2>1
<1>8. DOMAIN Without(list, D) = 1 .. m
  BY <1>5
<1>9. \A i \in (1 .. n) \ D : Without(list, D)[Position(i, D)] = list[i]
  BY <1>2, <1>5, <1>6
<1>10. \A k \in 1 .. m : k = Position(At(k), D) /\ Without(list, D)[k] = list[At(k)]
  BY <1>3, <1>5
<1>11. QED
  BY <1>1, <1>2, <1>3, <1>7, <1>8, <1>9, <1>10
\* A list without what is dropped is as long as the number of those that stay.
LEMMA LengthWithout ==
  ASSUME NEW S, NEW list \in Seq(S), NEW D \in SUBSET DOMAIN list
  PROVE  /\ Cardinality(D) \in 0 .. Len(list) /\ Len(Without(list, D)) = Len(list) - Cardinality(D)
         /\ DOMAIN Without(list, D) = 1 .. Len(list) - Cardinality(D)
<1>1. Len(list) \in Nat /\ D \in SUBSET (1 .. Len(list))
  OBVIOUS
<1>2. Cardinality(D) \in 0 .. Len(list)
  BY <1>1, PositionIsBijective
<1>3. DOMAIN Without(list, D) = 1 .. Len(list) - Cardinality(D)
  BY DEF Without
<1>4. Without(list, D) \in Seq(S)
  BY WithoutIsCompact
<1> DEFINE w == Without(list, D)
<1> HIDE DEF w
<1>5. w \in Seq(S) /\ DOMAIN w = 1 .. Len(list) - Cardinality(D)
  BY <1>3, <1>4 DEF w
<1>6. Len(w) = Len(list) - Cardinality(D)
  BY <1>1, <1>2, <1>5
<1> QED
  BY <1>2, <1>3, <1>6 DEF w

\* A list of that length that has those that stay where they move is what is left.
LEMMA WithoutIsUnique ==
  ASSUME NEW S, NEW list \in Seq(S), NEW D \in SUBSET DOMAIN list, NEW T, NEW q \in Seq(T),
         Len(q) = Len(list) - Cardinality(D), \A i \in DOMAIN list \ D : q[Position(i, D)] = list[i]
  PROVE  q = Without(list, D)
<1> DEFINE w == Without(list, D)
<1>1. /\ w \in Seq(S)
      /\ \A k \in DOMAIN w : \E i \in DOMAIN list \ D : k = Position(i, D) /\ w[k] = list[i]
  <2>1. /\ Without(list, D) \in Seq(S)
        /\ \A k \in DOMAIN Without(list, D) :
             \E i \in DOMAIN list \ D : k = Position(i, D) /\ Without(list, D)[k] = list[i]
    BY WithoutIsCompact
  <2> QED
    BY <2>1
<1>2. Len(w) = Len(list) - Cardinality(D)
  BY LengthWithout
<1> HIDE DEF w
<1>3. \A k \in 1 .. Len(w) : q[k] = w[k]
  BY <1>1
<1>4. Len(w) = Len(q) /\ DOMAIN w = 1 .. Len(w) /\ DOMAIN q = 1 .. Len(q)
  BY <1>1, <1>2
<1>5. q = [k \in 1 .. Len(w) |-> q[k]] /\ w = [k \in 1 .. Len(w) |-> w[k]]
  BY <1>1, <1>4
<1>6. q = w
  BY <1>3, <1>5
<1> QED
  BY <1>6 DEF w

\* Numbers that are all moved by the same amount are as many as before.
LEMMA ShiftedSet ==
  ASSUME NEW D, IsFiniteSet(D), \A d \in D : d \in Int, NEW a \in Int, NEW E, \A k \in E : k \in Int,
         \A k \in Int : k \in E <=> k + a \in D
  PROVE  IsFiniteSet(E) /\ Cardinality(E) = Cardinality(D)
<1> DEFINE f == [d \in D |-> d - a]
<1>1. \A d \in D : d - a \in E /\ f[d] = d - a /\ d \in Int
  <2> TAKE d \in D
  <2>1. d \in Int /\ d - a \in Int /\ (d - a) + a = d
    OBVIOUS
  <2> QED
    BY <2>1
<1>2. \A k \in E : k \in Int /\ k + a \in D /\ (k + a) - a = k
  OBVIOUS
<1>3. f \in [D -> E]
  BY <1>1
<1>4. \A c, d \in D : f[c] = f[d] => c = d
  BY <1>1
<1>5. \A k \in E : \E d \in D : f[d] = k
  BY <1>1, <1>2
<1> HIDE DEF f
<1>6. f \in Bijection(D, E)
  BY <1>3, <1>4, <1>5 DEF Bijection, Injection, Surjection, IsInjective
<1>7. ExistsBijection(D, E)
  BY <1>6 DEF ExistsBijection
<1> QED
  BY <1>7, FS_Bijection

\* Positions behind a, counted from there.
Inside(D, a, b) == {k \in 1 .. b - a : k + a \in D}

\* What is dropped behind an entry does not move it.
LEMMA NoneBefore ==
  ASSUME NEW i \in Int, NEW D, \A d \in D : ~(d < i)
  PROVE  Position(i, D) = i
<1>1. {d \in D : d < i} = {}
  OBVIOUS
<1>2. Cardinality({d \in D : d < i}) = 0
  BY <1>1, FS_EmptySet
<1> QED
  BY <1>2 DEF Position

\* What is dropped before it moves it, each by one.
LEMMA AllBefore ==
  ASSUME NEW i, NEW D, \A d \in D : d < i
  PROVE  Position(i, D) = i - Cardinality(D)
<1>1. {d \in D : d < i} = D
  OBVIOUS
<1> QED
  BY <1>1 DEF Position

\* Among those in between positions are as when counted from there.
LEMMA PositionInside ==
  ASSUME NEW a \in Nat, NEW b \in Nat, a <= b, NEW D, \A d \in D : d \in a + 1 .. b
  PROVE  /\ Cardinality(Inside(D, a, b)) = Cardinality(D) /\ Cardinality(D) \in 0 .. b - a
         /\ \A i \in a + 1 .. b : Position(i, D) = a + Position(i - a, Inside(D, a, b))
<1> DEFINE E == Inside(D, a, b)
<1>1. /\ a \in Int /\ \A d \in D : d \in Int
      /\ \A k \in E : k \in Int
      /\ \A k \in Int : k \in E <=> k + a \in D
  <2>1. ASSUME NEW k \in Int, k + a \in D PROVE k \in E
    <3>1. k + a \in a + 1 .. b
      BY <2>1
    <3>2. k \in 1 .. b - a
      BY <3>1
    <3> QED
      BY <2>1, <3>2 DEF Inside
  <2> QED
    BY <2>1 DEF Inside
<1> HIDE DEF E
<1> DEFINE Before(i) == {j \in D : j < i}
           BeforeIn(i) == {j \in E : j < i}
<1>2. IsFiniteSet(D) /\ Cardinality(D) \in 0 .. b - a
  <2>1. a + 1 \in Int /\ b \in Int /\ a + 1 <= b + 1 /\ \A j \in D : j \in a + 1 .. b
    OBVIOUS
  <2>2. IsFiniteSet(D) /\ Cardinality(D) \in 0 .. b - (a + 1) + 1
    BY <2>1, PartOfInterval
  <2> QED
    BY <2>2
<1>3. IsFiniteSet(E) /\ Cardinality(E) = Cardinality(D)
  BY <1>1, <1>2, ShiftedSet, Zenon
<1>5. \A i \in a + 1 .. b : Position(i, D) = a + Position(i - a, E)
  <2> TAKE i \in a + 1 .. b
  <2>1. IsFiniteSet(Before(i)) /\ \A d \in Before(i) : d \in Int
    <3>1. Before(i) \in SUBSET D
      OBVIOUS
    <3> QED
      BY <1>2, <3>1, FS_Subset
  <2>2. /\ \A k \in BeforeIn(i - a) : k \in Int
        /\ \A k \in Int : k \in BeforeIn(i - a) <=> k + a \in Before(i)
    BY <1>1
  <2>3. Cardinality(Before(i)) \in Nat
    BY <2>1, FS_CardinalityType
  <2>4. Cardinality(BeforeIn(i - a)) = Cardinality(Before(i))
    <3> HIDE DEF Before, BeforeIn
    <3> QED
      BY <1>1, <2>1, <2>2, ShiftedSet, Zenon
  <2>5. /\ Position(i, D) = i - Cardinality(Before(i))
        /\ Position(i - a, E) = (i - a) - Cardinality(BeforeIn(i - a))
    BY DEF Position
  <2> HIDE DEF Before, BeforeIn
  <2> QED
    BY <2>3, <2>4, <2>5
<1> QED
  BY <1>2, <1>3, <1>5 DEF E

\* A list whose positions from a + 1 to b are replaced.
Replaced(list, a, b, middle) == SubSeq(list, 1, a) \o middle \o SubSeq(list, b + 1, Len(list))

\* A list without some of its middle: its beginning, what is left of the middle, its end.
LEMMA WithoutMiddle ==
  ASSUME NEW S, NEW list \in Seq(S), NEW a \in Nat, NEW b \in Nat, a <= b, b <= Len(list),
         NEW D \in SUBSET (a + 1 .. b)
  PROVE  /\ Without(SubSeq(list, a + 1, b), Inside(D, a, b)) \in Seq(S)
         /\ Len(Without(SubSeq(list, a + 1, b), Inside(D, a, b))) = b - a - Cardinality(D)
         /\ Without(list, D) = Replaced(list, a, b, Without(SubSeq(list, a + 1, b), Inside(D, a, b)))
<1> DEFINE n == Len(list)
<1>1. n \in Nat /\ b <= n /\ DOMAIN list = 1 .. n /\ \A i \in 1 .. n : list[i] \in S
  OBVIOUS
<1> HIDE DEF n
<1> DEFINE E == Inside(D, a, b)
<1>2. /\ Cardinality(E) = Cardinality(D) /\ Cardinality(D) \in 0 .. b - a
      /\ \A i \in 1 .. a + 1 : Position(i, D) = i
      /\ \A i \in a + 1 .. b : Position(i, D) = a + Position(i - a, E)
      /\ \A i \in b + 1 .. n : Position(i, D) = i - Cardinality(D)
  <2>1. Cardinality(Inside(D, a, b)) = Cardinality(D) /\ Cardinality(D) \in 0 .. b - a
    BY PositionInside
  <2>2. ASSUME NEW i \in 1 .. a + 1 PROVE Position(i, D) = i
    <3>1. i \in Int /\ \A d \in D : ~(d < i)
      OBVIOUS
    <3> QED
      BY <3>1, NoneBefore
  <2>3. \A i \in a + 1 .. b : Position(i, D) = a + Position(i - a, Inside(D, a, b))
    BY PositionInside
  <2>4. ASSUME NEW i \in b + 1 .. n PROVE Position(i, D) = i - Cardinality(D)
    <3>1. \A d \in D : d < i
      BY <1>1
    <3> QED
      BY <3>1, AllBefore
  <2> QED
    BY <2>1, <2>2, <2>3, <2>4
<1> HIDE DEF E
<1>0. E \in SUBSET (1 .. b - a) /\ \A i \in 1 .. b - a : i + a \in D <=> i \in E
  BY DEF E, Inside
<1> DEFINE first == SubSeq(list, 1, a)
           segment == SubSeq(list, a + 1, b)
           middle == Without(segment, E)
           last == SubSeq(list, b + 1, n)
           q == first \o middle \o last
<1>3. first \in Seq(S) /\ Len(first) = a /\ \A i \in 1 .. a : first[i] = list[i]
  <2>1. \A i \in 1 .. a : list[i] \in S
    BY <1>1 DEF n
  <2>2. /\ SubSeq(list, 1, a) \in Seq(S) /\ Len(SubSeq(list, 1, a)) = IF 1 <= a THEN a - 1 + 1 ELSE 0
        /\ \A i \in 1 .. a - 1 + 1 : SubSeq(list, 1, a)[i] = list[1 + i - 1]
    BY <2>1, SubSeqProperties
  <2> QED
    BY <2>2
<1>4. segment \in Seq(S) /\ Len(segment) = b - a /\ \A i \in 1 .. b - a : segment[i] = list[a + i]
  <2>1. \A i \in a + 1 .. b : list[i] \in S
    BY <1>1 DEF n
  <2>2. /\ segment \in Seq(S) /\ Len(segment) = IF a + 1 <= b THEN b - (a + 1) + 1 ELSE 0
        /\ \A i \in 1 .. b - (a + 1) + 1 : segment[i] = list[(a + 1) + i - 1]
    BY <2>1, SubSeqProperties
  <2> HIDE DEF segment
  <2> QED
    BY <2>2
<1>5. last \in Seq(S) /\ Len(last) = n - b /\ \A i \in 1 .. n - b : last[i] = list[b + i]
  <2>1. \A i \in b + 1 .. n : list[i] \in S
    BY <1>1
  <2>2. /\ last \in Seq(S) /\ Len(last) = IF b + 1 <= n THEN n - (b + 1) + 1 ELSE 0
        /\ \A i \in 1 .. n - (b + 1) + 1 : last[i] = list[(b + 1) + i - 1]
    BY <1>1, <2>1, SubSeqProperties
  <2> HIDE DEF last
  <2> QED
    BY <1>1, <2>2
<1>6. /\ middle \in Seq(S) /\ Len(middle) = b - a - Cardinality(D)
      /\ \A i \in (1 .. b - a) \ E : Position(i, E) \in DOMAIN middle /\ middle[Position(i, E)] = segment[i]
  <2> HIDE DEF segment
  <2>1. DOMAIN segment = 1 .. b - a /\ E \in SUBSET DOMAIN segment
    BY <1>0, <1>4
  <2>2. \A i \in DOMAIN segment \ E :
             /\ Position(i, E) \in DOMAIN Without(segment, E)
             /\ Without(segment, E)[Position(i, E)] = segment[i]
    BY <1>4, <2>1, WithoutIsCompact
  <2>4. Without(segment, E) \in Seq(S)
    BY <1>4, <2>1, WithoutIsCompact
  <2>3. Len(Without(segment, E)) = Len(segment) - Cardinality(E)
    BY <1>4, <2>1, LengthWithout
  <2> QED
    BY <1>2, <1>4, <2>1, <2>2, <2>3, <2>4
<1> HIDE DEF first, middle, last, segment
<1>7. /\ q \in Seq(S) /\ Len(q) = n - Cardinality(D)
      /\ \A i \in 1 .. a : q[i] = first[i]
      /\ \A i \in DOMAIN middle : q[a + i] = middle[i]
      /\ \A i \in 1 .. n - b : q[b - Cardinality(D) + i] = last[i]
  <2> DEFINE r == first \o middle
  <2>1. /\ r \in Seq(S) /\ Len(r) = b - Cardinality(D)
        /\ \A i \in 1 .. a : r[i] = first[i]
        /\ \A i \in DOMAIN middle : r[a + i] = middle[i]
    <3>1. /\ r \in Seq(S) /\ Len(r) = Len(first) + Len(middle)
          /\ \A i \in 1 .. Len(first) + Len(middle) : r[i] = IF i <= Len(first) THEN first[i] ELSE middle[i - Len(first)]
      BY <1>3, <1>6, ConcatProperties
    <3> HIDE DEF r
    <3>2. Cardinality(D) \in Nat /\ DOMAIN middle = 1 .. Len(middle) /\ Len(middle) \in Nat
      BY <1>2, <1>6
    <3>3. \A i \in DOMAIN middle : a + i \in 1 .. Len(first) + Len(middle) /\ ~(a + i <= a) /\ (a + i) - a = i
      BY <1>3, <3>2
    <3>4. \A i \in 1 .. a : i \in 1 .. Len(first) + Len(middle) /\ i <= a
      BY <1>3, <3>2
    <3>5. Len(r) = b - Cardinality(D)
      BY <1>2, <1>3, <1>6, <3>1, <3>2
    <3> QED
      BY <1>3, <3>1, <3>3, <3>4, <3>5
  <2>10. q = r \o last
    OBVIOUS
  <2> HIDE DEF r, q
  <2>2. /\ q \in Seq(S) /\ Len(q) = Len(r) + Len(last)
        /\ \A i \in 1 .. Len(r) + Len(last) : q[i] = IF i <= Len(r) THEN r[i] ELSE last[i - Len(r)]
    BY <1>5, <2>1, <2>10, ConcatProperties
  <2>3. /\ Cardinality(D) \in Nat /\ Len(r) = b - Cardinality(D) /\ Len(r) \in Nat /\ Len(last) \in Nat /\ Len(q) = n - Cardinality(D) /\ Len(r) + Len(last) = n - Cardinality(D)
        /\ DOMAIN middle = 1 .. b - a - Cardinality(D) /\ b - Cardinality(D) >= a
    BY <1>1, <1>2, <1>5, <1>6, <2>1, <2>2
  <2>4. \A i \in 1 .. b - Cardinality(D) : q[i] = r[i]
    BY <2>2, <2>3
  <2>5. \A i \in 1 .. a : q[i] = first[i]
    BY <1>1, <2>1, <2>3, <2>4
  <2>6. \A i \in DOMAIN middle : q[a + i] = middle[i]
    <3> TAKE i \in DOMAIN middle
    <3>1. a + i \in 1 .. b - Cardinality(D)
      BY <2>3
    <3> QED
      BY <2>1, <2>4, <3>1
  <2>7. \A i \in 1 .. n - b : q[b - Cardinality(D) + i] = last[i]
    <3> TAKE i \in 1 .. n - b
    <3> DEFINE k == b - Cardinality(D) + i
    <3>1. k \in 1 .. Len(r) + Len(last) /\ ~(k <= Len(r)) /\ k - Len(r) = i
      <4>1. b - Cardinality(D) \in Nat /\ n - Cardinality(D) = (b - Cardinality(D)) + (n - b) /\ n - b \in Nat
        BY <1>1, <2>3
      <4>2. k - (b - Cardinality(D)) = i /\ k <= n - Cardinality(D) /\ k > b - Cardinality(D) /\ k \in Nat
        BY <4>1
      <4> HIDE DEF k
      <4>3. n - Cardinality(D) \in Nat
        BY <1>1, <2>3
      <4> QED
        BY <2>3, <4>1, <4>2, <4>3
    <3> HIDE DEF k
    <3>2. q[k] = last[i]
      BY <2>2, <3>1
    <3> QED
      BY <3>2 DEF k
  <2> QED
    BY <2>2, <2>3, <2>5, <2>6, <2>7
<1> HIDE DEF q
<1>8. \A i \in DOMAIN list \ D : q[Position(i, D)] = list[i]
  <2> TAKE i \in DOMAIN list \ D
  <2>1. i \in 1 .. n /\ i \in Int
    BY <1>1
  <2>2. CASE i <= a
    BY <1>2, <1>3, <1>7, <2>1, <2>2
  <2>3. CASE i > a /\ i <= b
    <3>1. i - a \in 1 .. b - a /\ i \in a + 1 .. b /\ a + (i - a) = i /\ (i - a) + a = i
      BY <2>1, <2>3
    <3>3. i - a \notin E
      BY <1>0, <3>1
    <3>2. Position(i - a, E) \in DOMAIN middle /\ middle[Position(i - a, E)] = list[i]
      BY <1>4, <1>6, <3>1, <3>3
    <3> QED
      BY <1>2, <1>7, <3>1, <3>2
  <2>4. CASE i > b
    <3>1. i - b \in 1 .. n - b /\ Position(i, D) = b - Cardinality(D) + (i - b)
      BY <1>1, <1>2, <2>1, <2>4
    <3>2. last[i - b] = list[i]
      BY <1>5, <2>1, <3>1
    <3> QED
      BY <1>7, <3>1, <3>2
  <2> QED
    BY <1>1, <2>1, <2>2, <2>3, <2>4
<1>9. D \in SUBSET DOMAIN list
  BY <1>1 DEF n
<1>10. q = Without(list, D)
  BY <1>7, <1>8, <1>9, WithoutIsUnique DEF n
<1> QED
  BY <1>6, <1>10 DEF Replaced, E, q, first, middle, last, segment, n

\* What a part of a sequence has, and how many.
LEMMA PartOfSequence ==
  ASSUME NEW S, NEW s \in Seq(S), NEW i \in Int, NEW j \in Int, 1 <= i, i <= j + 1, j <= Len(s)
  PROVE  /\ SubSeq(s, i, j) \in Seq(S) /\ Len(SubSeq(s, i, j)) = j - i + 1
         /\ \A k \in 1 .. j - i + 1 : SubSeq(s, i, j)[k] = s[i + k - 1] /\ s[i + k - 1] \in S
<1>1. \A k \in i .. j : s[k] \in S
  OBVIOUS
<1> DEFINE t == SubSeq(s, i, j)
<1>2. /\ t \in Seq(S) /\ Len(t) = IF i <= j THEN j - i + 1 ELSE 0
      /\ \A k \in 1 .. j - i + 1 : t[k] = s[i + k - 1]
  BY <1>1, SubSeqProperties
<1>3. \A k \in 1 .. j - i + 1 : i + k - 1 \in i .. j
  OBVIOUS
<1> HIDE DEF t
<1>4. Len(t) = j - i + 1
  BY <1>2
<1> QED
  BY <1>1, <1>2, <1>3, <1>4 DEF t

\* A part of a part.
LEMMA PartOfPart ==
  ASSUME NEW S, NEW s \in Seq(S), NEW i \in Int, NEW j \in Int, 1 <= i, i <= j + 1, j <= Len(s),
         NEW m \in Int, NEW n \in Int, 1 <= m, m <= n + 1, n <= j - i + 1
  PROVE  SubSeq(SubSeq(s, i, j), m, n) = SubSeq(s, i + m - 1, i + n - 1)
<1> DEFINE t == SubSeq(s, i, j)
           u == SubSeq(t, m, n)
           v == SubSeq(s, i + m - 1, i + n - 1)
<1>1. t \in Seq(S) /\ Len(t) = j - i + 1 /\ \A k \in 1 .. j - i + 1 : t[k] = s[i + k - 1]
  BY PartOfSequence
<1> HIDE DEF t
<1>2. u \in Seq(S) /\ Len(u) = n - m + 1 /\ \A k \in 1 .. n - m + 1 : u[k] = t[m + k - 1]
  BY <1>1, PartOfSequence
<1>3. v \in Seq(S) /\ Len(v) = n - m + 1 /\ \A k \in 1 .. n - m + 1 : v[k] = s[i + m + k - 2]
  <2> DEFINE a == i + m - 1
             b == i + n - 1
  <2>1. a \in Int /\ b \in Int /\ 1 <= a /\ a <= b + 1 /\ b <= Len(s) /\ b - a = n - m
    OBVIOUS
  <2>2. \A k \in Int : a + k - 1 = i + m + k - 2
    OBVIOUS
  <2>3. v = SubSeq(s, a, b)
    OBVIOUS
  <2> HIDE DEF a, b, v
  <2>4. v \in Seq(S) /\ Len(v) = b - a + 1 /\ \A k \in 1 .. b - a + 1 : v[k] = s[a + k - 1]
    BY <2>1, <2>3, PartOfSequence
  <2>5. b - a + 1 = n - m + 1
    BY <2>1
  <2>6. \A k \in 1 .. n - m + 1 : v[k] = s[i + m + k - 2]
    <3> TAKE k \in 1 .. n - m + 1
    <3>1. v[k] = s[a + k - 1]
      BY <2>4, <2>5
    <3>2. a + k - 1 = i + m + k - 2
      BY <2>2
    <3> QED
      BY <3>1, <3>2
  <2> QED
    BY <2>4, <2>5, <2>6
<1> HIDE DEF u, v
<1>4. \A k \in 1 .. n - m + 1 : u[k] = v[k]
  <2> TAKE k \in 1 .. n - m + 1
  <2>1. m + k - 1 \in 1 .. j - i + 1 /\ i + (m + k - 1) - 1 = i + m + k - 2
    OBVIOUS
  <2> QED
    BY <1>1, <1>2, <1>3, <2>1
<1>5. u = v
  BY <1>2, <1>3, <1>4, SeqEqual
<1> QED
  BY <1>5 DEF t, u, v

\* The rest of one list after another, from a position in the first.
LEMMA RestOfTwo ==
  ASSUME NEW S, NEW x \in Seq(S), NEW y \in Seq(S), NEW z, z = x \o y,
         NEW k \in Int, 0 <= k, k <= Len(x)
  PROVE  SubSeq(z, k + 1, Len(z)) = SubSeq(x, k + 1, Len(x)) \o y
<1> DEFINE m == Len(x)
           n == Len(y)
<1>1. m \in Nat /\ n \in Nat
  OBVIOUS
<1>2. z \in Seq(S) /\ Len(z) = m + n /\ \A i \in 1 .. m + n : z[i] = IF i <= m THEN x[i] ELSE y[i - m]
  <2>1. /\ x \o y \in Seq(S) /\ Len(x \o y) = Len(x) + Len(y)
        /\ \A i \in 1 .. Len(x) + Len(y) : (x \o y)[i] = IF i <= Len(x) THEN x[i] ELSE y[i - Len(x)]
    BY ConcatProperties
  <2> QED
    BY <2>1
<1>3. x \in Seq(S) /\ y \in Seq(S) /\ m <= Len(x) /\ n <= Len(y) /\ Len(z) = m + n /\ Len(x) = m /\ Len(y) = n
  BY <1>2
<1>4. k <= m
  OBVIOUS
<1> HIDE DEF m, n
<1>5. SubSeq(z, k + 1, m + n) = SubSeq(x, k + 1, m) \o y
  <2> DEFINE s == SubSeq(z, k + 1, m + n)
             t == SubSeq(x, k + 1, m)
             u == t \o y
  <2>1. s \in Seq(S) /\ Len(s) = (m + n) - (k + 1) + 1 /\ \A i \in 1 .. (m + n) - (k + 1) + 1 : s[i] = z[(k + 1) + i - 1]
    BY <1>4, <1>1, <1>2, PartOfSequence
  <2>2. t \in Seq(S) /\ Len(t) = m - (k + 1) + 1 /\ \A i \in 1 .. m - (k + 1) + 1 : t[i] = x[(k + 1) + i - 1]
    BY <1>4, <1>1, <1>3, PartOfSequence
  <2> HIDE DEF s, t
  <2>3. /\ u \in Seq(S) /\ Len(u) = Len(t) + Len(y)
        /\ \A i \in 1 .. Len(t) + Len(y) : u[i] = IF i <= Len(t) THEN t[i] ELSE y[i - Len(t)]
    BY <2>2, ConcatProperties
  <2> HIDE DEF u
  <2>4. /\ s \in Seq(S) /\ u \in Seq(S) /\ Len(s) = m + n - k /\ Len(u) = m + n - k /\ Len(t) = m - k
        /\ (m + n) - (k + 1) + 1 = m + n - k /\ m - (k + 1) + 1 = m - k
    BY <1>4, <1>1, <1>3, <2>1, <2>2, <2>3
  <2>5. ASSUME NEW i \in 1 .. m + n - k PROVE s[i] = u[i]
    <3>1. (k + 1) + i - 1 = k + i /\ k + i \in 1 .. m + n /\ (k + i <= m <=> i <= m - k) /\ (k + i) - m = i - (m - k)
      BY <1>1, <1>4
    <3>2. s[i] = z[k + i] /\ z[k + i] = IF k + i <= m THEN x[k + i] ELSE y[(k + i) - m]
      BY <1>2, <2>1, <2>4, <3>1
    <3>3. i \in 1 .. Len(t) + Len(y)
      BY <1>4, <1>1, <1>3, <2>4
    <3>4. u[i] = IF i <= m - k THEN t[i] ELSE y[i - (m - k)]
      BY <2>3, <2>4, <3>3
    <3>5. i <= m - k => t[i] = x[k + i]
      BY <1>1, <2>2, <2>4, <3>1
    <3> QED
      BY <3>1, <3>2, <3>4, <3>5
  <2>6. s = u
    BY <2>4, <2>5, SeqEqual
  <2> QED
    BY <2>6 DEF s, t, u
<1> QED
  BY <1>3, <1>5

\* The beginning of two sequences in a row, ending in the first or in the second, and
\* their end.
LEMMA PartsOfTwo ==
  ASSUME NEW S, NEW x \in Seq(S), NEW y \in Seq(S), NEW k \in Int, 0 <= k
  PROVE  /\ k <= Len(x) => SubSeq(x \o y, 1, k) = SubSeq(x, 1, k)
         /\ k <= Len(y) => SubSeq(x \o y, 1, Len(x) + k) = x \o SubSeq(y, 1, k)
         /\ k <= Len(y) => SubSeq(x \o y, Len(x) + k + 1, Len(x \o y)) = SubSeq(y, k + 1, Len(y))
<1> DEFINE z == x \o y
           m == Len(x)
           n == Len(y)
<1>1. m \in Nat /\ n \in Nat
  OBVIOUS
<1>2. z \in Seq(S) /\ Len(z) = m + n /\ \A i \in 1 .. m + n : z[i] = IF i <= m THEN x[i] ELSE y[i - m]
  <2>1. /\ x \o y \in Seq(S) /\ Len(x \o y) = Len(x) + Len(y)
        /\ \A i \in 1 .. Len(x) + Len(y) : (x \o y)[i] = IF i <= Len(x) THEN x[i] ELSE y[i - Len(x)]
    BY ConcatProperties
  <2> QED
    BY <2>1
<1> HIDE DEF z
<1>3. x \in Seq(S) /\ y \in Seq(S) /\ m <= Len(x) /\ n <= Len(y) /\ Len(z) = m + n /\ Len(x) = m /\ Len(y) = n
  BY <1>2
<1> HIDE DEF m, n
<1>4. ASSUME k <= m PROVE SubSeq(z, 1, k) = SubSeq(x, 1, k)
  <2> DEFINE s == SubSeq(z, 1, k)
             t == SubSeq(x, 1, k)
  <2>1. s \in Seq(S) /\ Len(s) = k - 1 + 1 /\ \A i \in 1 .. k - 1 + 1 : s[i] = z[1 + i - 1]
    BY <1>1, <1>2, <1>4, PartOfSequence
  <2>2. t \in Seq(S) /\ Len(t) = k - 1 + 1 /\ \A i \in 1 .. k - 1 + 1 : t[i] = x[1 + i - 1]
    BY <1>1, <1>3, <1>4, PartOfSequence
  <2> HIDE DEF s, t
  <2>3. \A i \in 1 .. k : i \in 1 .. m + n /\ i <= m /\ 1 + i - 1 = i
    BY <1>1, <1>4
  <2>4. s \in Seq(S) /\ t \in Seq(S) /\ Len(s) = k /\ Len(t) = k /\ k - 1 + 1 = k
    BY <2>1, <2>2
  <2>5. \A i \in 1 .. k : s[i] = t[i]
    BY <1>2, <2>1, <2>2, <2>3, <2>4
  <2>6. s = t
    BY <2>4, <2>5, SeqEqual
  <2> QED
    BY <2>6 DEF s, t
<1>5. ASSUME k <= n PROVE SubSeq(z, 1, m + k) = x \o SubSeq(y, 1, k)
  <2> DEFINE s == SubSeq(z, 1, m + k)
             t == SubSeq(y, 1, k)
             u == x \o t
  <2>1. s \in Seq(S) /\ Len(s) = (m + k) - 1 + 1 /\ \A i \in 1 .. (m + k) - 1 + 1 : s[i] = z[1 + i - 1]
    BY <1>1, <1>2, <1>5, PartOfSequence
  <2>2. t \in Seq(S) /\ Len(t) = k - 1 + 1 /\ \A i \in 1 .. k - 1 + 1 : t[i] = y[1 + i - 1]
    BY <1>1, <1>3, <1>5, PartOfSequence
  <2> HIDE DEF s, t
  <2>3. /\ u \in Seq(S) /\ Len(u) = Len(x) + Len(t)
        /\ \A i \in 1 .. Len(x) + Len(t) : u[i] = IF i <= Len(x) THEN x[i] ELSE t[i - Len(x)]
    BY <2>2, ConcatProperties
  <2> HIDE DEF u
  <2>4. /\ s \in Seq(S) /\ u \in Seq(S) /\ Len(s) = m + k /\ Len(u) = m + k /\ Len(t) = k
        /\ k - 1 + 1 = k /\ (m + k) - 1 + 1 = m + k
    BY <1>1, <1>3, <2>1, <2>2, <2>3
  <2>5. ASSUME NEW i \in 1 .. m + k PROVE s[i] = u[i]
    <3>1. 1 + i - 1 = i /\ i \in 1 .. m + n
      BY <1>1, <1>5
    <3>2. s[i] = z[i] /\ z[i] = IF i <= m THEN x[i] ELSE y[i - m]
      BY <1>2, <2>1, <2>4, <3>1
    <3>3. u[i] = IF i <= m THEN x[i] ELSE t[i - m]
      BY <1>3, <2>3, <2>4
    <3>4. ~(i <= m) => i - m \in 1 .. k /\ 1 + (i - m) - 1 = i - m
      BY <1>1
    <3> QED
      BY <2>2, <2>4, <3>2, <3>3, <3>4
  <2>6. s = u
    BY <2>4, <2>5, SeqEqual
  <2> QED
    BY <2>6 DEF s, t, u
<1>6. ASSUME k <= n PROVE SubSeq(z, m + k + 1, m + n) = SubSeq(y, k + 1, n)
  <2> DEFINE s == SubSeq(z, m + k + 1, m + n)
             t == SubSeq(y, k + 1, n)
  <2>1. s \in Seq(S) /\ Len(s) = (m + n) - (m + k + 1) + 1 /\ \A i \in 1 .. (m + n) - (m + k + 1) + 1 : s[i] = z[(m + k + 1) + i - 1]
    <3>1. m + k + 1 \in Int /\ m + n \in Int /\ 1 <= m + k + 1 /\ m + k + 1 <= (m + n) + 1 /\ m + n <= Len(z)
      BY <1>1, <1>2, <1>6
    <3> QED
      BY <1>2, <3>1, PartOfSequence
  <2>2. t \in Seq(S) /\ Len(t) = n - (k + 1) + 1 /\ \A i \in 1 .. n - (k + 1) + 1 : t[i] = y[(k + 1) + i - 1]
    BY <1>1, <1>3, <1>6, PartOfSequence
  <2> HIDE DEF s, t
  <2>3. /\ s \in Seq(S) /\ t \in Seq(S) /\ Len(s) = n - k /\ Len(t) = n - k
        /\ (m + n) - (m + k + 1) + 1 = n - k /\ n - (k + 1) + 1 = n - k
    BY <1>1, <2>1, <2>2
  <2>4. ASSUME NEW i \in 1 .. n - k PROVE s[i] = t[i]
    <3>1. /\ (m + k + 1) + i - 1 = m + k + i /\ m + k + i \in 1 .. m + n /\ ~(m + k + i <= m)
          /\ (m + k + i) - m = k + i /\ (k + 1) + i - 1 = k + i
      BY <1>1, <1>6
    <3>2. s[i] = z[m + k + i] /\ t[i] = y[k + i]
      BY <2>1, <2>2, <2>3, <3>1
    <3> QED
      BY <1>2, <3>1, <3>2
  <2>5. s = t
    BY <2>3, <2>4, SeqEqual
  <2> QED
    BY <2>5 DEF s, t
<1> QED
  BY <1>3, <1>4, <1>5, <1>6 DEF z, m, n

\* The same by positions in the whole.
LEMMA PartsOfConcat ==
  ASSUME NEW S, NEW x \in Seq(S), NEW y \in Seq(S)
  PROVE  /\ \A k \in 0 .. Len(x) : SubSeq(x \o y, 1, k) = SubSeq(x, 1, k)
         /\ \A k \in Len(x) .. Len(x) + Len(y) : SubSeq(x \o y, 1, k) = x \o SubSeq(y, 1, k - Len(x))
         /\ \A k \in Len(x) + 1 .. Len(x) + Len(y) + 1 :
              SubSeq(x \o y, k, Len(x \o y)) = SubSeq(y, k - Len(x), Len(y))
<1>1. Len(x) \in Nat /\ Len(y) \in Nat
  OBVIOUS
<1>2. ASSUME NEW k \in 0 .. Len(x) PROVE SubSeq(x \o y, 1, k) = SubSeq(x, 1, k)
  BY <1>1, PartsOfTwo
<1>3. ASSUME NEW k \in Len(x) .. Len(x) + Len(y) PROVE SubSeq(x \o y, 1, k) = x \o SubSeq(y, 1, k - Len(x))
  <2> DEFINE d == k - Len(x)
  <2>1. d \in Int /\ 0 <= d /\ d <= Len(y) /\ Len(x) + d = k
    BY <1>1
  <2> HIDE DEF d
  <2>2. SubSeq(x \o y, 1, Len(x) + d) = x \o SubSeq(y, 1, d)
    BY <2>1, PartsOfTwo
  <2> QED
    BY <2>1, <2>2 DEF d
<1>4. ASSUME NEW k \in Len(x) + 1 .. Len(x) + Len(y) + 1
      PROVE  SubSeq(x \o y, k, Len(x \o y)) = SubSeq(y, k - Len(x), Len(y))
  <2> DEFINE d == k - Len(x) - 1
  <2>1. d \in Int /\ 0 <= d /\ d <= Len(y) /\ Len(x) + d + 1 = k /\ d + 1 = k - Len(x)
    BY <1>1
  <2> HIDE DEF d
  <2>2. SubSeq(x \o y, Len(x) + d + 1, Len(x \o y)) = SubSeq(y, d + 1, Len(y))
    BY <2>1, PartsOfTwo
  <2> QED
    BY <2>1, <2>2
<1> QED
  BY <1>2, <1>3, <1>4
===============================================================================
