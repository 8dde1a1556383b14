------------------------------ MODULE EditingProofs ------------------------------
(***************************************************************************)
(* What TLAPS proves of Editing, for any names, queries and modes: that    *)
(* the editor keeps its row and the placeholder goes with it, that a commit *)
(* does what was typed or nothing, that what a search has found is in the  *)
(* listing as it is, and that Visual mode spans from its first entry to    *)
(* the cursor.                                                             *)
(***************************************************************************)
EXTENDS Editing, FiniteSetTheorems, WellFoundedInduction, TLAPS

\* A listing: every entry once.
Listing == {now \in Seq(Names \cup {Placeholder}) : IsInjective(now)}

\* What the three modes and the search rely on, besides that the editor stays.
ModesInv ==
  /\ committing => mode = "insert" /\ text # None
  /\ mode = "insert" => (self # None <=> kind = "rename")
  /\ mode = "visual" => anchor \in Nat \ {0} /\ current \in Nat \ {0}
  /\ row \in Nat /\ preRow \in Nat
  /\ mode = "search" => preName = origin
SearchInv == ~stale => MatchesAreCurrent
EditingInv == EditorStays /\ ModesInv /\ SearchInv

-----------------------------------------------------------------------------
(* Listings and the rows in them.                                          *)

LEMMA RowInIs ==
  ASSUME NEW now \in Listing
  PROVE  /\ \A r \in DOMAIN now : RowIn(now, now[r]) = r
         /\ \A name \in ToSet(now) : RowIn(now, name) \in DOMAIN now /\ now[RowIn(now, name)] = name
BY DEF RowIn, ToSet, Listing, IsInjective

\* Where a cursor may be in a listing.
CursorIn(now) == IF now = <<>> THEN {0} ELSE DOMAIN now

LEMMA ClampedIsIn ==
  ASSUME NEW now \in Listing, NEW r \in Nat
  PROVE  /\ Clamped(r, now) \in CursorIn(now)
         /\ r \in DOMAIN now => Clamped(r, now) = r
<1>1. Len(now) \in Nat /\ DOMAIN now = 1 .. Len(now) /\ (now = <<>> <=> Len(now) = 0)
  BY DEF Listing
<1>2. CASE now = <<>>
  <2>1. Clamped(r, now) = 0
    BY <1>1, <1>2 DEF Clamped
  <2> QED
    BY <1>1, <1>2, <2>1 DEF CursorIn
<1>3. CASE now # <<>>
  <2>1. Clamped(r, now) \in 1 .. Len(now) /\ (r \in 1 .. Len(now) => Clamped(r, now) = r)
    <3>1. Len(now) >= 1
      BY <1>1, <1>3
    <3> QED
      BY <1>3, <3>1 DEF Clamped
  <2> QED
    BY <1>1, <1>3, <2>1 DEF CursorIn
<1> QED
  BY <1>2, <1>3

LEMMA ReconciledIsIn ==
  ASSUME NEW now \in Listing, rows \in Listing, cursor \in CursorIn(rows)
  PROVE  /\ Reconciled(now) \in CursorIn(now)
         /\ now = rows => Reconciled(now) = cursor
<1>1. cursor \in Nat
  BY DEF CursorIn, Listing
<1>2. NameAt(cursor) \in ToSet(now) =>
        Reconciled(now) \in DOMAIN now /\ (now = rows => Reconciled(now) = cursor)
  <2> SUFFICES ASSUME NameAt(cursor) \in ToSet(now)
               PROVE  Reconciled(now) \in DOMAIN now /\ (now = rows => Reconciled(now) = cursor)
    OBVIOUS
  <2>1. Reconciled(now) = RowIn(now, NameAt(cursor))
    BY DEF Reconciled
  <2>2. Reconciled(now) \in DOMAIN now
    BY <2>1, RowInIs
  <2>3. ASSUME now = rows PROVE Reconciled(now) = cursor
    <3>1. rows # <<>>
      BY <2>2, <2>3
    <3>2. cursor \in DOMAIN rows /\ NameAt(cursor) = rows[cursor]
      BY <3>1 DEF CursorIn, NameAt
    <3> QED
      BY <2>1, <2>3, <3>2, RowInIs
  <2> QED
    BY <2>2, <2>3
<1>3. NameAt(cursor) \notin ToSet(now) =>
        Reconciled(now) \in CursorIn(now) /\ (now = rows => Reconciled(now) = cursor)
  <2> SUFFICES ASSUME NameAt(cursor) \notin ToSet(now)
               PROVE  Reconciled(now) \in CursorIn(now) /\ (now = rows => Reconciled(now) = cursor)
    OBVIOUS
  <2>1. Reconciled(now) = Clamped(cursor, now)
    BY DEF Reconciled
  <2>2. Reconciled(now) \in CursorIn(now)
    BY <1>1, <2>1, ClampedIsIn
  <2>3. now = rows => rows = <<>>
    BY DEF CursorIn, NameAt, ToSet
  <2> QED
    BY <2>2, <2>3 DEF CursorIn
<1>4. \A r \in DOMAIN now : now # <<>>
  BY DEF Listing
<1> QED
  BY <1>2, <1>3, <1>4 DEF CursorIn

\* The model lists entries, each of them once.
LEMMA PermutationsAreListings ==
  ASSUME NEW now \in SetToAllKPermutations(Names)
  PROVE  now \in Seq(Names) /\ now \in Listing
<1>1. PICK S \in SUBSET Names : now \in SetToSeqs(S)
  BY DEF SetToAllKPermutations
<1>2. Cardinality(S) \in Nat
  <2>1. IsFiniteSet(S)
    BY EditingAssumption, FS_Subset
  <2> QED
    BY <2>1, FS_CardinalityType
<1>3. now \in [1 .. Cardinality(S) -> S]
      /\ \A i, j \in 1 .. Cardinality(S) : i # j => now[i] # now[j]
  BY <1>1 DEF SetToSeqs
<1>4. now \in Seq(Names)
  BY <1>2, <1>3
<1>5. IsInjective(now)
  BY <1>3 DEF IsInjective
<1> QED
  BY <1>4, <1>5 DEF Listing

\* The placeholder is put between two rows, and taken out again.
LEMMA InsertedIsListing ==
  ASSUME NEW now \in Listing, Placeholder \notin ToSet(now), NEW i \in 1 .. Len(now) + 1
  PROVE  LET put == InsertAt(now, i, Placeholder) IN
           put \in Listing /\ i \in DOMAIN put /\ put[i] = Placeholder
<1> DEFINE put == InsertAt(now, i, Placeholder)
           A == SubSeq(now, 1, i - 1)
           B == SubSeq(now, i, Len(now))
<1>1. now \in Seq(Names \cup {Placeholder}) /\ Len(now) \in Nat
  BY DEF Listing
<1>2. /\ A \in Seq(Names \cup {Placeholder}) /\ Len(A) = i - 1
      /\ \A k \in 1 .. i - 1 : A[k] = now[k]
  BY <1>1
<1>3. /\ B \in Seq(Names \cup {Placeholder}) /\ Len(B) = Len(now) - i + 1
      /\ \A k \in 1 .. Len(now) - i + 1 : B[k] = now[i + k - 1]
  BY <1>1
<1>4. put = A \o <<Placeholder>> \o B
  BY DEF InsertAt
<1> HIDE DEF A, B, put
<1> DEFINE C == A \o <<Placeholder>>
<1>c. /\ C \in Seq(Names \cup {Placeholder}) /\ Len(C) = i
      /\ \A k \in 1 .. i : C[k] = IF k < i THEN now[k] ELSE Placeholder
  BY <1>1, <1>2
<1>p. put = C \o B
  BY <1>4
<1> HIDE DEF C
<1>l. put \in Seq(Names \cup {Placeholder}) /\ Len(put) = Len(now) + 1
  <2>1. put \in Seq(Names \cup {Placeholder}) /\ Len(put) = Len(C) + Len(B)
    <3> DEFINE X == Names \cup {Placeholder}
    <3>1. C \in Seq(X) /\ B \in Seq(X)
      BY <1>3, <1>c
    <3> HIDE DEF X
    <3>2. C \o B \in Seq(X) /\ Len(C \o B) = Len(C) + Len(B)
      BY <3>1
    <3> QED
      BY <1>p, <3>2 DEF X
  <2>2. Len(C) = i /\ Len(B) = Len(now) - i + 1 /\ i \in Int
    BY <1>3, <1>c
  <2> QED
    BY <1>1, <2>1, <2>2
<1>5. \A k \in 1 .. Len(now) + 1 :
        put[k] = IF k < i THEN now[k] ELSE IF k = i THEN Placeholder ELSE now[k - 1]
  <2> SUFFICES ASSUME NEW k \in 1 .. Len(now) + 1
               PROVE  put[k] = IF k < i THEN now[k] ELSE IF k = i THEN Placeholder ELSE now[k - 1]
    OBVIOUS
  <2>1. CASE k <= i
    <3>1. put[k] = C[k]
      BY <1>1, <1>3, <1>c, <1>p, <2>1
    <3> QED
      BY <1>1, <1>c, <2>1, <3>1
  <2>2. CASE k > i
    <3>1. put[k] = B[k - i]
      BY <1>1, <1>3, <1>c, <1>p, <2>2
    <3>2. B[k - i] = now[i + (k - i) - 1]
      BY <1>1, <1>3, <2>2
    <3>3. i + (k - i) - 1 = k - 1
      BY <1>1
    <3> QED
      BY <2>2, <3>1, <3>2, <3>3
  <2> QED
    BY <1>1, <2>1, <2>2
<1>6. IsInjective(put)
  <2> SUFFICES ASSUME NEW a \in 1 .. Len(now) + 1, NEW b \in 1 .. Len(now) + 1, put[a] = put[b]
               PROVE  a = b
    BY <1>1, <1>l DEF IsInjective
  <2>1. \A k \in 1 .. Len(now) : now[k] # Placeholder
    BY <1>1 DEF ToSet
  <2>2. \A k, l \in 1 .. Len(now) : now[k] = now[l] => k = l
    BY <1>1 DEF Listing, IsInjective
  <2>3. \A k \in 1 .. Len(now) + 1 :
          \/ k < i /\ k \in 1 .. Len(now) /\ put[k] = now[k]
          \/ k = i /\ put[k] = Placeholder
          \/ k > i /\ k - 1 \in 1 .. Len(now) /\ put[k] = now[k - 1]
    BY <1>1, <1>5
  <2>4. a \in Int /\ b \in Int /\ i \in Int
    BY <1>1
  <2>5. CASE a = i
    BY <2>1, <2>3, <2>5
  <2>6. CASE b = i
    BY <2>1, <2>3, <2>6
  <2>7. CASE a # i /\ b # i
    <3>1. (a < i => put[a] = now[a] /\ a \in 1 .. Len(now)) /\ (b < i => put[b] = now[b] /\ b \in 1 .. Len(now))
      BY <2>3, <2>4
    <3>2. (a > i => put[a] = now[a - 1] /\ a - 1 \in 1 .. Len(now)) /\ (b > i => put[b] = now[b - 1] /\ b - 1 \in 1 .. Len(now))
      BY <2>3, <2>4
    <3>3. CASE a < i /\ b < i
      BY <2>2, <3>1, <3>3
    <3>4. CASE a > i /\ b > i
      BY <2>2, <2>4, <3>2, <3>4
    <3>5. CASE a < i /\ b > i
      <4>1. a = b - 1
        BY <2>2, <3>1, <3>2, <3>5
      <4> QED
        BY <2>4, <3>5, <4>1
    <3>6. CASE a > i /\ b < i
      <4>1. b = a - 1
        BY <2>2, <3>1, <3>2, <3>6
      <4> QED
        BY <2>4, <3>6, <4>1
    <3> QED
      BY <2>4, <2>7, <3>3, <3>4, <3>5, <3>6
  <2> QED
    BY <2>5, <2>6, <2>7
<1>7. i \in DOMAIN put /\ put[i] = Placeholder
  BY <1>1, <1>l, <1>5
<1> QED
  BY <1>l, <1>6, <1>7 DEF Listing, put

LEMMA RemovedIsListing ==
  ASSUME NEW now \in Listing, NEW i \in DOMAIN now, now[i] = Placeholder
  PROVE  RemoveAt(now, i) \in Listing /\ Placeholder \notin ToSet(RemoveAt(now, i))
<1> DEFINE rest == RemoveAt(now, i)
           A == SubSeq(now, 1, i - 1)
           B == SubSeq(now, i + 1, Len(now))
<1>1. now \in Seq(Names \cup {Placeholder}) /\ Len(now) \in Nat /\ i \in 1 .. Len(now)
  BY DEF Listing
<1>2. /\ A \in Seq(Names \cup {Placeholder}) /\ Len(A) = i - 1
      /\ \A k \in 1 .. i - 1 : A[k] = now[k]
  BY <1>1
<1>3. /\ B \in Seq(Names \cup {Placeholder}) /\ Len(B) = Len(now) - i
      /\ \A k \in 1 .. Len(now) - i : B[k] = now[i + k]
  BY <1>1
<1>4. rest = A \o B
  BY DEF RemoveAt
<1> HIDE DEF A, B, rest
<1>5. /\ rest \in Seq(Names \cup {Placeholder}) /\ Len(rest) = Len(now) - 1
      /\ \A k \in 1 .. Len(now) - 1 : rest[k] = IF k < i THEN now[k] ELSE now[k + 1]
  BY <1>1, <1>2, <1>3, <1>4
<1>6. \A k, l \in 1 .. Len(now) : now[k] = now[l] => k = l
  BY <1>1 DEF Listing, IsInjective
<1>7. IsInjective(rest)
  BY <1>1, <1>5, <1>6 DEF IsInjective
<1>8. Placeholder \notin ToSet(rest)
  BY <1>1, <1>5, <1>6 DEF ToSet
<1> QED
  BY <1>5, <1>7, <1>8 DEF Listing, rest

\* Without the placeholder a listing is one of entries.
LEMMA EntriesOnly ==
  ASSUME NEW now \in Listing, Placeholder \notin ToSet(now)
  PROVE  now \in Seq(Names)
BY DEF Listing, ToSet

-----------------------------------------------------------------------------
(* What a search finds in a listing.                                       *)

\* A set of naturals that is not empty has a least element, and if it is finite a
\* greatest one.
LEMMA LeastOfNaturals ==
  ASSUME NEW T, T \subseteq Nat, T # {}
  PROVE  \E i \in T : \A j \in T : i <= j
<1>1. PICK i \in T : \A j \in T : ~ (<<j, i>> \in OpToRel(<, Nat))
  BY NatLessThanWellFounded, WFMin, Zenon
<1>2. \A j \in T : j \in Nat /\ i \in Nat /\ ~ (j < i)
  BY <1>1 DEF OpToRel
<1> QED
  BY <1>2

LEMMA GreatestBelow ==
  ASSUME NEW b \in Nat, NEW T, T \subseteq 0 .. b, T # {}
  PROVE  \E i \in T : \A j \in T : j <= i
<1> DEFINE U == {b - i : i \in T}
<1>1. U \subseteq Nat /\ U # {}
  <2>1. \A i \in T : i \in 0 .. b /\ b - i \in Nat
    OBVIOUS
  <2>2. PICK i \in T : TRUE
    OBVIOUS
  <2>3. b - i \in U
    OBVIOUS
  <2> QED
    BY <2>1, <2>3
<1>2. PICK m \in U : \A k \in U : m <= k
  <2> HIDE DEF U
  <2> QED
    BY <1>1, LeastOfNaturals
<1>3. PICK i \in T : m = b - i
  OBVIOUS
<1>4. \A j \in T : b - i <= b - j /\ i \in 0 .. b /\ j \in 0 .. b
  BY <1>2, <1>3
<1> QED
  BY <1>4

\* The entries are finitely many: their numbers have a bound.
LEMMA NamesAreBounded == \E b \in Nat : Names \subseteq 0 .. b
<1>1. PICK n \in Nat : ExistsSurjection(1 .. n, Names)
  BY EditingAssumption, FS_NatSurjection
<1>2. PICK f \in Surjection(1 .. n, Names) : TRUE
  BY <1>1 DEF ExistsSurjection
<1>3. f \in [1 .. n -> Names] /\ \A x \in Names : \E i \in 1 .. n : f[i] = x
  BY <1>2 DEF Surjection
<1> DEFINE Bounds(k) == {b \in Nat : \A i \in 1 .. k : f[i] <= b}
           Bad == {k \in 0 .. n : Bounds(k) = {}}
<1>n. \A i \in 1 .. n : f[i] \in Nat
  <2>1. Names \subseteq Nat
    BY EditingAssumption
  <2> QED
    BY <1>3, <2>1
<1>4. Bad = {}
  <2> SUFFICES ASSUME Bad # {} PROVE FALSE
    OBVIOUS
  <2>1. PICK k \in Bad : \A j \in Bad : k <= j
    <3>1. Bad \subseteq Nat
      OBVIOUS
    <3> HIDE DEF Bad
    <3> QED
      BY <3>1, LeastOfNaturals
  <2>2. k \in 0 .. n /\ Bounds(k) = {}
    OBVIOUS
  <2>3. k # 0
    <3>1. 0 \in Bounds(0)
      OBVIOUS
    <3> QED
      BY <2>2, <3>1
  <2>4. k - 1 \in 0 .. n /\ k - 1 \notin Bad
    <3> HIDE DEF Bad
    <3>1. k - 1 \in 0 .. n /\ ~ (k <= k - 1)
      BY <2>2, <2>3
    <3> QED
      BY <2>1, <3>1
  <2>5. PICK b \in Nat : \A i \in 1 .. k - 1 : f[i] <= b
    BY <2>4
  <2>6. f[k] \in Nat
    BY <1>n, <2>2, <2>3
  <2>7. PICK c \in Nat : b <= c /\ f[k] <= c
    BY <2>6
  <2>8. ASSUME NEW i \in 1 .. k
        PROVE  f[i] <= c
    <3>1. CASE i = k
      BY <2>7, <3>1
    <3>2. CASE i # k
      <4>1. i \in 1 .. k - 1 /\ f[i] <= b
        BY <2>2, <2>5, <3>2
      <4>2. f[i] \in Nat
        BY <1>n, <2>2
      <4> QED
        BY <2>7, <4>1, <4>2
    <3> QED
      BY <3>1, <3>2
  <2>9. c \in Bounds(k)
    BY <2>8
  <2> QED
    BY <2>2, <2>9
<1>5. PICK b \in Nat : \A i \in 1 .. n : f[i] <= b
  <2>1. n \in 0 .. n
    OBVIOUS
  <2>2. Bounds(n) # {}
    BY <1>4, <2>1
  <2> QED
    BY <2>2
<1>6. ASSUME NEW x \in Names PROVE x \in 0 .. b
  <2>1. PICK i \in 1 .. n : f[i] = x
    BY <1>3
  <2> QED
    BY <1>5, <2>1, EditingAssumption
<1> QED
  BY <1>6

LEMMA MatchesAreRows ==
  ASSUME NEW now \in Listing, NEW q \in Queries \cup {None}
  PROVE  Matching(now, q) \subseteq {r \in DOMAIN now : now[r] \in Names}
<1>1. \A p \in Queries : Match[p] \subseteq Names
  BY EditingAssumption
<1> QED
  BY <1>1 DEF Matching

\* There is a best match, a next and a previous one, as soon as there is any.
LEMMA BestIsFound ==
  ASSUME NEW now \in Listing, NEW found, found \subseteq {r \in DOMAIN now : now[r] \in Names}
  PROVE  Best(now, found) = 0 \/ Best(now, found) \in found
<1> SUFFICES ASSUME found # {} PROVE Best(now, found) \in found
  BY DEF Best
<1> DEFINE V == {now[r] : r \in found}
<1>1. PICK b \in Nat : Names \subseteq 0 .. b
  BY NamesAreBounded
<1>2. V \subseteq 0 .. b /\ V # {}
  BY <1>1
<1>3. PICK v \in V : \A w \in V : w <= v
  <2> HIDE DEF V
  <2> QED
    BY <1>1, <1>2, GreatestBelow
<1>4. PICK r \in found : now[r] = v
  OBVIOUS
<1>5. \A s \in found : now[s] <= now[r]
  BY <1>3, <1>4
<1> QED
  BY <1>5 DEF Best

LEMMA RepetitionIsFound ==
  ASSUME NEW now \in Listing, NEW found, found \subseteq DOMAIN now, found # {}, NEW from \in Nat
  PROVE  NextRow(from, found) \in found /\ PreviousRow(from, found) \in found
<1>1. DOMAIN now = 1 .. Len(now) /\ Len(now) \in Nat
  BY DEF Listing
<1>2. \A T : T \subseteq found /\ T # {} => /\ \E i \in T : \A j \in T : i <= j
                                            /\ \E i \in T : \A j \in T : j <= i
  <2> SUFFICES ASSUME NEW T, T \subseteq found, T # {}
               PROVE  /\ \E i \in T : \A j \in T : i <= j
                      /\ \E i \in T : \A j \in T : j <= i
    OBVIOUS
  <2>1. T \subseteq Nat /\ T \subseteq 0 .. Len(now)
    BY <1>1
  <2> QED
    BY <1>1, <2>1, LeastOfNaturals, GreatestBelow
<1>3. NextRow(from, found) \in found
  <2> DEFINE after == {r \in found : r > from}
             T == IF after = {} THEN found ELSE after
  <2>1. T \subseteq found /\ T # {}
    OBVIOUS
  <2>2. NextRow(from, found) = CHOOSE r \in T : \A s \in T : r <= s
    BY DEF NextRow
  <2> HIDE DEF T
  <2> QED
    BY <1>2, <2>1, <2>2
<1>4. PreviousRow(from, found) \in found
  <2> DEFINE before == {r \in found : r < from}
             T == IF before = {} THEN found ELSE before
  <2>1. T \subseteq found /\ T # {}
    OBVIOUS
  <2>2. PreviousRow(from, found) = CHOOSE r \in T : \A s \in T : s <= r
    BY DEF PreviousRow
  <2> HIDE DEF T
  <2> QED
    BY <1>2, <2>1, <2>2
<1> QED
  BY <1>3, <1>4

-----------------------------------------------------------------------------
(* The directory: files by name.                                           *)

Directory(d) == DOMAIN d \subseteq Names /\ d \in [DOMAIN d -> Ids] /\ IsInjective(d)

\* There is always a file that is not there yet.
LEMMA FreeIsFree ==
  ASSUME Directory(disk)
  PROVE  Free \in Ids /\ Free \notin Range(disk)
<1>1. IsFiniteSet(DOMAIN disk) /\ Cardinality(DOMAIN disk) <= Cardinality(Names)
      /\ Cardinality(Names) \in Nat /\ Cardinality(DOMAIN disk) \in Nat
  BY EditingAssumption, FS_Subset, FS_CardinalityType DEF Directory
<1>2. disk \in Surjection(DOMAIN disk, Range(disk))
  BY DEF Surjection, Range, Directory
<1>3. IsFiniteSet(Range(disk)) /\ Cardinality(Range(disk)) <= Cardinality(DOMAIN disk)
  BY <1>1, <1>2, FS_Surjection
<1>4. Cardinality(Range(disk)) \in Nat
  BY <1>3, FS_CardinalityType
<1>5. IsFiniteSet(Ids) /\ Cardinality(Ids) = Cardinality(Names) + 1
  <2>1. 1 \in Int /\ Cardinality(Names) + 1 \in Int
    BY <1>1
  <2>2. IsFiniteSet(1 .. Cardinality(Names) + 1)
    BY <2>1, FS_Interval
  <2>3. Cardinality(1 .. Cardinality(Names) + 1) = Cardinality(Names) + 1
    BY <1>1, <2>1, FS_Interval
  <2> QED
    BY <2>2, <2>3 DEF Ids
<1>6. \E id \in Ids : id \notin Range(disk)
  <2> SUFFICES ASSUME Ids \subseteq Range(disk) PROVE FALSE
    OBVIOUS
  <2>1. Cardinality(Ids) <= Cardinality(Range(disk))
    BY <1>3, FS_Subset
  <2> QED
    BY <1>1, <1>3, <1>4, <1>5, <2>1
<1> QED
  BY <1>6 DEF Free

LEMMA WithoutIsDirectory ==
  ASSUME Directory(disk), NEW n
  PROVE  /\ Directory(Without(n))
         /\ DOMAIN Without(n) = DOMAIN disk \ {n}
         /\ \A m \in DOMAIN disk \ {n} : Without(n)[m] = disk[m]
BY DEF Without, Directory, IsInjective

LEMMA WithIsDirectory ==
  ASSUME NEW d, Directory(d), NEW n \in Names, n \notin DOMAIN d, NEW id \in Ids, id \notin Range(d)
  PROVE  /\ Directory(With(d, n, id))
         /\ DOMAIN With(d, n, id) = DOMAIN d \cup {n}
         /\ With(d, n, id)[n] = id
         /\ \A m \in DOMAIN d : With(d, n, id)[m] = d[m]
<1> DEFINE w == With(d, n, id)
<1>1. w = [m \in DOMAIN d \cup {n} |-> IF m = n THEN id ELSE d[m]]
  BY DEF With
<1>2. \A a, b \in DOMAIN d : d[a] = d[b] => a = b
  BY DEF Directory, IsInjective
<1>3. \A a \in DOMAIN d : d[a] # id
  BY DEF Range
<1>4. IsInjective(w)
  BY <1>1, <1>2, <1>3 DEF IsInjective
<1> QED
  BY <1>1, <1>4 DEF Directory

\* A commit that is done renames or creates one file, and touches no other.
LEMMA DoneIsDirectory ==
  ASSUME Directory(disk), Possible, text \in Names, self # None <=> kind = "rename"
  PROVE  /\ Directory(Done) /\ text \in DOMAIN Done
         /\ kind = "rename" => Done[text] = disk[self]
         /\ \A n \in DOMAIN disk \ {self} : n \in DOMAIN Done /\ Done[n] = disk[n]
<1>1. CASE text = self
  <2>1. Done = disk /\ self \in DOMAIN disk
    BY <1>1 DEF Done, Possible
  <2> QED
    BY <1>1, <2>1
<1>2. CASE text # self /\ kind = "rename"
  <2>1. Done = With(Without(self), text, disk[self]) /\ self \in DOMAIN disk /\ text \notin DOMAIN disk
    BY <1>2 DEF Done, Possible
  <2>2. /\ Directory(Without(self)) /\ DOMAIN Without(self) = DOMAIN disk \ {self}
        /\ \A m \in DOMAIN disk \ {self} : Without(self)[m] = disk[m]
    BY WithoutIsDirectory
  <2>3. disk[self] \in Ids /\ disk[self] \notin Range(Without(self))
    <3>1. \A m \in DOMAIN disk \ {self} : disk[m] # disk[self]
      BY <2>1 DEF Directory, IsInjective
    <3>2. disk[self] \in Ids
      BY <2>1 DEF Directory
    <3> QED
      BY <2>2, <3>1, <3>2 DEF Range
  <2>4. text \notin DOMAIN Without(self)
    BY <2>1, <2>2
  <2>5. /\ Directory(Done) /\ DOMAIN Done = DOMAIN Without(self) \cup {text}
        /\ Done[text] = disk[self]
        /\ \A m \in DOMAIN Without(self) : Done[m] = Without(self)[m]
    BY <2>1, <2>2, <2>3, <2>4, WithIsDirectory
  <2> QED
    BY <2>2, <2>5
<1>3. CASE text # self /\ kind # "rename"
  <2>1. Done = With(disk, text, Free) /\ text \notin DOMAIN disk
    BY <1>3 DEF Done, Possible
  <2>2. Free \in Ids /\ Free \notin Range(disk)
    BY FreeIsFree
  <2>3. /\ Directory(Done) /\ DOMAIN Done = DOMAIN disk \cup {text}
        /\ \A m \in DOMAIN disk : Done[m] = disk[m]
    BY <2>1, <2>2, WithIsDirectory
  <2> QED
    BY <1>3, <2>3
<1> QED
  BY <1>1, <1>2, <1>3

-----------------------------------------------------------------------------
(* The invariant, in the parts that the steps disturb.                     *)

DiskPart == Directory(disk)
ListPart == rows \in Listing /\ cursor \in CursorIn(rows)
EditorTypes ==
  /\ mode \in {"normal"} \cup Modes
  /\ kind \in {"rename", "create"} /\ committing \in BOOLEAN
  /\ self \in Names \cup {None} /\ text \in Names \cup {None}
SearchTypes == query \in Queries \cup {None} /\ committed \in Queries \cup {None} /\ stale \in BOOLEAN
RegisterTypes == register.names \in Seq(Names) /\ register.cut \in BOOLEAN
EditorPart ==
  /\ suspended <=> mode = "insert"
  /\ mode = "insert" => cursor = row /\ NameAt(row) = IF kind = "create" THEN Placeholder ELSE self
  /\ Placeholder \in ToSet(rows) => mode = "insert" /\ kind = "create"

LEMMA PartsOfEditing ==
  EditorStays <=> /\ DiskPart /\ ListPart /\ EditorTypes /\ SearchTypes /\ RegisterTypes
                  /\ EditorPart
BY DEF EditorStays, TypeOK, DiskPart, Directory, ListPart, Listing, CursorIn, EditorTypes, SearchTypes,
       RegisterTypes, EditorPart

LEMMA PartsOfEditingNext ==
  EditorStays' <=> /\ DiskPart' /\ ListPart' /\ EditorTypes' /\ SearchTypes' /\ RegisterTypes'
                   /\ EditorPart'
BY DEF EditorStays, TypeOK, DiskPart, Directory, ListPart, Listing, CursorIn, EditorTypes, SearchTypes,
       RegisterTypes, EditorPart

\* What does not touch a part keeps it.
LEMMA UntouchedParts ==
  /\ DiskPart /\ UNCHANGED disk => DiskPart'
  /\ ListPart /\ UNCHANGED <<rows, cursor>> => ListPart'
  /\ EditorTypes /\ UNCHANGED <<mode, kind, self, text, committing>> => EditorTypes'
  /\ SearchTypes /\ UNCHANGED <<query, committed, stale>> => SearchTypes'
  /\ RegisterTypes /\ UNCHANGED register => RegisterTypes'
  /\ EditorPart /\ UNCHANGED <<rows, cursor, suspended, mode, kind, self, row>> => EditorPart'
  /\ SearchInv /\ UNCHANGED <<rows, query, committed, matches, stale>>
       /\ (mode = "search" <=> mode' = "search") => SearchInv'
BY DEF DiskPart, Directory, ListPart, Listing, CursorIn, EditorTypes, SearchTypes, RegisterTypes, EditorPart,
       NameAt, SearchInv, MatchesAreCurrent, Matching

\* Facts about a state in the invariant that the steps need.
LEMMA EditingFacts ==
  ASSUME EditingInv
  PROVE  /\ DiskPart /\ ListPart /\ EditorTypes /\ SearchTypes /\ RegisterTypes /\ EditorPart
         /\ ModesInv /\ SearchInv
         /\ rows \in Listing /\ cursor \in CursorIn(rows) /\ cursor \in Nat
         /\ Len(rows) \in Nat /\ DOMAIN rows = 1 .. Len(rows)
         /\ rows # <<>> => cursor \in DOMAIN rows
         /\ mode # "insert" => rows \in Seq(Names) /\ Placeholder \notin ToSet(rows)
<1>1. /\ DiskPart /\ ListPart /\ EditorTypes /\ SearchTypes /\ RegisterTypes /\ EditorPart
      /\ ModesInv /\ SearchInv
  BY PartsOfEditing DEF EditingInv
<1>2. rows \in Listing /\ cursor \in CursorIn(rows)
  BY <1>1 DEF ListPart
<1>3. /\ cursor \in Nat /\ Len(rows) \in Nat /\ DOMAIN rows = 1 .. Len(rows)
      /\ rows # <<>> => cursor \in DOMAIN rows
  BY <1>2 DEF Listing, CursorIn
<1>4. mode # "insert" => rows \in Seq(Names) /\ Placeholder \notin ToSet(rows)
  BY <1>1, <1>2, EntriesOnly DEF EditorPart
<1> QED
  BY <1>1, <1>2, <1>3, <1>4

LEMMA EditingInit == Init => EditingInv
<1> SUFFICES ASSUME Init PROVE EditingInv
  OBVIOUS
<1>1. rows = <<>> /\ disk = <<>> /\ cursor = 0
  BY DEF Init
<1>2. ListPart
  BY <1>1 DEF ListPart, Listing, CursorIn, IsInjective
<1>3. DiskPart
  <2>1. DOMAIN disk = {} /\ disk \in [{} -> Ids]
    BY <1>1
  <2> QED
    BY <2>1 DEF DiskPart, Directory, IsInjective
<1>4. EditorTypes /\ SearchTypes
  BY DEF Init, EditorTypes, SearchTypes
<1>5. RegisterTypes
  BY DEF Init, RegisterTypes, NoRegister
<1>6. EditorPart
  BY <1>1 DEF Init, EditorPart, ToSet
<1>7. ModesInv /\ SearchInv
  BY DEF Init, ModesInv, SearchInv
<1> QED
  BY <1>2, <1>3, <1>4, <1>5, <1>6, <1>7, PartsOfEditing DEF EditingInv

\* The listing is rearranged: an editor is not open, the cursor follows its entry, and
\* a search in progress its matches.
LEMMA RearrangeKeeps ==
  ASSUME EditingInv, NEW now \in SetToAllKPermutations(Names), Rearrange(now)
  PROVE  EditingInv'
<1>0. /\ DiskPart /\ ListPart /\ EditorTypes /\ SearchTypes /\ RegisterTypes /\ EditorPart
      /\ ModesInv /\ SearchInv
  BY EditingFacts
<1> USE DEF Rearrange, ListingChanged, editor, search
<1>1. now \in Listing /\ now \in Seq(Names) /\ rows' = now /\ mode # "insert"
  BY <1>0, PermutationsAreListings DEF EditorPart
<1>2. DiskPart' /\ RegisterTypes'
  BY <1>0, UntouchedParts
<1>3. ListPart'
  BY <1>0, <1>1, ReconciledIsIn DEF ListPart
<1>4. mode' = mode \/ (mode = "visual" /\ mode' = "normal")
  BY DEF ModeAfter
<1>5. EditorTypes'
  BY <1>0, <1>4 DEF EditorTypes
<1>6. SearchTypes'
  BY <1>0 DEF SearchTypes, RefreshSearch, Outdate
<1>7. EditorPart'
  <2>1. Placeholder \notin ToSet(now)
    BY <1>1, EditingAssumption DEF ToSet
  <2> QED
    BY <1>0, <1>1, <1>4, <2>1 DEF EditorPart
<1>8. ModesInv'
  BY <1>0, <1>1, <1>4 DEF ModesInv
<1>9. SearchInv'
  <2>1. CASE mode = "search"
    BY <1>1, <1>4, <2>1 DEF SearchInv, MatchesAreCurrent, RefreshSearch
  <2>2. CASE mode # "search"
    BY <2>2 DEF SearchInv, Outdate
  <2> QED
    BY <2>1, <2>2
<1> QED
  BY <1>2, <1>3, <1>5, <1>6, <1>7, <1>8, <1>9, PartsOfEditingNext DEF EditingInv

\* The cursor moves, and Visual mode begins, ends and turns round.
LEMMA VisualKeeps ==
  ASSUME EditingInv,
         (\E r \in DOMAIN rows : Move(r)) \/ EnterVisual \/ Escape \/ SwapVisualEnds
  PROVE  EditingInv'
<1>0. /\ DiskPart /\ ListPart /\ EditorTypes /\ SearchTypes /\ RegisterTypes /\ EditorPart
      /\ ModesInv /\ SearchInv
  BY EditingFacts
<1>f. /\ rows \in Listing /\ cursor \in CursorIn(rows) /\ cursor \in Nat
      /\ DOMAIN rows = 1 .. Len(rows) /\ Len(rows) \in Nat
      /\ rows # <<>> => cursor \in DOMAIN rows
  BY EditingFacts
<1>1. UNCHANGED <<disk, rows, suspended, kind, self, text, row, committing, register,
                  query, committed, matches, stale, preRow, preName, origin>>
  BY DEF Move, EnterVisual, Escape, SwapVisualEnds, ExitVisual, editor, search, list
<1>2. mode \in {"normal", "visual"} /\ mode' \in {"normal", "visual"}
  BY <1>0 DEF Move, EnterVisual, Escape, SwapVisualEnds, ExitVisual, SetCursorRow, ModeAfter, EditorTypes
<1>3. mode' = "visual" => "visual" \in Modes
  <2>1. mode = "visual" => "visual" \in Modes
    BY <1>0 DEF EditorTypes
  <2> QED
    BY <2>1 DEF Move, EnterVisual, Escape, SwapVisualEnds, ExitVisual, SetCursorRow, ModeAfter
<1>4. ListPart'
  <2>1. CASE \E r \in DOMAIN rows : Move(r)
    <3>1. PICK r \in DOMAIN rows : Move(r)
      BY <2>1
    <3>2. r \in Nat /\ cursor' = Clamped(r, rows)
      BY <1>f, <3>1 DEF Move, SetCursorRow
    <3> QED
      BY <1>f, <1>1, <3>2, ClampedIsIn DEF ListPart
  <2>2. CASE SwapVisualEnds
    <3>1. anchor \in Nat /\ cursor' = Clamped(anchor, rows)
      BY <1>0, <2>2 DEF SwapVisualEnds, SetCursorRow, ModesInv
    <3> QED
      BY <1>f, <1>1, <3>1, ClampedIsIn DEF ListPart
  <2>3. CASE EnterVisual \/ Escape
    <3>1. cursor' = cursor
      BY <2>3 DEF EnterVisual, Escape, list
    <3> QED
      BY <1>0, <1>1, <3>1, UntouchedParts
  <2> QED
    BY <2>1, <2>2, <2>3
<1>5. EditorTypes'
  BY <1>0, <1>1, <1>2, <1>3 DEF EditorTypes
<1>6. EditorPart'
  BY <1>0, <1>1, <1>2 DEF EditorPart
<1>7. ModesInv'
  <2>1. mode' = "visual" => anchor' \in Nat \ {0} /\ current' \in Nat \ {0}
    <3> SUFFICES ASSUME mode' = "visual" PROVE anchor' \in Nat \ {0} /\ current' \in Nat \ {0}
      OBVIOUS
    <3>1. CASE EnterVisual
      BY <1>f, <3>1 DEF EnterVisual
    <3>2. CASE \E r \in DOMAIN rows : Move(r)
      <4>1. PICK r \in DOMAIN rows : Move(r)
        BY <3>2
      <4>2. mode = "visual" /\ anchor' = anchor /\ current' = cursor' /\ cursor' = Clamped(r, rows)
        BY <4>1 DEF Move, SetCursorRow, ModeAfter
      <4>3. Clamped(r, rows) = r /\ r \in Nat \ {0}
        BY <1>f, ClampedIsIn
      <4> QED
        BY <1>0, <4>2, <4>3 DEF ModesInv
    <3>3. CASE SwapVisualEnds
      <4>1. /\ mode = "visual" /\ rows # <<>> /\ anchor' = current /\ current' = cursor'
            /\ cursor' = Clamped(anchor, rows)
        BY <3>3 DEF SwapVisualEnds, SetCursorRow, ModeAfter
      <4>2. cursor' \in DOMAIN rows
        BY <1>0, <1>f, <4>1, ClampedIsIn DEF ModesInv, CursorIn
      <4> QED
        BY <1>0, <1>f, <4>1, <4>2 DEF ModesInv
    <3>4. CASE Escape
      BY <3>4 DEF Escape, ExitVisual
    <3> QED
      BY <3>1, <3>2, <3>3, <3>4
  <2> QED
    BY <1>0, <1>1, <1>2, <2>1 DEF ModesInv
<1>8. SearchInv' /\ DiskPart' /\ SearchTypes' /\ RegisterTypes'
  BY <1>0, <1>1, <1>2, UntouchedParts
<1> QED
  BY <1>4, <1>5, <1>6, <1>7, <1>8, PartsOfEditingNext DEF EditingInv

\* The register holds names of entries, never the placeholder.
LEMMA RegisterKeeps ==
  ASSUME EditingInv, (\E cut \in BOOLEAN : YankOrCut(cut)) \/ PasteRegister
  PROVE  EditingInv'
<1>0. /\ DiskPart /\ ListPart /\ EditorTypes /\ SearchTypes /\ RegisterTypes /\ EditorPart
      /\ ModesInv /\ SearchInv
  BY EditingFacts
<1>1. UNCHANGED <<disk, rows, cursor, suspended, kind, self, text, row, committing,
                  query, committed, matches, stale, preRow, preName, origin>>
  BY DEF YankOrCut, PasteRegister, editor, search, list
<1>2. /\ mode \in {"normal", "visual"}
      /\ \/ mode' = mode /\ UNCHANGED <<anchor, current>>
         \/ mode' = "normal"
  BY DEF YankOrCut, PasteRegister, ExitVisual, visual
<1>3. RegisterTypes'
  <2>1. CASE PasteRegister
    BY <1>0, <2>1 DEF PasteRegister, RegisterTypes
  <2>2. ASSUME NEW cut \in BOOLEAN, YankOrCut(cut) PROVE RegisterTypes'
    <3>1. rows \in Seq(Names) /\ Len(rows) \in Nat /\ DOMAIN rows = 1 .. Len(rows)
      BY <1>2, EditingFacts
    <3>2. mode = "visual" => VisualSelection \in Seq(Names)
      <4> SUFFICES ASSUME mode = "visual" PROVE VisualSelection \in Seq(Names)
        OBVIOUS
      <4>1. LowRow \in Nat \ {0} /\ HighRow \in Nat
        BY <1>0 DEF ModesInv, LowRow, HighRow
      <4> DEFINE last == IF HighRow < Len(rows) THEN HighRow ELSE Len(rows)
      <4>2. last \in Nat /\ last <= Len(rows)
        BY <3>1, <4>1
      <4> HIDE DEF last
      <4>3. SubSeq(rows, LowRow, last) \in Seq(Names)
        BY <3>1, <4>1, <4>2
      <4> QED
        BY <4>3 DEF VisualSelection, last
    <3>3. cursor \in DOMAIN rows => <<rows[cursor]>> \in Seq(Names)
      <4>1. cursor \in DOMAIN rows => rows[cursor] \in Names
        BY <3>1
      <4> QED
        BY <4>1
    <3>4. PICK names \in Seq(Names) :
            register' = IF names = <<>> THEN register ELSE [names |-> names, cut |-> cut]
      <4>1. CASE mode = "visual"
        BY <2>2, <3>2, <4>1 DEF YankOrCut
      <4>2. CASE mode # "visual" /\ cursor \in DOMAIN rows
        BY <2>2, <3>3, <4>2 DEF YankOrCut
      <4>3. CASE mode # "visual" /\ cursor \notin DOMAIN rows
        <5>1. <<>> \in Seq(Names) /\ register' = register
          BY <2>2, <4>3 DEF YankOrCut
        <5> QED
          BY <5>1
      <4> QED
        BY <4>1, <4>2, <4>3
    <3> QED
      BY <1>0, <3>4 DEF RegisterTypes
  <2> QED
    BY <2>1, <2>2
<1>4. EditorTypes'
  BY <1>0, <1>1, <1>2 DEF EditorTypes
<1>5. EditorPart'
  BY <1>0, <1>1, <1>2 DEF EditorPart, NameAt
<1>6. ModesInv'
  BY <1>0, <1>1, <1>2 DEF ModesInv
<1>7. SearchInv' /\ DiskPart' /\ SearchTypes' /\ ListPart'
  BY <1>0, <1>1, <1>2, UntouchedParts
<1> QED
  BY <1>3, <1>4, <1>5, <1>6, <1>7, PartsOfEditingNext DEF EditingInv

\* An editor opens on the row under the cursor or on one of its own.
LEMMA BeginKeeps ==
  ASSUME EditingInv, BeginRename \/ \E below \in BOOLEAN : BeginCreate(below)
  PROVE  EditingInv'
<1>0. /\ DiskPart /\ ListPart /\ EditorTypes /\ SearchTypes /\ RegisterTypes /\ EditorPart
      /\ ModesInv /\ SearchInv
  BY EditingFacts
<1>1. /\ UNCHANGED <<disk, query, committed, matches, preRow, preName, origin, register>>
      /\ mode = "normal" /\ mode' = "insert" /\ suspended' = TRUE /\ committing' = FALSE
      /\ "insert" \in Modes
  BY DEF BeginRename, BeginCreate, search, SuspendUpdates
<1>2. /\ rows \in Seq(Names) /\ Placeholder \notin ToSet(rows) /\ rows \in Listing
      /\ Len(rows) \in Nat /\ DOMAIN rows = 1 .. Len(rows) /\ cursor \in CursorIn(rows)
      /\ cursor \in Nat
  BY <1>1, EditingFacts
<1>3. CASE BeginRename
  <2>1. /\ rows' = rows /\ cursor' = cursor /\ row' = cursor /\ cursor \in DOMAIN rows /\ stale' = stale
        /\ kind' = "rename" /\ self' = rows[cursor] /\ text' = rows[cursor]
    BY <1>3 DEF BeginRename, search
  <2>2. rows[cursor] \in Names
    BY <1>2, <2>1
  <2>3. ListPart' /\ DiskPart' /\ SearchTypes' /\ RegisterTypes' /\ SearchInv'
    BY <1>0, <1>1, <2>1, UntouchedParts
  <2>4. EditorTypes'
    BY <1>1, <2>1, <2>2 DEF EditorTypes
  <2>5. EditorPart'
    BY <1>1, <1>2, <2>1 DEF EditorPart, NameAt
  <2>6. ModesInv'
    <3>1. self' # None
      BY <2>1, <2>2, EditingAssumption
    <3> QED
      BY <1>0, <1>1, <1>2, <2>1, <3>1 DEF ModesInv
  <2> QED
    BY <2>3, <2>4, <2>5, <2>6, PartsOfEditingNext DEF EditingInv
<1>4. ASSUME NEW below \in BOOLEAN, BeginCreate(below) PROVE EditingInv'
  <2>1. /\ row' = (IF cursor = 0 THEN 1 ELSE IF below THEN cursor + 1 ELSE cursor)
        /\ rows' = InsertAt(rows, row', Placeholder) /\ cursor' = row' /\ stale' = TRUE
        /\ kind' = "create" /\ self' = None /\ text' = None
    BY <1>4 DEF BeginCreate, Outdate
  <2>2. row' \in 1 .. Len(rows) + 1
    BY <1>2, <2>1 DEF CursorIn
  <2>3. rows' \in Listing /\ row' \in DOMAIN rows' /\ rows'[row'] = Placeholder
    BY <1>2, <2>1, <2>2, InsertedIsListing
  <2>4. ListPart'
    <3>1. rows' # <<>>
      BY <2>3 DEF Listing
    <3> QED
      BY <2>1, <2>3, <3>1 DEF ListPart, CursorIn
  <2>5. DiskPart' /\ RegisterTypes'
    BY <1>0, <1>1, UntouchedParts
  <2>6. SearchTypes' /\ SearchInv'
    BY <1>0, <1>1, <2>1 DEF SearchTypes, SearchInv
  <2>7. EditorTypes'
    BY <1>1, <2>1 DEF EditorTypes
  <2>8. EditorPart'
    BY <1>1, <2>1, <2>3 DEF EditorPart, NameAt
  <2>9. ModesInv'
    BY <1>0, <1>1, <2>1, <2>2 DEF ModesInv
  <2> QED
    BY <2>4, <2>5, <2>6, <2>7, <2>8, <2>9, PartsOfEditingNext DEF EditingInv
<1> QED
  BY <1>3, <1>4

\* The text changes, or is found valid; others change the directory.
LEMMA TypingKeeps ==
  ASSUME EditingInv,
         (\E t \in Names \cup {None} : UpdateInsertText(t)) \/ CommitInsert
  PROVE  EditingInv'
<1>0. /\ DiskPart /\ ListPart /\ EditorTypes /\ SearchTypes /\ RegisterTypes /\ EditorPart
      /\ ModesInv /\ SearchInv
  BY EditingFacts
<1>1. /\ UNCHANGED <<disk, rows, cursor, suspended, mode, anchor, current, kind, self, row, register,
                     query, committed, matches, stale, preRow, preName, origin>>
      /\ mode = "insert"
  BY DEF UpdateInsertText, CommitInsert, search, visual, list
<1>2. EditorTypes' /\ ModesInv'
  <2>1. CASE CommitInsert
    <3>1. text' = text /\ text # None /\ committing' = TRUE
      BY <2>1 DEF CommitInsert, Valid
    <3> QED
      BY <1>0, <1>1, <3>1 DEF EditorTypes, ModesInv
  <2>2. ASSUME NEW t \in Names \cup {None}, UpdateInsertText(t)
        PROVE  EditorTypes' /\ ModesInv'
    <3>1. text' = t /\ committing' = committing /\ ~committing
      BY <2>2 DEF UpdateInsertText
    <3> QED
      BY <1>0, <1>1, <3>1 DEF EditorTypes, ModesInv
  <2> QED
    BY <2>1, <2>2
<1>3. DiskPart' /\ ListPart' /\ SearchTypes' /\ RegisterTypes' /\ EditorPart' /\ SearchInv'
  BY <1>0, <1>1, UntouchedParts
<1> QED
  BY <1>2, <1>3, PartsOfEditingNext DEF EditingInv

LEMMA OthersKeep ==
  ASSUME EditingInv, NEW n \in Names, Vanish(n) \/ Appear(n)
  PROVE  EditingInv'
<1>0. /\ DiskPart /\ ListPart /\ EditorTypes /\ SearchTypes /\ RegisterTypes /\ EditorPart
      /\ ModesInv /\ SearchInv
  BY EditingFacts
<1>1. UNCHANGED <<rows, cursor, suspended, mode, anchor, current, kind, self, text, row, committing, register,
                  query, committed, matches, stale, preRow, preName, origin>>
  BY DEF Vanish, Appear, search, visual, list, editor
<1>2. Directory(disk')
  <2>1. CASE Vanish(n)
    BY <1>0, <2>1, WithoutIsDirectory DEF Vanish, DiskPart
  <2>2. CASE Appear(n)
    <3>1. Free \in Ids /\ Free \notin Range(disk)
      BY <1>0, FreeIsFree DEF DiskPart
    <3> QED
      BY <1>0, <2>2, <3>1, WithIsDirectory DEF Appear, DiskPart
  <2> QED
    BY <2>1, <2>2
<1>3. DiskPart'
  BY <1>2 DEF DiskPart, Directory
<1>4. ListPart' /\ EditorTypes' /\ SearchTypes' /\ RegisterTypes' /\ EditorPart' /\ SearchInv'
  BY <1>0, <1>1, UntouchedParts
<1>5. ModesInv'
  BY <1>0, <1>1 DEF ModesInv
<1> QED
  BY <1>3, <1>4, <1>5, PartsOfEditingNext DEF EditingInv

\* An editor closes: the placeholder goes with it, and only it.
LEMMA ClosingKeeps ==
  ASSUME EditingInv, mode = "insert", CloseEditor, Directory(disk')
  PROVE  EditingInv'
<1>0. /\ DiskPart /\ ListPart /\ EditorTypes /\ SearchTypes /\ RegisterTypes /\ EditorPart
      /\ ModesInv /\ SearchInv
  BY EditingFacts
<1>1. /\ UNCHANGED <<anchor, current, query, committed, matches, preRow, preName, origin, register>>
      /\ suspended' = FALSE /\ mode' = "normal" /\ kind' = "rename" /\ self' = None /\ text' = None
      /\ row' = 0 /\ committing' = FALSE /\ cursor' = Reconciled(rows')
      /\ stale' = (stale \/ rows' # rows)
  BY DEF CloseEditor, NoEditor, visual
<1>2. rows \in Listing /\ cursor \in CursorIn(rows)
  BY EditingFacts
<1>3. rows' \in Listing /\ Placeholder \notin ToSet(rows')
  <2>1. CASE kind = "create"
    <3>1. NameAt(row) = Placeholder
      BY <1>0, <2>1 DEF EditorPart
    <3>4. row \in DOMAIN rows /\ rows[row] = Placeholder
      BY <3>1, EditingAssumption DEF NameAt
    <3>2. rows' = RemoveAt(rows, row)
      BY <2>1, <3>1 DEF CloseEditor, RemoveActivePlaceholderIfAny
    <3> QED
      BY <1>2, <3>4, <3>2, RemovedIsListing
  <2>2. CASE kind # "create"
    <3>1. rows' = rows
      BY <2>2 DEF CloseEditor, RemoveActivePlaceholderIfAny
    <3> QED
      BY <1>0, <1>2, <2>2, <3>1 DEF EditorPart
  <2> QED
    BY <2>1, <2>2
<1>4. ListPart'
  BY <1>1, <1>2, <1>3, ReconciledIsIn DEF ListPart, CursorIn
<1>5. EditorTypes' /\ RegisterTypes'
  BY <1>0, <1>1 DEF EditorTypes, RegisterTypes
<1>6. EditorPart'
  BY <1>1, <1>3 DEF EditorPart
<1>7. ModesInv'
  BY <1>0, <1>1 DEF ModesInv
<1>8. SearchTypes'
  <2>1. stale' \in BOOLEAN
    BY <1>1
  <2> QED
    BY <1>0, <1>1, <2>1 DEF SearchTypes
<1>9. SearchInv'
  <2>1. CASE rows' = rows /\ ~stale
    BY <1>0, <1>1, <2>1 DEF SearchInv, MatchesAreCurrent
  <2>2. CASE rows' # rows \/ stale
    <3>1. stale'
      BY <1>1, <2>2
    <3> QED
      BY <3>1 DEF SearchInv
  <2> QED
    BY <1>0, <2>1, <2>2 DEF SearchTypes
<1>10. DiskPart'
  BY DEF DiskPart, Directory
<1> QED
  BY <1>4, <1>5, <1>6, <1>7, <1>8, <1>9, <1>10, PartsOfEditingNext DEF EditingInv

LEMMA CommitKeeps ==
  ASSUME EditingInv, (\E permitted \in BOOLEAN : CommitInsertEditing(permitted)) \/ CancelInsertEditing
  PROVE  EditingInv'
<1>0. /\ DiskPart /\ ListPart /\ EditorTypes /\ SearchTypes /\ RegisterTypes /\ EditorPart
      /\ ModesInv /\ SearchInv
  BY EditingFacts
<1>1. CASE CancelInsertEditing
  BY <1>0, <1>1, ClosingKeeps DEF CancelInsertEditing, DiskPart
<1>2. ASSUME NEW permitted \in BOOLEAN, CommitInsertEditing(permitted) PROVE EditingInv'
  <2>1. mode = "insert" /\ text \in Names
    BY <1>0, <1>2 DEF CommitInsertEditing, ModesInv, EditorTypes
  <2>2. CASE permitted /\ Possible
    <3>1. disk' = Done /\ CloseEditor
      BY <1>2, <2>2 DEF CommitInsertEditing
    <3>2. Directory(Done)
      BY <1>0, <2>1, <2>2, DoneIsDirectory DEF DiskPart, ModesInv
    <3>3. Directory(disk')
      BY <3>1, <3>2
    <3> QED
      BY <2>1, <3>1, <3>3, ClosingKeeps
  <2>3. CASE ~(permitted /\ Possible)
    <3>1. /\ UNCHANGED <<disk, rows, cursor, suspended, mode, anchor, current, kind, self, text, row, register,
                         query, committed, matches, stale, preRow, preName, origin>>
          /\ committing' = FALSE
      BY <1>2, <2>3 DEF CommitInsertEditing, list, visual, search
    <3>2. EditorTypes' /\ ModesInv'
      BY <1>0, <3>1 DEF EditorTypes, ModesInv
    <3>3. DiskPart' /\ ListPart' /\ SearchTypes' /\ RegisterTypes' /\ EditorPart' /\ SearchInv'
      BY <1>0, <3>1, UntouchedParts
    <3> QED
      BY <3>2, <3>3, PartsOfEditingNext DEF EditingInv
  <2> QED
    BY <2>2, <2>3
<1> QED
  BY <1>1, <1>2

\* Searching moves only the cursor, and to rows that are there.
LEMMA SearchKeeps ==
  ASSUME EditingInv,
         \/ EnterSearch \/ CommitSearch \/ CancelSearch
         \/ \E q \in Queries \cup {None} : UpdateSearchQuery(q)
         \/ \E forward \in BOOLEAN : AdvanceSearch(forward)
  PROVE  EditingInv'
<1>0. /\ DiskPart /\ ListPart /\ EditorTypes /\ SearchTypes /\ RegisterTypes /\ EditorPart
      /\ ModesInv /\ SearchInv
  BY EditingFacts
<1>1. /\ UNCHANGED <<disk, rows, suspended, anchor, current, kind, self, text, row, committing, register>>
      /\ mode \in {"normal", "search"} /\ mode' \in {"normal", "search"}
  BY DEF EnterSearch, CommitSearch, CancelSearch, UpdateSearchQuery, AdvanceSearch, list, visual, editor
<1>2. /\ rows \in Seq(Names) /\ Placeholder \notin ToSet(rows) /\ rows \in Listing
      /\ Len(rows) \in Nat /\ DOMAIN rows = 1 .. Len(rows) /\ cursor \in CursorIn(rows)
      /\ cursor \in Nat
  BY <1>1, EditingFacts
<1>3. mode' = "search" => "search" \in Modes
  BY <1>0 DEF EnterSearch, CommitSearch, CancelSearch, UpdateSearchQuery, AdvanceSearch, EditorTypes
<1>4. \A r \in DOMAIN rows : r \in CursorIn(rows)
  BY <1>2 DEF CursorIn
<1>5. EditorTypes'
  BY <1>0, <1>1, <1>3 DEF EditorTypes
<1>6. EditorPart'
  BY <1>0, <1>1, <1>2 DEF EditorPart
<1>7. DiskPart' /\ RegisterTypes'
  BY <1>0, <1>1, UntouchedParts
<1>8. SearchTypes' /\ SearchInv' /\ ModesInv' /\ cursor' \in CursorIn(rows)
  <2>1. CASE EnterSearch
    <3>1. cursor' = cursor /\ matches' = {} /\ query' = None /\ committed' = committed /\ stale' = stale
          /\ preRow' = cursor /\ preName' = NameAt(cursor) /\ origin' = NameAt(cursor) /\ mode' = "search"
      BY <2>1 DEF EnterSearch, list
    <3> QED
      BY <1>0, <1>1, <1>2, <3>1 DEF SearchTypes, SearchInv, MatchesAreCurrent, Matching, ModesInv
  <2>2. CASE CommitSearch
    <3>1. /\ cursor' = cursor /\ committed' = query /\ query' = None /\ mode' = "normal" /\ mode = "search"
          /\ UNCHANGED <<matches, stale, preRow, preName, origin>>
      BY <2>2 DEF CommitSearch, list
    <3> QED
      BY <1>0, <1>1, <1>2, <3>1 DEF SearchTypes, SearchInv, MatchesAreCurrent, ModesInv
  <2>3. CASE CancelSearch
    <3>1. /\ cursor' = Clamped(RestoredRow, rows) /\ stale' = TRUE /\ mode' = "normal" /\ preRow' = 0
          /\ query' = None /\ committed' = committed
      BY <2>3 DEF CancelSearch, Outdate
    <3>2. RestoredRow \in Nat
      <4>1. preName \in ToSet(rows) => RowIn(rows, preName) \in DOMAIN rows
        BY <1>2, RowInIs
      <4> QED
        BY <1>0, <1>2, <4>1 DEF RestoredRow, ModesInv
    <3>3. cursor' \in CursorIn(rows)
      BY <1>2, <3>1, <3>2, ClampedIsIn
    <3> QED
      BY <1>0, <1>1, <3>1, <3>3 DEF SearchTypes, SearchInv, ModesInv
  <2>4. ASSUME NEW q \in Queries \cup {None}, UpdateSearchQuery(q)
        PROVE  SearchTypes' /\ SearchInv' /\ ModesInv' /\ cursor' \in CursorIn(rows)
    <3>1. /\ query' = q /\ matches' = Matching(rows, q) /\ best' = Best(rows, matches') /\ stale' = FALSE
          /\ cursor' = (IF best' > 0 THEN best' ELSE cursor) /\ mode' = mode /\ mode = "search"
          /\ UNCHANGED <<committed, preRow, preName, origin>>
      BY <2>4 DEF UpdateSearchQuery, RefreshSearch
    <3>2. best' = 0 \/ best' \in DOMAIN rows
      BY <1>2, <3>1, MatchesAreRows, BestIsFound
    <3>3. cursor' \in CursorIn(rows)
      BY <1>2, <1>4, <3>1, <3>2
    <3> QED
      BY <1>0, <1>1, <3>1, <3>3 DEF SearchTypes, SearchInv, MatchesAreCurrent, ModesInv
  <2>5. ASSUME NEW forward \in BOOLEAN, AdvanceSearch(forward)
        PROVE  SearchTypes' /\ SearchInv' /\ ModesInv' /\ cursor' \in CursorIn(rows)
    <3>1. /\ mode = "normal" /\ mode' = "normal"
          /\ UNCHANGED <<query, committed, preRow, preName, origin>>
          /\ cursor' = IF matches' = {} THEN cursor
                       ELSE IF forward THEN NextRow(cursor, matches') ELSE PreviousRow(cursor, matches')
      BY <2>5 DEF AdvanceSearch
    <3>2. matches' = Matching(rows, committed) /\ stale' = FALSE
      <4>1. CASE stale
        BY <2>5, <4>1 DEF AdvanceSearch, RefreshSearch
      <4>2. CASE ~stale
        <5>1. matches' = matches /\ stale' = stale
          BY <2>5, <4>2 DEF AdvanceSearch
        <5>2. stale = FALSE
          BY <1>0, <4>2 DEF SearchTypes
        <5> QED
          BY <1>0, <3>1, <4>2, <5>1, <5>2 DEF SearchInv, MatchesAreCurrent
      <4> QED
        BY <4>1, <4>2
    <3>3. matches' \subseteq DOMAIN rows
      BY <1>0, <1>2, <3>2, MatchesAreRows DEF SearchTypes
    <3>4. matches' # {} => /\ NextRow(cursor, matches') \in matches'
                           /\ PreviousRow(cursor, matches') \in matches'
      BY <1>2, <3>3, RepetitionIsFound
    <3>5. cursor' \in CursorIn(rows)
      <4>1. CASE matches' = {}
        BY <1>2, <3>1, <4>1
      <4>2. CASE matches' # {}
        <5>1. cursor' \in matches'
          BY <3>1, <3>4, <4>2
        <5> QED
          BY <1>4, <3>3, <5>1
      <4> QED
        BY <4>1, <4>2
    <3>6. SearchInv'
      BY <1>1, <3>1, <3>2 DEF SearchInv, MatchesAreCurrent
    <3> QED
      BY <1>0, <1>1, <3>1, <3>2, <3>5, <3>6 DEF SearchTypes, ModesInv
  <2> QED
    BY <2>1, <2>2, <2>3, <2>4, <2>5
<1>9. ListPart'
  BY <1>1, <1>2, <1>8 DEF ListPart, CursorIn
<1> QED
  BY <1>5, <1>6, <1>7, <1>8, <1>9, PartsOfEditingNext DEF EditingInv

LEMMA NavigateKeeps ==
  ASSUME EditingInv, Navigate
  PROVE  EditingInv'
<1>0. /\ DiskPart /\ ListPart /\ EditorTypes /\ SearchTypes /\ RegisterTypes /\ EditorPart
      /\ ModesInv /\ SearchInv
  BY EditingFacts
<1>1. /\ rows' = <<>> /\ cursor' = 0 /\ suspended' = FALSE /\ mode' = "normal"
      /\ kind' = "rename" /\ self' = None /\ text' = None /\ row' = 0 /\ committing' = FALSE
      /\ query' = None /\ committed' = None /\ preRow' = 0 /\ stale' = TRUE
      /\ UNCHANGED <<disk, register>>
  BY DEF Navigate, NoEditor, Outdate
<1>2. ListPart'
  BY <1>1 DEF ListPart, Listing, CursorIn, IsInjective
<1>3. EditorPart'
  BY <1>1 DEF EditorPart, ToSet
<1>4. EditorTypes' /\ SearchTypes' /\ SearchInv' /\ ModesInv'
  BY <1>1 DEF EditorTypes, SearchTypes, SearchInv, ModesInv
<1>5. DiskPart' /\ RegisterTypes'
  BY <1>0, <1>1, UntouchedParts
<1> QED
  BY <1>2, <1>3, <1>4, <1>5, PartsOfEditingNext DEF EditingInv

LEMMA EditingStep == EditingInv /\ [Next]_vars => EditingInv'
<1> SUFFICES ASSUME EditingInv, [Next]_vars PROVE EditingInv'
  OBVIOUS
<1>1. CASE UNCHANGED vars
  <2>0. /\ DiskPart /\ ListPart /\ EditorTypes /\ SearchTypes /\ RegisterTypes /\ EditorPart
        /\ ModesInv /\ SearchInv
    BY EditingFacts
  <2>1. DiskPart' /\ ListPart' /\ EditorTypes' /\ SearchTypes' /\ RegisterTypes' /\ EditorPart' /\ SearchInv'
    BY <1>1, <2>0, UntouchedParts DEF vars, list, visual, editor, search
  <2>2. ModesInv'
    BY <1>1, <2>0 DEF ModesInv, vars, list, visual, editor, search
  <2> QED
    BY <2>1, <2>2, PartsOfEditingNext DEF EditingInv
<1>2. CASE Next
  BY <1>2, RearrangeKeeps, VisualKeeps, RegisterKeeps, BeginKeeps, TypingKeeps, OthersKeep, CommitKeeps,
     SearchKeeps, NavigateKeeps DEF Next
<1> QED
  BY <1>1, <1>2

LEMMA EditingHolds == Spec => []EditingInv
BY EditingInit, EditingStep, PTL DEF Spec

-----------------------------------------------------------------------------
(* The theorems.                                                           *)

\* REQ-R-003: for any names, whatever is typed, refused or done meanwhile by others,
\* nothing takes the row of an open editor from under it, updates are held back for as
\* long, and the placeholder of a creation goes with its editor.
THEOREM EditorKeepsItsRow == Spec => []EditorStays
<1>1. EditingInv => EditorStays
  BY DEF EditingInv
<1> QED
  BY <1>1, EditingHolds, PTL

\* REQ-R-001, REQ-R-002: a commit that ends has done what was typed, and nothing to any
\* other file, or nothing at all, and then keeps editor and text, whatever others have
\* done to the directory since the name was found free.
THEOREM CommitDoesAllOrNothing == Spec => EditedOrKept
<1> DEFINE AllOrNothing ==
      committing /\ ~committing' =>
        \/ UNCHANGED <<disk, mode, text, rows>>
        \/ /\ mode' = "normal" /\ text \in DOMAIN disk'
           /\ kind = "rename" => disk'[text] = disk[self]
           /\ \A n \in DOMAIN disk \ {self} : n \in DOMAIN disk' /\ disk'[n] = disk[n]
<1>1. ASSUME EditingInv, [Next]_vars PROVE AllOrNothing
  <2> SUFFICES ASSUME committing, ~committing' PROVE AllOrNothing
    OBVIOUS
  <2>0. DiskPart /\ EditorTypes /\ ModesInv /\ mode = "insert" /\ text \in Names
    BY <1>1, EditingFacts DEF ModesInv, EditorTypes
  <2>1. ~(UNCHANGED vars)
    BY DEF vars, editor
  <2>2. PICK permitted \in BOOLEAN : CommitInsertEditing(permitted)
    <3>1. ~ \E now \in SetToAllKPermutations(Names) : Rearrange(now)
      BY DEF Rearrange, editor
    <3>2. ~ ((\E r \in DOMAIN rows : Move(r)) \/ EnterVisual \/ Escape \/ SwapVisualEnds)
      BY DEF Move, EnterVisual, Escape, SwapVisualEnds, editor
    <3>3. ~ ((\E cut \in BOOLEAN : YankOrCut(cut)) \/ PasteRegister \/ BeginRename
             \/ \E below \in BOOLEAN : BeginCreate(below))
      BY <2>0 DEF YankOrCut, PasteRegister, BeginRename, BeginCreate
    <3>4. ~ ((\E t \in Names \cup {None} : UpdateInsertText(t)) \/ CommitInsert \/ CancelInsertEditing)
      BY DEF UpdateInsertText, CommitInsert, CancelInsertEditing
    <3>5. ~ (\/ EnterSearch \/ CommitSearch \/ CancelSearch
             \/ \E q \in Queries \cup {None} : UpdateSearchQuery(q)
             \/ \E forward \in BOOLEAN : AdvanceSearch(forward))
      BY <2>0 DEF EnterSearch, CommitSearch, CancelSearch, UpdateSearchQuery, AdvanceSearch
    <3>6. ~ (Navigate \/ \E n \in Names : Vanish(n) \/ Appear(n))
      BY DEF Navigate, Vanish, Appear, editor
    <3> QED
      BY <1>1, <2>1, <3>1, <3>2, <3>3, <3>4, <3>5, <3>6 DEF Next
  <2>3. CASE permitted /\ Possible
    <3>1. disk' = Done /\ mode' = "normal"
      BY <2>2, <2>3 DEF CommitInsertEditing, CloseEditor
    <3>2. /\ text \in DOMAIN Done
          /\ kind = "rename" => Done[text] = disk[self]
          /\ \A n \in DOMAIN disk \ {self} : n \in DOMAIN Done /\ Done[n] = disk[n]
      BY <2>0, <2>3, DoneIsDirectory DEF DiskPart, ModesInv
    <3> QED
      BY <3>1, <3>2
  <2>4. CASE ~(permitted /\ Possible)
    BY <2>2, <2>4 DEF CommitInsertEditing, list
  <2> QED
    BY <2>3, <2>4
<1> HIDE DEF AllOrNothing
<1>2. EditingInv /\ [Next]_vars => AllOrNothing
  BY <1>1
<1>3. Spec => [][AllOrNothing]_vars
  BY <1>2, EditingInit, EditingStep, PTL DEF Spec
<1> QED
  BY <1>3 DEF AllOrNothing, EditedOrKept

\* REQ-R-006: the rows a repetition would go to are those of the listing as it is, or
\* are found anew; giving a search up returns to the entry it began on, wherever
\* refreshes have put it.
THEOREM SearchStaysTrue == Spec => SearchIsTrue
<1> DEFINE Returns ==
      mode = "search" /\ preRow # 0 /\ preRow' = 0 /\ rows' = rows =>
        (origin \in ToSet(rows) => rows[cursor'] = origin)
<1>1. ASSUME EditingInv, [Next]_vars PROVE Returns
  <2> SUFFICES ASSUME mode = "search", preRow # 0, preRow' = 0, rows' = rows, origin \in ToSet(rows)
               PROVE  rows[cursor'] = origin
    OBVIOUS
  <2>0. ModesInv /\ rows \in Listing /\ ~suspended
    BY <1>1, EditingFacts DEF EditorPart
  <2>1. rows # <<>>
    BY <2>0 DEF ToSet, Listing
  <2>2. CancelSearch
    <3>1. ~(UNCHANGED vars)
      BY DEF vars, search
    <3>2. ~ \E now \in SetToAllKPermutations(Names) : Rearrange(now)
      BY DEF Rearrange, ListingChanged
    <3>3. ~ ((\E r \in DOMAIN rows : Move(r)) \/ EnterVisual \/ Escape \/ SwapVisualEnds)
      BY DEF Move, EnterVisual, Escape, SwapVisualEnds, ExitVisual
    <3>4. ~ ((\E cut \in BOOLEAN : YankOrCut(cut)) \/ PasteRegister \/ BeginRename
             \/ \E below \in BOOLEAN : BeginCreate(below))
      BY DEF YankOrCut, PasteRegister, BeginRename, BeginCreate
    <3>5. ~ ((\E t \in Names \cup {None} : UpdateInsertText(t)) \/ CommitInsert \/ CancelInsertEditing)
      BY DEF UpdateInsertText, CommitInsert, CancelInsertEditing
    <3>6. ~ \E permitted \in BOOLEAN : CommitInsertEditing(permitted)
      BY <2>0 DEF CommitInsertEditing, ModesInv
    <3>7. ~ (\/ EnterSearch \/ CommitSearch
             \/ \E q \in Queries \cup {None} : UpdateSearchQuery(q)
             \/ \E forward \in BOOLEAN : AdvanceSearch(forward))
      BY DEF EnterSearch, CommitSearch, UpdateSearchQuery, AdvanceSearch
    <3>8. ~ (Navigate \/ \E n \in Names : Vanish(n) \/ Appear(n))
      BY <2>1 DEF Navigate, Vanish, Appear
    <3> QED
      BY <1>1, <3>1, <3>2, <3>3, <3>4, <3>5, <3>6, <3>7, <3>8 DEF Next
  <2>3. cursor' = Clamped(RestoredRow, rows) /\ preName = origin
    BY <2>0, <2>2 DEF CancelSearch, ModesInv
  <2>4. RestoredRow \in DOMAIN rows /\ rows[RestoredRow] = origin
    BY <2>0, <2>3, RowInIs DEF RestoredRow
  <2>5. RestoredRow \in Nat
    BY <2>0, <2>4 DEF Listing
  <2> QED
    BY <2>0, <2>3, <2>4, <2>5, ClampedIsIn
<1> HIDE DEF Returns
<1>2. EditingInv /\ [Next]_vars => Returns
  BY <1>1
<1>3. Spec => [][Returns]_vars
  BY <1>2, EditingInit, EditingStep, PTL DEF Spec
<1>4. Spec => SearchReturns
  BY <1>3 DEF Returns, SearchReturns
<1>5. EditingInv => (~stale => MatchesAreCurrent)
  BY DEF EditingInv, SearchInv
<1>6. Spec => [](~stale => MatchesAreCurrent)
  BY <1>5, EditingHolds, PTL
<1> QED
  BY <1>4, <1>6 DEF SearchIsTrue

\* REQ-F-021: while the listing stays as it is, Visual mode selects from the entry it
\* began on to the cursor, whatever moves and whichever end does.
THEOREM VisualSpanIsKept == Spec => SpanKept
<1> DEFINE Keeps ==
      mode' = "visual" /\ rows' = rows /\ (mode = "visual" => VisualSpans) => VisualSpans'
<1>1. ASSUME EditingInv, [Next]_vars PROVE Keeps
  <2> SUFFICES ASSUME mode' = "visual", rows' = rows, mode = "visual" => VisualSpans
               PROVE  VisualSpans'
    OBVIOUS
  <2>0. /\ rows \in Listing /\ cursor \in CursorIn(rows) /\ cursor \in Nat
        /\ rows # <<>> => cursor \in DOMAIN rows
        /\ ModesInv /\ DOMAIN rows = 1 .. Len(rows)
    BY <1>1, EditingFacts
  <2>1. ASSUME mode = "visual", UNCHANGED <<anchor, first, current, cursor>> PROVE VisualSpans'
    BY <2>1 DEF VisualSpans, RowIn
  <2>2. CASE UNCHANGED vars
    BY <2>1, <2>2 DEF vars, list, visual
  <2>3. CASE EnterVisual
    <3>1. cursor \in DOMAIN rows /\ RowIn(rows, rows[cursor]) = cursor /\ rows[cursor] \in ToSet(rows)
      BY <2>0, <2>3, RowInIs DEF EnterVisual, ToSet
    <3>2. first' = rows[cursor] /\ anchor' = cursor /\ current' = cursor /\ cursor' = cursor
      BY <2>3, <3>1 DEF EnterVisual, NameAt, list
    <3> QED
      BY <3>1, <3>2 DEF VisualSpans, RowIn
  <2>4. ASSUME NEW r \in DOMAIN rows, Move(r) PROVE VisualSpans'
    <3>1. /\ mode = "visual" /\ current' = cursor' /\ UNCHANGED <<anchor, first>>
      BY <2>4 DEF Move, SetCursorRow, ModeAfter
    <3> QED
      BY <3>1 DEF VisualSpans, RowIn
  <2>5. CASE SwapVisualEnds
    <3>1. /\ mode = "visual" /\ anchor' = current /\ current' = cursor' /\ first' = NameAt(current)
          /\ rows # <<>> /\ current = cursor
      BY <2>5 DEF SwapVisualEnds, SetCursorRow, ModeAfter, VisualSpans
    <3>2. first' = rows[cursor] /\ RowIn(rows, rows[cursor]) = cursor /\ rows[cursor] \in ToSet(rows)
      BY <2>0, <3>1, RowInIs DEF NameAt, ToSet
    <3> QED
      BY <3>1, <3>2 DEF VisualSpans, RowIn
  <2>6. ASSUME NEW now \in SetToAllKPermutations(Names), Rearrange(now) PROVE VisualSpans'
    <3>1. now = rows /\ cursor' = Reconciled(now)
      BY <2>6 DEF Rearrange, ListingChanged
    <3>2. cursor' = cursor
      BY <2>0, <3>1, ReconciledIsIn
    <3>3. mode = "visual" /\ UNCHANGED <<anchor, current, first>>
      BY <2>6 DEF Rearrange, ListingChanged, ModeAfter
    <3> QED
      BY <2>1, <3>2, <3>3
  <2>7. CASE Escape \/ \E cut \in BOOLEAN : YankOrCut(cut)
    BY <2>1, <2>7 DEF Escape, YankOrCut, ExitVisual, list
  <2>8. CASE \/ PasteRegister \/ BeginRename \/ \E below \in BOOLEAN : BeginCreate(below)
             \/ \E t \in Names \cup {None} : UpdateInsertText(t)
             \/ CommitInsert \/ CancelInsertEditing
    BY <2>8 DEF PasteRegister, BeginRename, BeginCreate, UpdateInsertText, CommitInsert,
                CancelInsertEditing, CloseEditor
  <2>9. ASSUME NEW permitted \in BOOLEAN, CommitInsertEditing(permitted) PROVE VisualSpans'
    BY <2>0, <2>9 DEF CommitInsertEditing, CloseEditor, ModesInv
  <2>10. CASE \/ EnterSearch \/ CommitSearch \/ CancelSearch \/ Navigate
              \/ \E q \in Queries \cup {None} : UpdateSearchQuery(q)
              \/ \E forward \in BOOLEAN : AdvanceSearch(forward)
              \/ \E n \in Names : Vanish(n) \/ Appear(n)
    BY <2>10 DEF EnterSearch, CommitSearch, CancelSearch, Navigate, UpdateSearchQuery, AdvanceSearch,
                 Vanish, Appear
  <2> QED
    BY <1>1, <2>2, <2>3, <2>4, <2>5, <2>6, <2>7, <2>8, <2>9, <2>10 DEF Next
<1> HIDE DEF Keeps
<1>2. EditingInv /\ [Next]_vars => Keeps
  BY <1>1
<1>3. Spec => [][Keeps]_vars
  BY <1>2, EditingInit, EditingStep, PTL DEF Spec
<1> QED
  BY <1>3 DEF Keeps, SpanKept
================================================================================
