--------------------------- MODULE NavigationProofs ---------------------------
(***************************************************************************)
(* Proofs about the jump list, the sidebar, and the navigation that uses   *)
(* them, for any directories, names and bookmarks.                         *)
(***************************************************************************)
EXTENDS Navigation, CompactionProofs, WellFoundedInduction

-----------------------------------------------------------------------------
(* The jump list.  Visiting and traversing keep it true because what they  *)
(* drop is never where the user is, and what is left keeps its order.      *)

\* A set of positions that is not empty has a first and a last one.
LEMMA EndsOfPositions ==
  ASSUME NEW n \in Nat, NEW S, S \subseteq 1 .. n, S # {}
  PROVE  /\ \E i \in S : \A j \in S : i <= j
         /\ \E i \in S : \A j \in S : j <= i
<1>1. ASSUME NEW T, T \subseteq Nat, T # {} PROVE \E i \in T : \A j \in T : i <= j
  <2>1. PICK i \in T : \A j \in T : ~ (<<j, i>> \in OpToRel(<, Nat))
    BY <1>1, NatLessThanWellFounded, WFMin, Zenon
  <2>2. \A j \in T : j \in Nat /\ i \in Nat /\ ~ (j < i)
    BY <1>1, <2>1 DEF OpToRel
  <2> QED
    BY <2>2
<1>2. \E i \in S : \A j \in S : i <= j
  <2>1. S \subseteq Nat
    OBVIOUS
  <2> QED
    BY <1>1, <2>1
<1>3. \E i \in S : \A j \in S : j <= i
  <2> DEFINE T == {n - i : i \in S}
  <2>1. T \subseteq Nat /\ T # {}
    <3>1. \A i \in S : i \in 1 .. n /\ n - i \in Nat
      OBVIOUS
    <3>2. PICK i \in S : TRUE
      OBVIOUS
    <3>3. n - i \in T
      OBVIOUS
    <3> QED
      BY <3>1, <3>3
  <2>2. PICK m \in T : \A k \in T : m <= k
    <3> HIDE DEF T
    <3> QED
      BY <1>1, <2>1
  <2>3. PICK i \in S : m = n - i
    OBVIOUS
  <2>4. \A j \in S : n - j \in T /\ m <= n - j
    BY <2>2
  <2> QED
    BY <2>3, <2>4
<1> QED
  BY <1>2, <1>3

\* The entry that is left changes its name, and nothing else does.
LEMMA LeaveKeepsPaths ==
  ASSUME JumpListTypeOK, NEW name \in Names \cup {NoName}
  PROVE  /\ Leave(name) \in Seq(Entry) /\ Len(Leave(name)) = Len(entries)
         /\ DOMAIN Leave(name) = DOMAIN entries /\ DOMAIN entries = 1 .. Len(entries)
         /\ \A i \in DOMAIN entries :
              /\ Leave(name)[i].path = entries[i].path
              /\ Leave(name)[i].name = IF i = index THEN name ELSE entries[i].name
<1>1. entries \in Seq(Entry) /\ Len(entries) \in Nat /\ DOMAIN entries = 1 .. Len(entries)
  BY DEF JumpListTypeOK
<1>2. \A i \in DOMAIN entries :
        LET e == Leave(name)[i] IN
        /\ e \in Entry /\ e.path = entries[i].path
        /\ e.name = IF i = index THEN name ELSE entries[i].name
  <2> TAKE i \in DOMAIN entries
  <2>1. entries[i] \in Entry
    BY <1>1
  <2> DEFINE d == [entries[i] EXCEPT !.name = name]
  <2>2. d \in Entry /\ d.path = entries[i].path /\ d.name = name
    BY <2>1 DEF Entry
  <2>3. Leave(name)[i] = IF i = index THEN d ELSE entries[i]
    BY DEF Leave
  <2> HIDE DEF d
  <2> QED
    BY <2>1, <2>2, <2>3
<1>3. Leave(name) = [i \in 1 .. Len(entries) |-> Leave(name)[i]]
  BY <1>1 DEF Leave
<1>4. Leave(name) \in Seq(Entry) /\ Len(Leave(name)) = Len(entries)
  <2> DEFINE list == Leave(name)
  <2> HIDE DEF list
  <2>1. \A i \in 1 .. Len(entries) : list[i] \in Entry
    BY <1>1, <1>2 DEF list
  <2>2. list = [i \in 1 .. Len(entries) |-> list[i]]
    BY <1>3 DEF list
  <2>3. list \in [1 .. Len(entries) -> Entry]
    BY <2>1, <2>2
  <2>4. list \in Seq(Entry)
    BY <1>1, <2>3
  <2>5. DOMAIN list = 1 .. Len(entries) /\ DOMAIN list = 1 .. Len(list) /\ Len(list) \in Nat
    BY <2>3, <2>4
  <2> QED
    BY <1>1, <2>4, <2>5 DEF list
<1> QED
  BY <1>1, <1>2, <1>4, <1>3

\* What is left of a list is no longer than it.
LEMMA WithoutIsNoLonger ==
  ASSUME NEW S, NEW list \in Seq(S), NEW D \in SUBSET DOMAIN list
  PROVE  Len(Without(list, D)) <= Len(list)
<1>1. Len(list) \in Nat /\ D \in SUBSET (1 .. Len(list))
  OBVIOUS
<1>2. Cardinality(D) \in 0 .. Len(list)
  BY <1>1, PositionIsBijective
<1>3. DOMAIN Without(list, D) = 1 .. Len(list) - Cardinality(D)
  BY DEF Without
<1>4. Without(list, D) \in Seq(S)
  BY WithoutIsCompact
<1> DEFINE w == Without(list, D)
<1> HIDE DEF w
<1>5. w \in Seq(S) /\ DOMAIN w = 1 .. Len(list) - Cardinality(D)
  BY <1>3, <1>4 DEF w
<1>6. Len(w) = Len(list) - Cardinality(D)
  BY <1>1, <1>2, <1>5
<1> QED
  BY <1>1, <1>2, <1>6 DEF w

\* A directory that is visited is at the end, and nowhere else.
LEMMA VisitKeepsTrue ==
  ASSUME EntriesAreTrue, NEW path \in Paths, NEW name \in Names \cup {NoName},
         Visit(path, name)
  PROVE  EntriesAreTrue'
<1>1. CASE IsCurrent(path)
  BY <1>1 DEF IsCurrent, Visit, EntriesAreTrue, JumpListTypeOK, NoPathTwice, CurrentIsHere, NamesAreKept
<1>2. CASE ~IsCurrent(path)
  <2> DEFINE list == Leave(name)
             D == {i \in DOMAIN entries : entries[i].path = path}
             kept == Without(list, D)
             last == [path |-> path, name |-> NoName]
             all == Append(kept, last)
  <2>1. /\ list \in Seq(Entry) /\ Len(list) = Len(entries) /\ DOMAIN list = DOMAIN entries
        /\ DOMAIN entries = 1 .. Len(entries) /\ Len(entries) \in Nat
        /\ \A i \in DOMAIN entries :
             /\ list[i].path = entries[i].path
             /\ list[i].name = IF i = index THEN name ELSE entries[i].name
    BY LeaveKeepsPaths DEF EntriesAreTrue, JumpListTypeOK
  <2> HIDE DEF list
  <2>2. D \in SUBSET DOMAIN list
    BY <2>1
  <2> HIDE DEF D
  <2>3. /\ kept \in Seq(Entry)
        /\ \A k \in DOMAIN kept : \E i \in DOMAIN list \ D : k = Position(i, D) /\ kept[k] = list[i]
    <3>1. list \in Seq(Entry)
      BY <2>1
    <3>2. /\ Without(list, D) \in Seq(Entry)
          /\ \A k \in DOMAIN Without(list, D) :
               \E i \in DOMAIN list \ D : k = Position(i, D) /\ Without(list, D)[k] = list[i]
      BY <2>2, <3>1, WithoutIsCompact
    <3> QED
      BY <3>2
  <2>4. Len(kept) <= Len(list)
    BY <2>1, <2>2, WithoutIsNoLonger
  <2> HIDE DEF kept
  <2>5. /\ Visited(path, name) = Evict(all) /\ entries' = Visited(path, name)
        /\ index' = Len(Visited(path, name)) /\ here' = path
        /\ remembered' = [Remember(name) EXCEPT ![path] = NoName]
    BY <1>2 DEF Visit, Visited, list, D, kept
  \* What is kept of the others.
  <2>6. ASSUME NEW k \in DOMAIN kept
        PROVE  kept[k].path # path /\ kept[k].name = remembered'[kept[k].path]
    <3>1. PICK i \in DOMAIN list \ D : kept[k] = list[i]
      BY <2>3
    <3>2. /\ i \in DOMAIN entries /\ kept[k].path = entries[i].path /\ entries[i].path # path
          /\ kept[k].name = IF i = index THEN name ELSE entries[i].name
      BY <2>1, <3>1 DEF D
    <3>3. entries[i].path \in Paths /\ remembered \in [Paths -> Names \cup {NoName}]
      <4>1. entries \in Seq(Entry) /\ remembered \in [Paths -> Names \cup {NoName}]
        BY DEF EntriesAreTrue, JumpListTypeOK
      <4>2. entries[i] \in Entry
        BY <3>2, <4>1
      <4> QED
        BY <4>1, <4>2 DEF Entry
    <3>4. remembered'[entries[i].path] = Remember(name)[entries[i].path]
      <4>1. Remember(name) \in [Paths -> Names \cup {NoName}]
        BY <3>3 DEF Remember
      <4> QED
        BY <2>5, <3>2, <3>3, <4>1
    <3>5. index # 0 /\ index \in DOMAIN entries /\ entries[index].path = here
      BY <3>2 DEF EntriesAreTrue, JumpListTypeOK, CurrentIsHere
    <3>6. Remember(name)[entries[i].path] = IF i = index THEN name ELSE entries[i].name
      BY <3>2, <3>3, <3>5 DEF Remember, EntriesAreTrue, NoPathTwice, NamesAreKept
    <3> QED
      BY <3>2, <3>4, <3>6
  <2>7. ASSUME NEW k \in DOMAIN kept, NEW l \in DOMAIN kept, kept[k].path = kept[l].path PROVE k = l
    <3>1. PICK i \in DOMAIN list \ D : k = Position(i, D) /\ kept[k] = list[i]
      BY <2>3
    <3>2. PICK j \in DOMAIN list \ D : l = Position(j, D) /\ kept[l] = list[j]
      BY <2>3
    <3>3. i = j
      BY <2>1, <2>7, <3>1, <3>2 DEF EntriesAreTrue, NoPathTwice
    <3> QED
      BY <3>1, <3>2, <3>3
  <2>8. last \in Entry /\ last.path = path /\ last.name = NoName
    BY DEF Entry
  <2> HIDE DEF last
  <2>9. /\ all \in Seq(Entry) /\ Len(all) = Len(kept) + 1 /\ Len(kept) \in Nat /\ Len(all) <= Capacity + 1
        /\ all[Len(all)] = last /\ DOMAIN kept = 1 .. Len(kept)
        /\ \A k \in 1 .. Len(kept) : all[k] = kept[k]
    BY <2>1, <2>3, <2>4, <2>8, JumpListAssumption DEF EntriesAreTrue, JumpListTypeOK
  <2>10. /\ \A k \in 1 .. Len(all) :
              all[k].name = remembered'[all[k].path] /\ (all[k].path = path => k = Len(all))
         /\ \A k, l \in 1 .. Len(all) : all[k].path = all[l].path => k = l
    <3>1. remembered'[path] = NoName
      <4>1. Remember(name) \in [Paths -> Names \cup {NoName}]
        BY DEF Remember, EntriesAreTrue, JumpListTypeOK
      <4> QED
        BY <2>5, <4>1
    <3>2. \A k \in 1 .. Len(all) : k \in DOMAIN kept \/ k = Len(all)
      BY <2>9
    <3> QED
      BY <2>6, <2>7, <2>8, <2>9, <3>1, <3>2
  <2> HIDE DEF all
  \* The oldest may go.
  <2>11. PICK o \in {0, 1} :
           /\ entries' \in Seq(Entry) /\ Len(entries') = Len(all) - o
           /\ Len(entries') \in 1 .. Capacity
           /\ \A k \in 1 .. Len(entries') : entries'[k] = all[k + o]
    <3>1. CASE Len(all) > Capacity
      <4>1. entries' = Tail(all) /\ all # <<>>
        BY <2>5, <2>9, <3>1 DEF Evict
      <4>2. /\ entries' \in Seq(Entry) /\ Len(entries') = Len(all) - 1
            /\ \A k \in 1 .. Len(entries') : entries'[k] = all[k + 1]
        BY <2>9, <4>1
      <4>3. Len(entries') \in 1 .. Capacity
        BY <2>9, <3>1, <4>2, JumpListAssumption
      <4> QED
        BY <4>2, <4>3
    <3>2. CASE ~(Len(all) > Capacity)
      BY <2>5, <2>9, <3>2, JumpListAssumption DEF Evict
    <3> QED
      BY <3>1, <3>2
  <2>12. DOMAIN entries' = 1 .. Len(entries') /\ index' = Len(entries') /\ Len(entries') \in Nat
         /\ index' + o = Len(all) /\ \A k \in 1 .. Len(entries') : k + o \in 1 .. Len(all)
    BY <2>5, <2>9, <2>11, JumpListAssumption
  <2>13. JumpListTypeOK'
    <3>1. remembered' \in [Paths -> Names \cup {NoName}]
      BY <2>5 DEF Remember, EntriesAreTrue, JumpListTypeOK
    <3> QED
      BY <2>5, <2>11, <2>12, <3>1, JumpListAssumption DEF JumpListTypeOK, Entry
  <2>14. NoPathTwice'
    <3> SUFFICES ASSUME NEW k \in DOMAIN entries', NEW l \in DOMAIN entries', entries'[k].path = entries'[l].path
                 PROVE  k = l
      BY DEF NoPathTwice
    <3>1. k + o \in 1 .. Len(all) /\ l + o \in 1 .. Len(all) /\ entries'[k] = all[k + o] /\ entries'[l] = all[l + o]
      BY <2>11, <2>12
    <3>2. k + o = l + o
      BY <2>10, <3>1
    <3> QED
      BY <2>12, <3>2
  <2>15. CurrentIsHere'
    BY <2>5, <2>8, <2>9, <2>11, <2>12 DEF CurrentIsHere
  <2>16. NamesAreKept'
    <3> SUFFICES ASSUME NEW k \in DOMAIN entries' PROVE entries'[k].name = remembered'[entries'[k].path]
      BY DEF NamesAreKept
    <3>1. k + o \in 1 .. Len(all) /\ entries'[k] = all[k + o]
      BY <2>11, <2>12
    <3> QED
      BY <2>10, <3>1
  <2> QED
    BY <2>13, <2>14, <2>15, <2>16 DEF EntriesAreTrue
<1> QED
  BY <1>1, <1>2

\* Of the entries looked at, the furthest that is there is where the user comes to;
\* it is not among those dropped.
LEMMA LandingStays ==
  ASSUME JumpListTypeOK, index # 0, NEW direction \in {-1, 1}, NEW count, NEW missing,
         entries[index].path = here
  PROVE  /\ Dropped(direction, count, missing) \in SUBSET DOMAIN entries
         /\ Landing(direction, count, missing) \in DOMAIN entries \ Dropped(direction, count, missing)
         /\ Reached(direction, count, missing) = {} => Landing(direction, count, missing) = index
         /\ Reached(direction, count, missing) # {} =>
              LET landing == Landing(direction, count, missing) IN
              /\ landing \in Reached(direction, count, missing)
              /\ Reached(direction, count, missing) \ {landing} \subseteq Nearer(direction, landing)
<1> DEFINE reached == Reached(direction, count, missing)
           ahead == Ahead(direction)
<1>1. DOMAIN entries = 1 .. Len(entries) /\ Len(entries) \in Nat /\ index \in DOMAIN entries
  BY DEF JumpListTypeOK
<1>2. ahead \subseteq 1 .. Len(entries) /\ index \notin ahead
  BY <1>1 DEF Ahead
<1>3. /\ reached \subseteq ahead /\ Dropped(direction, count, missing) \subseteq ahead
      /\ reached \cap Dropped(direction, count, missing) = {}
  BY DEF Reached, Dropped, Examined
<1>4. CASE reached = {}
  BY <1>1, <1>2, <1>3, <1>4 DEF Landing
<1>5. CASE reached # {}
  <2>1. \A i \in ahead : Nearer(direction, i) = {j \in ahead : direction * (i - j) > 0}
    BY DEF Nearer
  <2> HIDE DEF reached, ahead
  <2>2. reached \subseteq 1 .. Len(entries) /\ reached \subseteq Int
    BY <1>2, <1>3
  <2>3. /\ \E i \in reached : \A j \in reached : i <= j
        /\ \E i \in reached : \A j \in reached : j <= i
    BY <1>1, <1>5, <2>2, EndsOfPositions
  <2>4. \E i \in reached : \A j \in reached : j = i \/ direction * (i - j) > 0
    <3>1. CASE direction = 1
      <4>1. PICK i \in reached : \A j \in reached : j <= i
        BY <2>3
      <4> QED
        BY <2>2, <3>1, <4>1
    <3>2. CASE direction = -1
      <4>1. PICK i \in reached : \A j \in reached : i <= j
        BY <2>3
      <4> QED
        BY <2>2, <3>2, <4>1
    <3> QED
      BY <3>1, <3>2
  <2>5. \E i \in reached : reached \ {i} \subseteq Nearer(direction, i)
    BY <1>3, <2>1, <2>4
  <2>6. /\ Landing(direction, count, missing) \in reached
        /\ reached \ {Landing(direction, count, missing)} \subseteq Nearer(direction, Landing(direction, count, missing))
    <3> DEFINE Furthest(i) == reached \ {i} \subseteq Nearer(direction, i)
    <3>1. Landing(direction, count, missing) = CHOOSE i \in reached : Furthest(i)
      BY <1>5 DEF Landing, reached
    <3>2. \E i \in reached : Furthest(i)
      BY <2>5
    <3> HIDE DEF Furthest
    <3>3. Landing(direction, count, missing) \in reached /\ Furthest(Landing(direction, count, missing))
      BY <3>1, <3>2
    <3> QED
      BY <3>3 DEF Furthest
  <2> QED
    BY <1>1, <1>2, <1>3, <1>5, <2>6 DEF reached
<1> QED
  BY <1>4, <1>5

\* What a traversal drops is not where the user comes to, and the rest keeps its order.
LEMMA TraverseKeepsTrue ==
  ASSUME EntriesAreTrue, NEW direction \in {-1, 1}, NEW count, NEW missing,
         NEW name \in Names \cup {NoName}, Traverse(direction, count, name, missing)
  PROVE  EntriesAreTrue'
<1> DEFINE list == Leave(name)
           D == Dropped(direction, count, missing)
           landing == Landing(direction, count, missing)
           kept == Without(list, D)
<1>1. /\ list \in Seq(Entry) /\ Len(list) = Len(entries) /\ DOMAIN list = DOMAIN entries
      /\ DOMAIN entries = 1 .. Len(entries) /\ Len(entries) \in Nat
      /\ \A i \in DOMAIN entries :
           /\ list[i].path = entries[i].path
           /\ list[i].name = IF i = index THEN name ELSE entries[i].name
  BY LeaveKeepsPaths DEF EntriesAreTrue, JumpListTypeOK
<1>2. index # 0 /\ index \in DOMAIN entries /\ entries[index].path = here
  BY DEF Traverse, EntriesAreTrue, CurrentIsHere
<1>3. D \in SUBSET DOMAIN list /\ landing \in DOMAIN list \ D
  <2>1. JumpListTypeOK
    BY DEF EntriesAreTrue
  <2> QED
    BY <1>1, <1>2, <2>1, LandingStays
<1>4. /\ entries' = kept /\ index' = Position(landing, D) /\ here' = entries[landing].path
      /\ remembered' = Remember(name)
  BY DEF Traverse, Shifted
<1> HIDE DEF list, D, landing
<1>5. /\ kept \in Seq(Entry)
      /\ \A i \in DOMAIN list \ D : Position(i, D) \in DOMAIN kept /\ kept[Position(i, D)] = list[i]
      /\ \A k \in DOMAIN kept : \E i \in DOMAIN list \ D : k = Position(i, D) /\ kept[k] = list[i]
  <2>1. list \in Seq(Entry) /\ D \in SUBSET DOMAIN list
    BY <1>1, <1>3
  <2>2. /\ Without(list, D) \in Seq(Entry)
        /\ \A i \in DOMAIN list \ D :
             /\ Position(i, D) \in DOMAIN Without(list, D)
             /\ Without(list, D)[Position(i, D)] = list[i]
        /\ \A k \in DOMAIN Without(list, D) :
             \E i \in DOMAIN list \ D : k = Position(i, D) /\ Without(list, D)[k] = list[i]
    BY <2>1, WithoutIsCompact
  <2> QED
    BY <2>2
<1>6. Len(kept) <= Len(list)
  BY <1>1, <1>3, WithoutIsNoLonger
<1> HIDE DEF kept
<1>7. /\ DOMAIN kept = 1 .. Len(kept) /\ Len(kept) \in Nat /\ index' \in DOMAIN kept
      /\ kept[index'] = list[landing]
  BY <1>3, <1>4, <1>5
<1>8. remembered' \in [Paths -> Names \cup {NoName}]
  BY <1>4 DEF Remember, EntriesAreTrue, JumpListTypeOK
<1>9. entries[landing].path \in Paths
  <2>1. entries \in Seq(Entry) /\ landing \in DOMAIN entries
    BY <1>1, <1>3 DEF EntriesAreTrue, JumpListTypeOK
  <2>2. entries[landing] \in Entry
    BY <2>1
  <2> QED
    BY <2>2 DEF Entry
<1>10. JumpListTypeOK'
  <2>1. Len(entries) <= Capacity
    BY DEF EntriesAreTrue, JumpListTypeOK
  <2>2. Capacity \in Nat
    BY JumpListAssumption
  <2>3. Len(kept) <= Capacity
    BY <1>1, <1>6, <1>7, <2>1, <2>2
  <2>4. index' # 0
    BY <1>7
  <2> QED
    BY <1>4, <1>5, <1>7, <1>8, <1>9, <2>3, <2>4 DEF JumpListTypeOK
<1>11. NoPathTwice'
  <2> SUFFICES ASSUME NEW k \in DOMAIN kept, NEW l \in DOMAIN kept, kept[k].path = kept[l].path PROVE k = l
    BY <1>4 DEF NoPathTwice
  <2>1. PICK i \in DOMAIN list \ D : k = Position(i, D) /\ kept[k] = list[i]
    BY <1>5
  <2>2. PICK j \in DOMAIN list \ D : l = Position(j, D) /\ kept[l] = list[j]
    BY <1>5
  <2>3. i = j
    BY <1>1, <2>1, <2>2 DEF EntriesAreTrue, NoPathTwice
  <2> QED
    BY <2>1, <2>2, <2>3
<1>12. CurrentIsHere'
  BY <1>1, <1>3, <1>4, <1>7 DEF CurrentIsHere
<1>13. NamesAreKept'
  <2> SUFFICES ASSUME NEW k \in DOMAIN kept PROVE kept[k].name = remembered'[kept[k].path]
    BY <1>4 DEF NamesAreKept
  <2>1. PICK i \in DOMAIN list \ D : kept[k] = list[i]
    BY <1>5
  <2>2. /\ i \in DOMAIN entries /\ kept[k].path = entries[i].path
        /\ kept[k].name = IF i = index THEN name ELSE entries[i].name
    BY <1>1, <2>1
  <2>3. entries[i].path \in Paths /\ remembered \in [Paths -> Names \cup {NoName}]
    <3>1. entries \in Seq(Entry) /\ remembered \in [Paths -> Names \cup {NoName}]
      BY DEF EntriesAreTrue, JumpListTypeOK
    <3>2. entries[i] \in Entry
      BY <2>2, <3>1
    <3> QED
      BY <3>1, <3>2 DEF Entry
  <2>4. Remember(name)[entries[i].path] = IF i = index THEN name ELSE entries[i].name
    BY <1>2, <2>2, <2>3 DEF Remember, EntriesAreTrue, NoPathTwice, NamesAreKept
  <2> QED
    BY <1>4, <2>2, <2>4
<1> QED
  BY <1>10, <1>11, <1>12, <1>13 DEF EntriesAreTrue

\* The jump list tells where the user has been and is: REQ-F-001, REQ-F-003,
\* REQ-F-005 and REQ-F-038, for a list of any capacity and whatever has gone.
THEOREM JumpListIsTrue == JumpListSpec => []EntriesAreTrue
<1>1. JumpListInit => EntriesAreTrue
  BY JumpListAssumption DEF JumpListInit, EntriesAreTrue, JumpListTypeOK, NoPathTwice, CurrentIsHere, NamesAreKept, Entry
<1>2. EntriesAreTrue /\ [JumpListNext]_jumps => EntriesAreTrue'
  <2> SUFFICES ASSUME EntriesAreTrue, [JumpListNext]_jumps PROVE EntriesAreTrue'
    OBVIOUS
  <2>1. CASE UNCHANGED jumps
    BY <2>1 DEF jumps, EntriesAreTrue, JumpListTypeOK, NoPathTwice, CurrentIsHere, NamesAreKept
  <2>2. CASE JumpListNext
    BY <2>2, VisitKeepsTrue, TraverseKeepsTrue DEF JumpListNext
  <2> QED
    BY <2>1, <2>2
<1> QED
  BY <1>1, <1>2, PTL DEF JumpListSpec

-----------------------------------------------------------------------------
(* The list does what JumpHistory promises.  Positions are told by what is *)
(* before and after them: of the entries looked at, a run next to the one  *)
(* the user is on, those that have gone are left out.                      *)

\* The directories of a list, without their names.
LEMMA PathsOfSeq ==
  ASSUME NEW list \in Seq(Entry)
  PROVE  /\ PathsOf(list) \in Seq(Paths) /\ Len(PathsOf(list)) = Len(list)
         /\ DOMAIN PathsOf(list) = 1 .. Len(list) /\ DOMAIN list = 1 .. Len(list) /\ Len(list) \in Nat
         /\ \A i \in 1 .. Len(list) : PathsOf(list)[i] = list[i].path /\ list[i].path \in Paths
<1>1. DOMAIN list = 1 .. Len(list) /\ Len(list) \in Nat /\ \A i \in 1 .. Len(list) : list[i] \in Entry
  OBVIOUS
<1>2. \A i \in 1 .. Len(list) : list[i].path \in Paths
  BY <1>1 DEF Entry
<1>3. PathsOf(list) = [i \in 1 .. Len(list) |-> list[i].path]
  BY <1>1 DEF PathsOf
<1> DEFINE p == PathsOf(list)
<1> HIDE DEF p
<1>4. p = [i \in 1 .. Len(list) |-> list[i].path]
  BY <1>3 DEF p
<1>5. p \in [1 .. Len(list) -> Paths]
  BY <1>2, <1>4
<1>6. p \in Seq(Paths)
  BY <1>1, <1>5
<1>7. Len(p) = Len(list)
  BY <1>1, <1>5, <1>6
<1> QED
  BY <1>1, <1>2, <1>4, <1>6, <1>7 DEF p

\* What is dropped from a list is dropped from its directories.
LEMMA PathsOfWithout ==
  ASSUME NEW list \in Seq(Entry), NEW D \in SUBSET DOMAIN list
  PROVE  PathsOf(Without(list, D)) = Without(PathsOf(list), D)
<1> DEFINE kept == Without(list, D)
           q == PathsOf(kept)
           p == PathsOf(list)
<1>1. kept \in Seq(Entry)
  BY WithoutIsCompact
<1>2. \A i \in DOMAIN list \ D : Position(i, D) \in DOMAIN kept /\ kept[Position(i, D)] = list[i]
  BY WithoutIsCompact
<1>3. Len(kept) = Len(list) - Cardinality(D)
  BY LengthWithout
<1> HIDE DEF kept
<1>4. /\ q \in Seq(Paths) /\ Len(q) = Len(kept) /\ DOMAIN kept = 1 .. Len(kept)
      /\ \A i \in 1 .. Len(kept) : q[i] = kept[i].path
  BY <1>1, PathsOfSeq
<1>5. /\ p \in Seq(Paths) /\ Len(p) = Len(list) /\ DOMAIN p = DOMAIN list
      /\ \A i \in DOMAIN list : p[i] = list[i].path
  BY PathsOfSeq
<1> HIDE DEF p, q
<1>6. \A i \in DOMAIN p \ D : q[Position(i, D)] = p[i]
  BY <1>2, <1>4, <1>5
<1>7. D \in SUBSET DOMAIN p /\ Len(q) = Len(p) - Cardinality(D)
  BY <1>3, <1>4, <1>5
<1>8. q = Without(p, D)
  BY <1>4, <1>5, <1>6, <1>7, WithoutIsUnique
<1> QED
  BY <1>8 DEF kept, p, q

\* The name of the entry that is left is none of the history's business.
LEMMA PathsOfLeave ==
  ASSUME JumpListTypeOK, NEW name \in Names \cup {NoName}
  PROVE  PathsOf(Leave(name)) = PathsOf(entries)
<1>1. /\ Leave(name) \in Seq(Entry) /\ DOMAIN Leave(name) = DOMAIN entries
      /\ \A i \in DOMAIN entries : Leave(name)[i].path = entries[i].path
  BY LeaveKeepsPaths
<1> QED
  BY <1>1 DEF PathsOf

\* Before the first visit there is no directory on screen.
NothingBeforeVisit == index = 0 => here = NoPath

\* The list around the user is the list.
LEMMA AroundTheUser ==
  ASSUME EntriesAreTrue, NothingBeforeVisit
  PROVE  LET paths == PathsOf(entries) IN
         /\ SubSeq(paths, 1, index - 1) \o History!Current \o SubSeq(paths, index + 1, Len(entries)) = paths
         /\ SubSeq(paths, 1, index - 1) \in Seq(Paths) /\ SubSeq(paths, index + 1, Len(entries)) \in Seq(Paths)
         /\ History!Current \in Seq(Paths)
<1> DEFINE paths == PathsOf(entries)
           n == Len(entries)
<1>1. /\ paths \in Seq(Paths) /\ Len(paths) = n /\ n \in Nat
      /\ \A i \in 1 .. n : paths[i] \in Paths
  <2>1. entries \in Seq(Entry)
    BY DEF EntriesAreTrue, JumpListTypeOK
  <2> QED
    BY <2>1, PathsOfSeq
<1>2. index \in 0 .. n /\ (index = 0 => n = 0) /\ (index # 0 => here = paths[index])
  <2>1. entries \in Seq(Entry) /\ DOMAIN entries = 1 .. n /\ index \in DOMAIN entries \cup {0} /\ (index = 0 => entries = <<>>)
    BY DEF EntriesAreTrue, JumpListTypeOK
  <2>2. index # 0 => here = paths[index]
    BY <2>1, PathsOfSeq DEF EntriesAreTrue, CurrentIsHere
  <2> QED
    BY <1>1, <2>1, <2>2
<1> HIDE DEF paths, n
<1> DEFINE Around ==
             /\ SubSeq(paths, 1, index - 1) \o History!Current \o SubSeq(paths, index + 1, n) = paths
             /\ SubSeq(paths, 1, index - 1) \in Seq(Paths) /\ SubSeq(paths, index + 1, n) \in Seq(Paths)
             /\ History!Current \in Seq(Paths)
<1>3. ASSUME index = 0 PROVE Around
  <2>1. paths = <<>> /\ n = 0
    BY <1>1, <1>2, <1>3
  <2>2. SubSeq(paths, 1, index - 1) = <<>> /\ SubSeq(paths, index + 1, n) = <<>>
    BY <1>3, <2>1, SubSeqEmpty
  <2>3. History!Current = <<>>
    BY <1>3 DEF History!Current, NothingBeforeVisit
  <2> QED
    BY <2>1, <2>2, <2>3, EmptySeq, ConcatEmptySeq
<1>4. ASSUME index # 0 PROVE Around
  <2>1. index \in 1 .. n /\ index \in 1 .. Len(paths) /\ 1 \in 1 .. Len(paths) /\ paths[index] \in Paths
    BY <1>1, <1>2, <1>4
  <2>2. History!Current = <<paths[index]>>
    BY <1>2, <1>4, <2>1, JumpListAssumption DEF History!Current
  <2>3. SubSeq(paths, 1, index) = SubSeq(paths, 1, index - 1) \o <<paths[index]>>
    BY <1>1, <2>1, SubSeqRecursiveSecond
  <2>4. SubSeq(paths, 1, index) \o SubSeq(paths, index + 1, Len(paths)) = SubSeq(paths, 1, Len(paths))
    BY <1>1, <2>1, ConcatAdjacentSubSeq
  <2>5. SubSeq(paths, 1, Len(paths)) = paths
    BY <1>1, SubSeqFull
  <2>6. SubSeq(paths, 1, index - 1) \in Seq(Paths)
    <3>1. \A i \in 1 .. index - 1 : paths[i] \in Paths
      BY <1>1, <2>1
    <3> QED
      BY <2>1, <3>1, SubSeqProperties
  <2>7. SubSeq(paths, index + 1, n) \in Seq(Paths)
    <3>1. \A i \in index + 1 .. n : paths[i] \in Paths
      BY <1>1, <2>1
    <3> QED
      BY <1>1, <2>1, <3>1, SubSeqProperties
  <2> QED
    BY <1>1, <2>1, <2>2, <2>3, <2>4, <2>5, <2>6, <2>7
<1>5. Around
  BY <1>3, <1>4
<1> QED
  BY <1>5 DEF paths, n

\* What an operator of the history leaves out is what Compaction does.
LEMMA OnlyIsWithout ==
  ASSUME NEW list, NEW kept
  PROVE  History!Only(list, kept) = Without(list, {i \in DOMAIN list : list[i] \notin kept})
BY DEF History!Only, History!Without, History!Position, History!Cardinality, Without, Position, Cardinality

\* The list with its oldest entry gone, or not.
LEMMA EvictLeavesTheNewest ==
  ASSUME NEW list \in Seq(Entry), Len(list) <= Capacity, NEW last \in Entry
  PROVE  LET all == Evict(Append(list, last)) IN
         /\ Len(all) >= 1 /\ all \in Seq(Entry)
         /\ SubSeq(PathsOf(all), 1, Len(all) - 1) = History!Newest(PathsOf(list), Capacity - 1)
         /\ SubSeq(PathsOf(all), Len(all) + 1, Len(all)) = <<>>
<1> DEFINE long == Append(list, last)
           all == Evict(long)
           n == Len(list)
           p == PathsOf(list)
           q == PathsOf(all)
<1>1. /\ long \in Seq(Entry) /\ Len(long) = n + 1 /\ n \in Nat /\ DOMAIN list = 1 .. n
      /\ \A i \in 1 .. n : long[i] = list[i]
  BY AppendProperties
<1>2. n <= Capacity
  OBVIOUS
<1> HIDE DEF n
<1>3. Capacity \in Nat /\ Capacity >= 1
  BY JumpListAssumption
<1> HIDE DEF long
<1>4. PICK o \in {0, 1} :
        /\ all \in Seq(Entry) /\ Len(all) = n + 1 - o /\ \A i \in 1 .. Len(all) : all[i] = long[i + o]
        /\ (o = 1 => n >= Capacity) /\ (o = 0 => n < Capacity)
  <2>1. CASE n + 1 > Capacity
    <3>1. all = Tail(long) /\ long # <<>>
      BY <1>1, <2>1 DEF Evict
    <3>2. all \in Seq(Entry) /\ Len(all) = n /\ \A i \in 1 .. n : all[i] = long[i + 1]
      <4> HIDE DEF all
      <4> QED
        BY <1>1, <3>1, HeadTailProperties
    <3> HIDE DEF all
    <3>3. Len(all) = n + 1 - 1 /\ n >= Capacity
      BY <1>1, <1>3, <2>1, <3>2
    <3> QED
      BY <3>2, <3>3
  <2>2. CASE ~(n + 1 > Capacity)
    <3>1. all = long
      BY <1>1, <2>2 DEF Evict
    <3> HIDE DEF all
    <3> QED
      BY <1>1, <1>3, <2>2, <3>1
  <2> QED
    BY <2>1, <2>2
<1> HIDE DEF all
<1>5. /\ p \in Seq(Paths) /\ Len(p) = n /\ \A i \in 1 .. n : p[i] = list[i].path /\ p[i] \in Paths
  BY PathsOfSeq DEF n
<1>6. /\ q \in Seq(Paths) /\ Len(q) = Len(all) /\ \A i \in 1 .. Len(all) : q[i] = all[i].path /\ q[i] \in Paths
  BY <1>4, PathsOfSeq
<1> HIDE DEF p, q
<1>7. Len(all) >= 1 /\ Len(all) - 1 = n - o /\ Len(all) \in Nat /\ n - o \in Nat
  BY <1>1, <1>3, <1>4
<1>8. \A i \in 1 .. n - o : q[i] = p[i + o]
  <2> TAKE i \in 1 .. n - o
  <2>1. i \in 1 .. Len(all) /\ i + o \in 1 .. n
    BY <1>1, <1>4, <1>7
  <2>2. q[i] = all[i].path /\ all[i] = long[i + o]
    BY <1>4, <1>6, <2>1
  <2>3. p[i + o] = list[i + o].path /\ long[i + o] = list[i + o]
    BY <1>1, <1>5, <2>1
  <2> QED
    BY <2>2, <2>3
<1> DEFINE s == SubSeq(q, 1, n - o)
           t == SubSeq(p, 1 + o, n)
<1>9. s \in Seq(Paths) /\ Len(s) = n - o /\ \A i \in 1 .. n - o : s[i] = q[i]
  <2>1. \A i \in 1 .. n - o : q[i] \in Paths
    BY <1>4, <1>6, <1>7
  <2>2. /\ s \in Seq(Paths) /\ Len(s) = IF 1 <= n - o THEN n - o - 1 + 1 ELSE 0
        /\ \A i \in 1 .. n - o - 1 + 1 : s[i] = q[1 + i - 1]
    BY <1>7, <2>1, SubSeqProperties
  <2> HIDE DEF s
  <2> QED
    BY <1>7, <2>2
<1>10. t \in Seq(Paths) /\ Len(t) = n - o /\ \A i \in 1 .. n - o : t[i] = p[i + o]
  <2>1. \A i \in 1 + o .. n : p[i] \in Paths
    BY <1>1, <1>5
  <2>2. /\ t \in Seq(Paths) /\ Len(t) = IF 1 + o <= n THEN n - (1 + o) + 1 ELSE 0
        /\ \A i \in 1 .. n - (1 + o) + 1 : t[i] = p[(1 + o) + i - 1]
    BY <1>1, <2>1, SubSeqProperties
  <2> HIDE DEF t
  <2>3. n - (1 + o) + 1 = n - o /\ Len(t) = n - o
    BY <1>1, <1>7, <2>2
  <2>4. \A i \in 1 .. n - o : (1 + o) + i - 1 = i + o
    BY <1>1, <1>7
  <2> QED
    BY <2>2, <2>3, <2>4
<1> HIDE DEF s, t
<1>11. s = t
  BY <1>7, <1>8, <1>9, <1>10, SeqEqual
<1>12. t = History!Newest(p, Capacity - 1)
  <2>1. CASE o = 1
    <3>1. n = Capacity /\ Len(p) > Capacity - 1 /\ Len(p) - (Capacity - 1) + 1 = 1 + o
      BY <1>1, <1>2, <1>3, <1>4, <1>5, <2>1
    <3> QED
      BY <1>5, <3>1 DEF History!Newest, t
  <2>2. CASE o = 0
    <3>1. ~(Len(p) > Capacity - 1)
      BY <1>1, <1>3, <1>4, <1>5, <2>2
    <3>2. t = p
      BY <1>5, <2>2, SubSeqFull DEF t
    <3> QED
      BY <3>1, <3>2 DEF History!Newest
  <2> QED
    BY <2>1, <2>2
<1>13. SubSeq(q, Len(all) + 1, Len(all)) = <<>>
  BY <1>7, SubSeqEmpty
<1>14. SubSeq(q, 1, Len(all) - 1) = History!Newest(p, Capacity - 1)
  BY <1>7, <1>11, <1>12 DEF s
<1> QED
  BY <1>4, <1>7, <1>13, <1>14 DEF all, long, p, q, n

\* A visit, as the history sees it.
LEMMA VisitIsAVisit ==
  ASSUME EntriesAreTrue, NothingBeforeVisit, NEW path \in Paths,
         NEW name \in Names \cup {NoName}, Visit(path, name), ~IsCurrent(path)
  PROVE  History!Visit(path)
<1> DEFINE list == Leave(name)
           D == {i \in DOMAIN entries : entries[i].path = path}
           kept == Without(list, D)
           p == PathsOf(entries)
<1>1. entries \in Seq(Entry) /\ Len(entries) <= Capacity
  BY DEF EntriesAreTrue, JumpListTypeOK
<1>2. list \in Seq(Entry) /\ Len(list) = Len(entries) /\ DOMAIN list = DOMAIN entries
  BY LeaveKeepsPaths DEF EntriesAreTrue
<1>3. PathsOf(list) = p
  BY PathsOfLeave DEF EntriesAreTrue
<1>4. /\ p \in Seq(Paths) /\ DOMAIN p = DOMAIN entries
      /\ \A i \in DOMAIN entries : p[i] = entries[i].path /\ p[i] \in Paths
  BY <1>1, PathsOfSeq
<1>5. D \in SUBSET DOMAIN list
  BY <1>2
<1>6. /\ entries' = Evict(Append(kept, [path |-> path, name |-> NoName]))
      /\ index' = Len(entries') /\ here' = path
  BY DEF Visit, Visited
<1>7. D = {i \in DOMAIN p : p[i] \notin Paths \ {path}}
  BY <1>4
<1> HIDE DEF list, D, p
<1>8. PathsOf(kept) = History!Only(p, Paths \ {path})
  BY <1>2, <1>3, <1>5, <1>7, PathsOfWithout, OnlyIsWithout
<1>9. kept \in Seq(Entry)
  BY <1>2, <1>5, WithoutIsCompact
<1>10. Len(kept) <= Capacity
  <2>1. Len(kept) <= Len(list) /\ Len(kept) \in Nat
    BY <1>2, <1>5, <1>9, WithoutIsNoLonger
  <2> QED
    BY <1>1, <1>2, <2>1, JumpListAssumption
<1> HIDE DEF kept
<1>11. [path |-> path, name |-> NoName] \in Entry
  BY DEF Entry
<1>12. /\ SubSeq(PathsOf(entries'), 1, Len(entries') - 1) = History!Newest(PathsOf(kept), Capacity - 1)
       /\ SubSeq(PathsOf(entries'), Len(entries') + 1, Len(entries')) = <<>>
  BY <1>6, <1>9, <1>10, <1>11, EvictLeavesTheNewest
<1>13. SubSeq(p, 1, index - 1) \o History!Current \o SubSeq(p, index + 1, Len(entries)) = p
  BY AroundTheUser DEF p
<1>14. path # here
  BY JumpListAssumption DEF IsCurrent, NothingBeforeVisit, EntriesAreTrue, CurrentIsHere
<1>15. SubSeq(PathsOf(entries), 1, index - 1)' = SubSeq(PathsOf(entries'), 1, Len(entries') - 1)
  BY <1>6
<1>16. SubSeq(PathsOf(entries), index + 1, Len(entries))' = SubSeq(PathsOf(entries'), Len(entries') + 1, Len(entries'))
  BY <1>6
<1> QED
  BY <1>6, <1>8, <1>12, <1>13, <1>14, <1>15, <1>16 DEF History!Visit, p

\* The entries looked at are the nearest ones, and the last of them, if there are more, is there.
LEMMA ExaminedAreNearest ==
  ASSUME JumpListTypeOK, NEW direction \in {-1, 1}, NEW count \in Nat, NEW missing
  PROVE  LET examined == Examined(direction, count, missing)
             ahead == Ahead(direction) IN
         /\ \A k \in examined : \A i \in Nearer(direction, k) : i \in examined
         /\ \A k \in ahead \ examined : \E i \in Nearer(direction, k) : TRUE
         /\ \A k \in ahead \ examined : \A f \in examined :
              (\A i \in Nearer(direction, k) : i = f \/ i \in Nearer(direction, f)) => f \in There(missing)
<1> DEFINE examined == Examined(direction, count, missing)
           ahead == Ahead(direction)
           N(k) == Nearer(direction, k)
           C(k) == Nearer(direction, k) \cap There(missing)
           w == Wanted(count)
<1>1. w \in Nat \ {0}
  BY DEF Wanted
<1>2. entries \in Seq(Entry) /\ DOMAIN entries = 1 .. Len(entries) /\ Len(entries) \in Nat
  BY DEF JumpListTypeOK
<1>3. \A i \in ahead : i \in 1 .. Len(entries)
  BY <1>2 DEF Ahead
<1>4. \A k : N(k) \subseteq ahead /\ \A i \in ahead : i \in N(k) <=> direction * (k - i) > 0
  BY DEF Nearer
<1>5. \A k : k \in examined <=> k \in ahead /\ Cardinality(C(k)) < w
  BY DEF Examined
<1>6. \A k : IsFiniteSet(C(k)) /\ Cardinality(C(k)) \in Nat
  <2> TAKE k
  <2>1. IsFiniteSet(1 .. Len(entries)) /\ C(k) \in SUBSET (1 .. Len(entries))
    <3>1. C(k) \in SUBSET (1 .. Len(entries))
      BY <1>3, <1>4
    <3> HIDE DEF C
    <3> QED
      BY <1>2, <3>1, FS_Interval
  <2> HIDE DEF C
  <2> QED
    BY <2>1, FS_Subset, FS_CardinalityType
<1>7. ASSUME NEW k, NEW i, C(i) \subseteq C(k) PROVE Cardinality(C(i)) <= Cardinality(C(k))
  <2> HIDE DEF C
  <2>1. C(i) \in SUBSET C(k) /\ IsFiniteSet(C(k))
    BY <1>6, <1>7
  <2> QED
    BY <2>1, FS_Subset
<1>8. ASSUME NEW k \in examined, NEW i \in N(k) PROVE i \in examined
  <2>1. k \in ahead /\ Cardinality(C(k)) < w /\ i \in ahead
    BY <1>4, <1>5
  <2>2. N(i) \subseteq N(k)
    <3> SUFFICES ASSUME NEW j \in N(i) PROVE j \in N(k)
      OBVIOUS
    <3>1. j \in ahead /\ direction * (i - j) > 0 /\ direction * (k - i) > 0
      BY <1>4, <2>1
    <3>2. i \in Int /\ j \in Int /\ k \in Int
      BY <1>3, <2>1, <3>1
    <3>3. direction * (k - j) > 0
      BY <3>1, <3>2
    <3> QED
      BY <1>4, <3>1, <3>3
  <2>3. C(i) \subseteq C(k)
    BY <2>2
  <2>4. Cardinality(C(i)) <= Cardinality(C(k))
    BY <1>7, <2>3
  <2> HIDE DEF C, w, examined
  <2>5. Cardinality(C(i)) < w
    BY <1>1, <1>6, <2>1, <2>4
  <2> QED
    BY <1>5, <2>1, <2>5
<1>9. ASSUME NEW k \in ahead \ examined PROVE C(k) # {}
  <2> SUFFICES ASSUME C(k) = {} PROVE FALSE
    OBVIOUS
  <2>1. Cardinality(C(k)) = 0
    BY FS_EmptySet
  <2> HIDE DEF C, w, examined
  <2> QED
    BY <1>1, <1>5, <2>1
<1>10. ASSUME NEW k \in ahead \ examined, NEW f \in examined, \A i \in N(k) : i = f \/ i \in N(f), f \notin There(missing)
       PROVE  FALSE
  <2>1. C(k) \subseteq C(f)
    BY <1>10
  <2>2. Cardinality(C(k)) <= Cardinality(C(f)) /\ Cardinality(C(f)) < w
    BY <1>5, <1>7, <2>1
  <2> HIDE DEF C, w, examined
  <2>3. Cardinality(C(k)) < w
    BY <1>1, <1>6, <2>2
  <2> QED
    BY <1>5, <2>3
<1> HIDE DEF examined, ahead
<1>11. \A k \in ahead \ examined : \E i \in N(k) : TRUE
  BY <1>9
<1>12. \A k \in examined : \A i \in N(k) : i \in examined
  BY <1>8
<1>13. \A k \in ahead \ examined : \A f \in examined : (\A i \in N(k) : i = f \/ i \in N(f)) => f \in There(missing)
  BY <1>10
<1> QED
  BY <1>11, <1>12, <1>13 DEF examined, ahead

\* Going forth, these are the ones from the next to some position,
LEMMA ExaminedForward ==
  ASSUME JumpListTypeOK, index # 0, NEW count \in Nat, NEW missing
  PROVE  \E b \in index .. Len(entries) :
           /\ Examined(1, count, missing) = index + 1 .. b
           /\ b < Len(entries) => b > index /\ b \in There(missing)
<1> DEFINE examined == Examined(1, count, missing)
           n == Len(entries)
<1>1. n \in Nat /\ DOMAIN entries = 1 .. n /\ index \in 1 .. n
  BY DEF JumpListTypeOK
<1> HIDE DEF n
<1>2. Ahead(1) = index + 1 .. n
  BY <1>1 DEF Ahead
<1>3. \A k \in Ahead(1) : Nearer(1, k) = index + 1 .. k - 1
  BY <1>1, <1>2 DEF Nearer
<1>4. examined \subseteq index + 1 .. n
  BY <1>2 DEF Examined
<1>5. /\ \A k \in examined : \A i \in Nearer(1, k) : i \in examined
      /\ \A k \in Ahead(1) \ examined : \E i \in Nearer(1, k) : TRUE
      /\ \A k \in Ahead(1) \ examined : \A f \in examined :
           (\A i \in Nearer(1, k) : i = f \/ i \in Nearer(1, f)) => f \in There(missing)
  <2>1. 1 \in {-1, 1}
    OBVIOUS
  <2> QED
    BY <2>1, ExaminedAreNearest, Zenon
<1> HIDE DEF examined
<1> DEFINE rest == (index + 1 .. n) \ examined
<1>6. CASE rest = {}
  <2>1. examined = index + 1 .. n
    BY <1>4, <1>6
  <2> QED
    BY <1>1, <2>1 DEF examined, n
<1>7. CASE rest # {}
  <2>1. PICK k \in rest : \A j \in rest : k <= j
    <3>1. rest \subseteq 1 .. n
      BY <1>1
    <3> HIDE DEF rest
    <3> QED
      BY <1>1, <1>7, <3>1, EndsOfPositions
  <2>2. k \in Ahead(1) \ examined /\ k \in index + 1 .. n
    BY <1>2
  <2>3. Nearer(1, k) = index + 1 .. k - 1
    BY <1>3, <2>2
  <2>4. \A i \in index + 1 .. k - 1 : i \in examined
    BY <1>1, <2>1, <2>2
  <2>5. ASSUME NEW i \in examined PROVE i \in index + 1 .. k - 1
    <3> SUFFICES ASSUME i >= k PROVE FALSE
      BY <1>1, <1>4, <2>2
    <3>1. i \in Ahead(1) /\ i # k /\ k \in index + 1 .. i - 1
      BY <1>1, <1>2, <1>4, <2>2
    <3>2. k \in Nearer(1, i)
      BY <1>3, <3>1
    <3> QED
      BY <1>5, <2>2, <3>2
  <2>6. examined = index + 1 .. k - 1
    BY <2>4, <2>5
  <2>7. PICK i \in index + 1 .. k - 1 : TRUE
    BY <1>5, <2>2, <2>3
  <2>8. k - 1 \in index + 1 .. n /\ k - 1 \in examined /\ k - 1 < n
    BY <1>1, <2>2, <2>6, <2>7
  <2>9. Nearer(1, k - 1) = index + 1 .. k - 2
    <3>1. (k - 1) - 1 = k - 2
      BY <2>2
    <3> QED
      BY <1>2, <1>3, <2>8, <3>1
  <2>10. \A j \in Nearer(1, k) : j = k - 1 \/ j \in Nearer(1, k - 1)
    BY <1>1, <2>2, <2>3, <2>9
  <2>11. k - 1 \in There(missing)
    BY <1>5, <2>2, <2>8, <2>10
  <2>12. k - 1 \in index .. n /\ k - 1 > index
    BY <1>1, <2>8
  <2> QED
    BY <2>6, <2>11, <2>12 DEF examined, n
<1> QED
  BY <1>6, <1>7

\* and going back, from some position to the one before.
LEMMA ExaminedBack ==
  ASSUME JumpListTypeOK, index # 0, NEW count \in Nat, NEW missing
  PROVE  \E a \in 0 .. index - 1 :
           /\ Examined(-1, count, missing) = a + 1 .. index - 1
           /\ a > 0 => a + 1 < index /\ a + 1 \in There(missing)
<1> DEFINE examined == Examined(-1, count, missing)
           n == Len(entries)
<1>1. n \in Nat /\ DOMAIN entries = 1 .. n /\ index \in 1 .. n
  BY DEF JumpListTypeOK
<1> HIDE DEF n
<1>2. Ahead(-1) = 1 .. index - 1
  BY <1>1 DEF Ahead
<1>3. \A k \in Ahead(-1) : Nearer(-1, k) = k + 1 .. index - 1
  BY <1>1, <1>2 DEF Nearer
<1>4. examined \subseteq 1 .. index - 1
  BY <1>2 DEF Examined
<1>5. /\ \A k \in examined : \A i \in Nearer(-1, k) : i \in examined
      /\ \A k \in Ahead(-1) \ examined : \E i \in Nearer(-1, k) : TRUE
      /\ \A k \in Ahead(-1) \ examined : \A f \in examined :
           (\A i \in Nearer(-1, k) : i = f \/ i \in Nearer(-1, f)) => f \in There(missing)
  <2>1. -1 \in {-1, 1}
    OBVIOUS
  <2> QED
    BY <2>1, ExaminedAreNearest, Zenon
<1> HIDE DEF examined
<1> DEFINE rest == (1 .. index - 1) \ examined
<1>6. CASE rest = {}
  <2>1. examined = 1 .. index - 1
    BY <1>4, <1>6
  <2>2. 0 \in 0 .. index - 1 /\ 0 + 1 = 1
    BY <1>1
  <2>3. examined = 0 + 1 .. index - 1
    BY <2>1, <2>2
  <2> QED
    BY <2>2, <2>3 DEF examined
<1>7. CASE rest # {}
  <2>1. PICK k \in rest : \A j \in rest : j <= k
    <3>1. rest \subseteq 1 .. n
      BY <1>1
    <3> HIDE DEF rest
    <3> QED
      BY <1>1, <1>7, <3>1, EndsOfPositions
  <2>2. k \in Ahead(-1) \ examined /\ k \in 1 .. index - 1
    BY <1>2
  <2>3. Nearer(-1, k) = k + 1 .. index - 1
    BY <1>3, <2>2
  <2>4. \A i \in k + 1 .. index - 1 : i \in examined
    BY <1>1, <2>1, <2>2
  <2>5. ASSUME NEW i \in examined PROVE i \in k + 1 .. index - 1
    <3> SUFFICES ASSUME i <= k PROVE FALSE
      BY <1>1, <1>4, <2>2
    <3>1. i \in Ahead(-1) /\ i # k /\ k \in i + 1 .. index - 1
      BY <1>1, <1>2, <1>4, <2>2
    <3>2. k \in Nearer(-1, i)
      BY <1>3, <3>1
    <3> QED
      BY <1>5, <2>2, <3>2
  <2>6. examined = k + 1 .. index - 1
    BY <2>4, <2>5
  <2>7. PICK i \in k + 1 .. index - 1 : TRUE
    BY <1>5, <2>2, <2>3
  <2>8. k + 1 \in 1 .. index - 1 /\ k + 1 \in examined /\ k > 0
    BY <1>1, <2>2, <2>6, <2>7
  <2>9. Nearer(-1, k + 1) = k + 2 .. index - 1
    <3>1. (k + 1) + 1 = k + 2
      BY <2>2
    <3> QED
      BY <1>2, <1>3, <2>8, <3>1
  <2>10. \A j \in Nearer(-1, k) : j = k + 1 \/ j \in Nearer(-1, k + 1)
    BY <1>1, <2>2, <2>3, <2>9
  <2>11. k + 1 \in There(missing)
    BY <1>5, <2>2, <2>8, <2>10
  <2>12. k \in 0 .. index - 1 /\ k + 1 < index
    BY <1>1, <2>2, <2>8
  <2> QED
    BY <2>6, <2>11, <2>12 DEF examined, n
<1> QED
  BY <1>6, <1>7

\* Going forth from i over those up to b, the last of them that is not gone is at l.
PassedForth(p, i, b, gone, l) ==
  /\ i \in 1 .. Len(p) /\ b \in i .. Len(p) /\ l \in i .. b
  /\ l = i => b = Len(p)
  /\ b < Len(p) => l = b
  /\ l # i => p[l] \notin gone
  /\ \A k \in l + 1 .. b : p[k] \in gone

\* What is passed going forth, and what is left of a list without those of it that are gone.
LeftForth(p, i, b, gone, l) ==
  LET D == {k \in i + 1 .. b : p[k] \in gone}
      q == Without(p, D)
      j == Position(l, D)
      ahead == SubSeq(p, i + 1, Len(p))
      segment == SubSeq(ahead, 1, b - i)
      passed == Without(segment, {k \in DOMAIN segment : segment[k] \in gone})
      rest == SubSeq(ahead, (b - i) + 1, Len(ahead)) IN
  /\ l = i => /\ passed = <<>> /\ rest = <<>>
              /\ SubSeq(q, 1, j - 1) = SubSeq(p, 1, i - 1) /\ SubSeq(q, j + 1, Len(q)) = <<>>
  /\ l # i => /\ passed # <<>> /\ passed[Len(passed)] = p[l]
              /\ SubSeq(q, 1, j - 1) = SubSeq(p, 1, i - 1) \o <<p[i]>> \o SubSeq(passed, 1, Len(passed) - 1)
              /\ SubSeq(q, j + 1, Len(q)) = rest

LEMMA ForwardLeavesOut ==
  ASSUME NEW p \in Seq(Paths), NEW i, NEW b, NEW gone, NEW l, PassedForth(p, i, b, gone, l)
  PROVE  LeftForth(p, i, b, gone, l)
<1> DEFINE D == {k \in i + 1 .. b : p[k] \in gone}
           q == Without(p, D)
           j == Position(l, D)
           n == Len(p)
           X == SubSeq(p, 1, i)
           seg == SubSeq(p, i + 1, b)
           I == Inside(D, i, b)
           mid == Without(seg, I)
           R == SubSeq(p, b + 1, n)
           ahead == SubSeq(p, i + 1, n)
<1>1. /\ n \in Nat /\ i \in 1 .. n /\ b \in i .. n /\ l \in i .. b /\ n <= Len(p)
      /\ i \in Nat /\ b \in Nat /\ i <= b /\ b <= Len(p) /\ \A d \in D : d \in i + 1 .. b
  BY DEF PassedForth
<1>2. l = i => b = n
  BY DEF PassedForth
<1>3. (l # i => p[l] \notin gone) /\ \A k \in l + 1 .. b : p[k] \in gone
  BY DEF PassedForth
<1>4. \A k \in i + 1 .. b : k \in D <=> p[k] \in gone
  OBVIOUS
<1> HIDE DEF D
<1>5. mid \in Seq(Paths) /\ Len(mid) = b - i - Cardinality(D) /\ q = X \o mid \o R
  <2>1. i \in Nat /\ b \in Nat /\ i <= b /\ b <= Len(p) /\ D \in SUBSET (i + 1 .. b)
    BY <1>1
  <2>2. /\ Without(SubSeq(p, i + 1, b), Inside(D, i, b)) \in Seq(Paths)
        /\ Len(Without(SubSeq(p, i + 1, b), Inside(D, i, b))) = b - i - Cardinality(D)
    BY <2>1, WithoutMiddle
  <2>3. Without(p, D) = Replaced(p, i, b, Without(SubSeq(p, i + 1, b), Inside(D, i, b)))
    BY <2>1, WithoutMiddle
  <2> QED
    BY <2>2, <2>3 DEF Replaced
<1> HIDE DEF n
<1>6. X \in Seq(Paths) /\ Len(X) = i
  <2>1. /\ X \in Seq(Paths) /\ Len(X) = i - 1 + 1
    BY <1>1, PartOfSequence
  <2> HIDE DEF X
  <2> QED
    BY <1>1, <2>1
<1>7. seg \in Seq(Paths) /\ Len(seg) = b - i /\ DOMAIN seg = 1 .. b - i /\ \A k \in 1 .. b - i : seg[k] = p[i + k]
  <2>1. i + 1 \in Int /\ 1 <= i + 1 /\ i + 1 <= b + 1
    BY <1>1
  <2>2. /\ seg \in Seq(Paths) /\ Len(seg) = b - (i + 1) + 1
        /\ \A k \in 1 .. b - (i + 1) + 1 : seg[k] = p[(i + 1) + k - 1]
    BY <1>1, <2>1, PartOfSequence
  <2> HIDE DEF seg
  <2>3. b - (i + 1) + 1 = b - i /\ \A k \in 1 .. b - i : (i + 1) + k - 1 = i + k
    BY <1>1
  <2> QED
    BY <2>2, <2>3
<1>8. R \in Seq(Paths) /\ Len(R) = n - b
  <2>1. b + 1 \in Int /\ 1 <= b + 1 /\ b + 1 <= n + 1 /\ n \in Int
    BY <1>1
  <2>2. R \in Seq(Paths) /\ Len(R) = n - (b + 1) + 1
    BY <1>1, <2>1, PartOfSequence
  <2> HIDE DEF R
  <2> QED
    BY <1>1, <2>2
<1>9. I = {k \in DOMAIN seg : seg[k] \in gone}
  <2>1. \A k \in 1 .. b - i : k + i \in D <=> seg[k] \in gone
    <3> TAKE k \in 1 .. b - i
    <3>1. k + i \in i + 1 .. b /\ k + i = i + k
      BY <1>1
    <3> QED
      BY <1>4, <1>7, <3>1
  <2>2. I = {k \in 1 .. b - i : k + i \in D}
    BY DEF Inside
  <2> HIDE DEF I, seg
  <2> QED
    BY <1>7, <2>1, <2>2
<1>10. Len(ahead) = n - i /\ SubSeq(ahead, 1, b - i) = seg /\ SubSeq(ahead, (b - i) + 1, n - i) = R
  <2>1. /\ i + 1 \in Int /\ n \in Int /\ 1 <= i + 1 /\ i + 1 <= n + 1 /\ n <= Len(p)
        /\ n - (i + 1) + 1 = n - i
    BY <1>1
  <2>2. Len(ahead) = n - (i + 1) + 1
    BY <2>1, PartOfSequence
  <2>3. SubSeq(ahead, 1, b - i) = SubSeq(p, (i + 1) + 1 - 1, (i + 1) + (b - i) - 1)
    <3>1. 1 \in Int /\ b - i \in Int /\ 1 <= (b - i) + 1 /\ b - i <= n - (i + 1) + 1
      BY <1>1
    <3> QED
      BY <1>1, <2>1, <3>1, PartOfPart
  <2>4. SubSeq(ahead, (b - i) + 1, n - i) = SubSeq(p, (i + 1) + ((b - i) + 1) - 1, (i + 1) + (n - i) - 1)
    <3>1. (b - i) + 1 \in Int /\ n - i \in Int /\ 1 <= (b - i) + 1 /\ (b - i) + 1 <= (n - i) + 1 /\ n - i <= n - (i + 1) + 1
      BY <1>1
    <3> QED
      BY <1>1, <2>1, <3>1, PartOfPart
  <2>5. /\ (i + 1) + 1 - 1 = i + 1 /\ (i + 1) + (b - i) - 1 = b
        /\ (i + 1) + ((b - i) + 1) - 1 = b + 1 /\ (i + 1) + (n - i) - 1 = n
    BY <1>1
  <2> QED
    BY <2>1, <2>2, <2>3, <2>4, <2>5
<1>11. Cardinality(D) \in 0 .. b - i /\ \A k \in i + 1 .. b : Position(k, D) = i + Position(k - i, I)
  BY <1>1, PositionInside
<1>12. SubSeq(X, 1, i - 1) = SubSeq(p, 1, i - 1) /\ X = SubSeq(p, 1, i - 1) \o <<p[i]>>
  <2>1. SubSeq(X, 1, i - 1) = SubSeq(p, 1 + 1 - 1, 1 + (i - 1) - 1)
    <3>1. /\ 1 \in Int /\ i \in Int /\ 1 <= 1 /\ 1 <= i + 1 /\ i <= Len(p)
          /\ i - 1 \in Int /\ 1 <= (i - 1) + 1 /\ i - 1 <= i - 1 + 1
      BY <1>1
    <3> QED
      BY <3>1, PartOfPart
  <2>2. 1 + 1 - 1 = 1 /\ 1 + (i - 1) - 1 = i - 1
    BY <1>1
  <2>3. 1 \in 1 .. Len(p) /\ i \in 1 .. Len(p)
    BY <1>1
  <2>4. X = SubSeq(p, 1, i - 1) \o <<p[i]>>
    BY <2>3, SubSeqRecursiveSecond
  <2> QED
    BY <2>1, <2>2, <2>4
<1>13. \A k \in DOMAIN seg \ I : Position(k, I) \in DOMAIN mid /\ mid[Position(k, I)] = seg[k]
  <2>1. I \in SUBSET DOMAIN seg
    BY <1>9
  <2> HIDE DEF I, seg, X, R
  <2>2. \A k \in DOMAIN seg \ I : Position(k, I) \in DOMAIN Without(seg, I) /\ Without(seg, I)[Position(k, I)] = seg[k]
    BY <1>7, <2>1, WithoutIsCompact
  <2> QED
    BY <2>2
<1>14. /\ \A m \in DOMAIN mid : \E k \in DOMAIN seg \ I : m = Position(k, I)
       /\ \A k, m \in DOMAIN seg \ I : k < m => Position(k, I) < Position(m, I)
  <2>1. I \in SUBSET DOMAIN seg
    BY <1>9
  <2> HIDE DEF I, seg, X, R
  <2>2. \A m \in DOMAIN Without(seg, I) : \E k \in DOMAIN seg \ I : m = Position(k, I) /\ Without(seg, I)[m] = seg[k]
    BY <1>7, <2>1, WithoutIsCompact
  <2>3. \A k, m \in DOMAIN seg \ I : k < m => Position(k, I) < Position(m, I)
    BY <1>7, <2>1, WithoutIsCompact
  <2> QED
    BY <2>2, <2>3
<1> DEFINE passed == Without(seg, {k \in DOMAIN seg : seg[k] \in gone})
           back == SubSeq(p, 1, i - 1)
<1>15. passed = mid
  BY <1>9
<1>16. ASSUME l = i
       PROVE  /\ passed = <<>> /\ R = <<>>
              /\ SubSeq(q, 1, j - 1) = back /\ SubSeq(q, j + 1, Len(q)) = <<>>
  <2>1. D = i + 1 .. b
    BY <1>1, <1>3, <1>4, <1>16
  <2>2. Cardinality(D) = b - i
    <3>1. Cardinality(i + 1 .. b) = IF i + 1 > b THEN 0 ELSE b - (i + 1) + 1
      BY <1>1, FS_Interval
    <3> HIDE DEF D
    <3> QED
      BY <1>1, <2>1, <3>1
  <2> HIDE DEF mid, R, X, q, seg, I, passed
  <2>3. mid = <<>> /\ R = <<>>
    BY <1>1, <1>2, <1>5, <1>8, <1>16, <2>2
  <2>4. q = X
    BY <1>5, <1>6, <2>3, ConcatEmptySeq
  <2>5. j = i
    <3>1. i \in Int /\ \A d \in D : ~(d < i)
      BY <1>1
    <3> HIDE DEF D
    <3> QED
      BY <1>16, <3>1, NoneBefore
  <2> HIDE DEF j
  <2>6. SubSeq(q, j + 1, Len(q)) = <<>>
    BY <1>1, <1>6, <2>4, <2>5, SubSeqEmpty
  <2> QED
    BY <1>12, <1>15, <2>3, <2>4, <2>5, <2>6
<1>17. ASSUME l # i
       PROVE  /\ passed # <<>> /\ passed[Len(passed)] = p[l]
              /\ SubSeq(q, 1, j - 1) = back \o <<p[i]>> \o SubSeq(passed, 1, Len(passed) - 1)
              /\ SubSeq(q, j + 1, Len(q)) = R
  <2> DEFINE m == Len(mid)
             Y == X \o mid
  <2>1. l \in i + 1 .. b /\ l - i \in 1 .. b - i /\ i + (l - i) = l
    BY <1>1, <1>17
  <2>2. l - i \in DOMAIN seg \ I /\ seg[l - i] = p[l]
    <3>1. seg[l - i] = p[l] /\ p[l] \notin gone
      BY <1>3, <1>7, <1>17, <2>1
    <3> HIDE DEF seg
    <3> QED
      BY <1>7, <1>9, <2>1, <3>1
  <2> HIDE DEF mid, R, X, q, seg, I, passed
  <2>3. m \in Nat /\ DOMAIN mid = 1 .. m
    BY <1>5
  <2>4. Position(l - i, I) = m
    <3>1. Position(l - i, I) \in 1 .. m
      BY <1>13, <2>2, <2>3
    <3>2. m \in DOMAIN mid
      BY <2>3, <3>1
    <3>3. PICK k \in DOMAIN seg \ I : m = Position(k, I)
      BY <1>14, <3>2
    <3>4. k \in 1 .. b - i /\ seg[k] = p[i + k] /\ seg[k] \notin gone
      BY <1>7, <1>9, <3>3
    <3>5. ~(k > l - i)
      <4>1. k > l - i => i + k \in l + 1 .. b
        BY <1>1, <3>4
      <4> QED
        BY <1>3, <3>4, <4>1
    <3>6. k = l - i \/ k < l - i
      BY <1>1, <3>4, <3>5
    <3>7. k < l - i => Position(k, I) < Position(l - i, I)
      BY <1>14, <2>2, <3>3
    <3> QED
      BY <2>3, <3>1, <3>3, <3>6, <3>7
  <2>5. j = i + m /\ m >= 1 /\ mid[m] = p[l]
    <3>1. m \in 1 .. m /\ mid[m] = p[l]
      BY <1>13, <2>2, <2>3, <2>4
    <3> QED
      BY <1>11, <2>1, <2>3, <2>4, <3>1
  <2>6. /\ Y \in Seq(Paths) /\ Len(Y) = i + m /\ q = Y \o R
    BY <1>5, <1>6, ConcatProperties
  <2>7. SubSeq(Y \o R, 1, j - 1) = SubSeq(Y, 1, j - 1)
    <3>1. j - 1 \in 0 .. Len(Y)
      BY <1>1, <2>3, <2>5, <2>6
    <3> HIDE DEF Y, j
    <3> QED
      BY <1>8, <2>6, <3>1, PartsOfConcat
  <2>8. SubSeq(X \o mid, 1, j - 1) = X \o SubSeq(mid, 1, m - 1)
    <3>1. j - 1 \in Len(X) .. Len(X) + Len(mid) /\ (j - 1) - Len(X) = m - 1
      BY <1>1, <1>6, <2>3, <2>5
    <3> HIDE DEF m, j
    <3>2. SubSeq(X \o mid, 1, j - 1) = X \o SubSeq(mid, 1, (j - 1) - Len(X))
      BY <1>5, <1>6, <3>1, PartsOfConcat
    <3> QED
      BY <3>1, <3>2
  <2>9. SubSeq(Y \o R, j + 1, Len(Y \o R)) = SubSeq(R, 1, Len(R))
    <3>1. j + 1 \in Len(Y) + 1 .. Len(Y) + Len(R) + 1 /\ (j + 1) - Len(Y) = 1
      BY <1>1, <1>8, <2>3, <2>5, <2>6
    <3> HIDE DEF Y, j
    <3>2. SubSeq(Y \o R, j + 1, Len(Y \o R)) = SubSeq(R, (j + 1) - Len(Y), Len(R))
      BY <1>8, <2>6, <3>1, PartsOfConcat
    <3> QED
      BY <3>1, <3>2
  <2>10. SubSeq(R, 1, Len(R)) = R
    BY <1>8, SubSeqFull
  <2> HIDE DEF j, m
  <2>11. SubSeq(q, 1, j - 1) = X \o SubSeq(mid, 1, m - 1)
    BY <2>6, <2>7, <2>8
  <2>12. SubSeq(q, j + 1, Len(q)) = R
    BY <2>6, <2>9, <2>10
  <2>13. mid # <<>>
    BY <1>5, <2>3, <2>5 DEF m
  <2> QED
    BY <1>12, <1>15, <2>5, <2>11, <2>12, <2>13 DEF m
<1> HIDE DEF R
<1>18. SubSeq(ahead, (b - i) + 1, Len(ahead)) = R /\ SubSeq(ahead, 1, b - i) = seg
  BY <1>10
<1> QED
  BY <1>16, <1>17, <1>18 DEF LeftForth, D, n

\* Going back from i over those from a + 1, the furthest of them that is not gone is at l.
PassedBack(p, i, a, gone, l) ==
  /\ i \in 1 .. Len(p) /\ a \in 0 .. i - 1 /\ l \in a + 1 .. i
  /\ l = i => a = 0
  /\ a > 0 => l = a + 1
  /\ l # i => p[l] \notin gone
  /\ \A k \in a + 1 .. l - 1 : p[k] \in gone

\* What is passed going back, and what is left of a list without those of it that are gone.
LeftBack(p, i, a, gone, l) ==
  LET D == {k \in a + 1 .. i - 1 : p[k] \in gone}
      q == Without(p, D)
      j == Position(l, D)
      back == SubSeq(p, 1, i - 1)
      left == Len(back) - ((i - 1) - a)
      segment == SubSeq(back, left + 1, Len(back))
      passed == Without(segment, {k \in DOMAIN segment : segment[k] \in gone})
      rest == SubSeq(back, 1, left) IN
  /\ l = i => /\ passed = <<>> /\ rest = <<>>
              /\ SubSeq(q, 1, j - 1) = <<>> /\ SubSeq(q, j + 1, Len(q)) = SubSeq(p, i + 1, Len(p))
  /\ l # i => /\ passed # <<>> /\ passed[1] = p[l] /\ SubSeq(q, 1, j - 1) = rest
              /\ SubSeq(q, j + 1, Len(q)) =
                   SubSeq(passed, 2, Len(passed)) \o <<p[i]>> \o SubSeq(p, i + 1, Len(p))

LEMMA BackLeavesOut ==
  ASSUME NEW p \in Seq(Paths), NEW i, NEW a, NEW gone, NEW l, PassedBack(p, i, a, gone, l)
  PROVE  LeftBack(p, i, a, gone, l)
<1> DEFINE b == i - 1
           D == {k \in a + 1 .. b : p[k] \in gone}
           q == Without(p, D)
           j == Position(l, D)
           n == Len(p)
           X == SubSeq(p, 1, a)
           seg == SubSeq(p, a + 1, b)
           I == Inside(D, a, b)
           mid == Without(seg, I)
           R == SubSeq(p, b + 1, n)
           back == SubSeq(p, 1, b)
           ahead == SubSeq(p, i + 1, n)
<1>1. /\ n \in Nat /\ i \in 1 .. n /\ a \in 0 .. b /\ l \in a + 1 .. i /\ n <= Len(p)
      /\ a \in Nat /\ b \in Nat /\ a <= b /\ b <= Len(p) /\ b <= n /\ b + 1 = i /\ D \in SUBSET (a + 1 .. b)
  BY DEF PassedBack
<1>2. l = i => a = 0
  BY DEF PassedBack
<1>3. (l # i => p[l] \notin gone) /\ \A k \in a + 1 .. l - 1 : p[k] \in gone
  BY DEF PassedBack
<1>4. \A k \in a + 1 .. b : k \in D <=> p[k] \in gone
  OBVIOUS
<1> HIDE DEF D, b
<1>5. mid \in Seq(Paths) /\ Len(mid) = b - a - Cardinality(D) /\ q = X \o mid \o R
  <2>1. a \in Nat /\ b \in Nat /\ a <= b /\ b <= Len(p) /\ D \in SUBSET (a + 1 .. b)
    BY <1>1
  <2>2. /\ Without(SubSeq(p, a + 1, b), Inside(D, a, b)) \in Seq(Paths)
        /\ Len(Without(SubSeq(p, a + 1, b), Inside(D, a, b))) = b - a - Cardinality(D)
    BY <2>1, WithoutMiddle
  <2>3. Without(p, D) = Replaced(p, a, b, Without(SubSeq(p, a + 1, b), Inside(D, a, b)))
    BY <2>1, WithoutMiddle
  <2> QED
    BY <2>2, <2>3 DEF Replaced
<1> HIDE DEF n
<1>6. X \in Seq(Paths) /\ Len(X) = a
  <2>1. 1 \in Int /\ 1 <= 1 /\ 1 <= a + 1 /\ a <= Len(p) /\ a \in Int
    BY <1>1
  <2>2. X \in Seq(Paths) /\ Len(X) = a - 1 + 1
    BY <2>1, PartOfSequence
  <2> HIDE DEF X
  <2> QED
    BY <1>1, <2>2
<1>7. seg \in Seq(Paths) /\ Len(seg) = b - a /\ DOMAIN seg = 1 .. b - a /\ \A k \in 1 .. b - a : seg[k] = p[a + k]
  <2>1. a + 1 \in Int /\ 1 <= a + 1 /\ a + 1 <= b + 1
    BY <1>1
  <2>2. /\ seg \in Seq(Paths) /\ Len(seg) = b - (a + 1) + 1
        /\ \A k \in 1 .. b - (a + 1) + 1 : seg[k] = p[(a + 1) + k - 1]
    BY <1>1, <2>1, PartOfSequence
  <2> HIDE DEF seg
  <2>3. b - (a + 1) + 1 = b - a /\ \A k \in 1 .. b - a : (a + 1) + k - 1 = a + k
    BY <1>1
  <2> QED
    BY <2>2, <2>3
<1>8. R \in Seq(Paths) /\ Len(R) = n - b /\ R = <<p[i]>> \o ahead /\ ahead \in Seq(Paths) /\ <<p[i]>> \in Seq(Paths)
  <2>1. b + 1 \in Int /\ 1 <= b + 1 /\ b + 1 <= n + 1 /\ n \in Int
    BY <1>1
  <2>2. R \in Seq(Paths) /\ Len(R) = n - (b + 1) + 1
    BY <1>1, <2>1, PartOfSequence
  <2>3. i \in 1 .. Len(p) /\ n \in i .. Len(p) /\ p[i] \in Paths
    BY <1>1 DEF n
  <2>4. SubSeq(p, i, n) = <<p[i]>> \o ahead
    BY <2>3, SubSeqRecursiveFirst
  <2>5. ahead \in Seq(Paths)
    <3>1. i + 1 \in Int /\ 1 <= i + 1 /\ i + 1 <= n + 1
      BY <1>1
    <3> QED
      BY <1>1, <2>1, <3>1, PartOfSequence
  <2>6. Len(R) = n - b /\ R = SubSeq(p, i, n)
    BY <1>1, <2>2
  <2> HIDE DEF R, ahead
  <2> QED
    BY <2>2, <2>3, <2>4, <2>5, <2>6
<1>9. I = {k \in DOMAIN seg : seg[k] \in gone}
  <2>1. \A k \in 1 .. b - a : k + a \in D <=> seg[k] \in gone
    <3> TAKE k \in 1 .. b - a
    <3>1. k + a \in a + 1 .. b /\ k + a = a + k
      BY <1>1
    <3> QED
      BY <1>4, <1>7, <3>1
  <2>2. I = {k \in 1 .. b - a : k + a \in D}
    BY DEF Inside
  <2> HIDE DEF I, seg
  <2> QED
    BY <1>7, <2>1, <2>2
<1> DEFINE left == b - (b - a)
<1>10. Len(back) = b /\ SubSeq(back, left + 1, b) = seg /\ SubSeq(back, 1, left) = X
  <2>1. 1 \in Int /\ b \in Int /\ 1 <= 1 /\ 1 <= b + 1 /\ b <= Len(p) /\ b - 1 + 1 = b /\ left = a
    BY <1>1
  <2>2. Len(back) = b - 1 + 1
    BY <2>1, PartOfSequence
  <2> HIDE DEF left
  <2>3. SubSeq(back, a + 1, b) = SubSeq(p, 1 + (a + 1) - 1, 1 + b - 1)
    <3>1. a + 1 \in Int /\ 1 <= a + 1 /\ a + 1 <= b + 1 /\ b <= b - 1 + 1
      BY <1>1
    <3> QED
      BY <1>1, <2>1, <3>1, PartOfPart
  <2>4. SubSeq(back, 1, a) = SubSeq(p, 1 + 1 - 1, 1 + a - 1)
    <3>1. a \in Int /\ 1 <= a + 1 /\ a <= b - 1 + 1
      BY <1>1
    <3> QED
      BY <1>1, <2>1, <3>1, PartOfPart
  <2>5. 1 + (a + 1) - 1 = a + 1 /\ 1 + b - 1 = b /\ 1 + 1 - 1 = 1 /\ 1 + a - 1 = a
    BY <1>1
  <2> QED
    BY <2>1, <2>2, <2>3, <2>4, <2>5
<1>11. Cardinality(D) \in 0 .. b - a /\ \A k \in a + 1 .. b : Position(k, D) = a + Position(k - a, I)
  <2>1. \A d \in D : d \in a + 1 .. b
    BY <1>1
  <2> QED
    BY <1>1, <2>1, PositionInside
<1>12. \A k \in DOMAIN seg \ I : Position(k, I) \in DOMAIN mid /\ mid[Position(k, I)] = seg[k]
  <2>1. I \in SUBSET DOMAIN seg
    BY <1>9
  <2> HIDE DEF I, seg, X, R
  <2>2. \A k \in DOMAIN seg \ I : Position(k, I) \in DOMAIN Without(seg, I) /\ Without(seg, I)[Position(k, I)] = seg[k]
    BY <1>7, <2>1, WithoutIsCompact
  <2> QED
    BY <2>2
<1>13. /\ \A m \in DOMAIN mid : \E k \in DOMAIN seg \ I : m = Position(k, I)
       /\ \A k, m \in DOMAIN seg \ I : k < m => Position(k, I) < Position(m, I)
  <2>1. I \in SUBSET DOMAIN seg
    BY <1>9
  <2> HIDE DEF I, seg, X, R
  <2>2. \A m \in DOMAIN Without(seg, I) : \E k \in DOMAIN seg \ I : m = Position(k, I) /\ Without(seg, I)[m] = seg[k]
    BY <1>7, <2>1, WithoutIsCompact
  <2>3. \A k, m \in DOMAIN seg \ I : k < m => Position(k, I) < Position(m, I)
    BY <1>7, <2>1, WithoutIsCompact
  <2> QED
    BY <2>2, <2>3
<1> DEFINE passed == Without(seg, {k \in DOMAIN seg : seg[k] \in gone})
<1>14. passed = mid
  BY <1>9
<1>15. ASSUME l = i
       PROVE  /\ passed = <<>> /\ X = <<>>
              /\ SubSeq(q, 1, j - 1) = <<>> /\ SubSeq(q, j + 1, Len(q)) = ahead
  <2>1. D = a + 1 .. b /\ a = 0
    <3>1. a = 0 /\ l - 1 = b
      BY <1>1, <1>2, <1>15
    <3>2. \A k \in a + 1 .. b : k \in D
      BY <1>3, <1>4, <3>1
    <3> QED
      BY <1>1, <3>1, <3>2
  <2>2. Cardinality(D) = b
    <3>1. Cardinality(a + 1 .. b) = IF a + 1 > b THEN 0 ELSE b - (a + 1) + 1
      BY <1>1, FS_Interval
    <3> HIDE DEF D
    <3> QED
      BY <1>1, <2>1, <3>1
  <2>3. SubSeq(R, 2, Len(R)) = ahead
    <3>1. /\ b + 1 \in Int /\ n \in Int /\ 1 <= b + 1 /\ b + 1 <= n + 1 /\ 2 \in Int /\ n - b \in Int /\ 1 <= 2
          /\ 2 <= (n - b) + 1 /\ n - b <= n - (b + 1) + 1
      BY <1>1
    <3>2. SubSeq(R, 2, n - b) = SubSeq(p, (b + 1) + 2 - 1, (b + 1) + (n - b) - 1)
      BY <1>1, <3>1, PartOfPart
    <3>3. (b + 1) + 2 - 1 = i + 1 /\ (b + 1) + (n - b) - 1 = n
      BY <1>1
    <3> QED
      BY <1>8, <3>2, <3>3
  <2> HIDE DEF mid, R, X, q, seg, I, passed, ahead
  <2>4. mid = <<>> /\ X = <<>>
    BY <1>1, <1>5, <1>6, <2>1, <2>2
  <2>5. q = R
    BY <1>5, <1>8, <2>4, ConcatEmptySeq
  <2>6. j = 1
    <3>1. \A d \in D : d < i
      BY <1>1
    <3>2. Position(i, D) = i - Cardinality(D)
      BY <3>1, AllBefore
    <3> QED
      BY <1>1, <1>15, <2>2, <3>2
  <2> HIDE DEF j
  <2>7. SubSeq(q, 1, j - 1) = <<>>
    <3>1. 1 \in Int /\ j - 1 \in Int /\ j - 1 < 1
      BY <2>6
    <3> QED
      BY <3>1, SubSeqEmpty
  <2>8. j + 1 = 2
    BY <2>6
  <2> QED
    BY <1>14, <2>3, <2>4, <2>5, <2>7, <2>8
<1>16. ASSUME l # i
       PROVE  /\ passed # <<>> /\ passed[1] = p[l]
              /\ SubSeq(q, 1, j - 1) = X
              /\ SubSeq(q, j + 1, Len(q)) = SubSeq(passed, 2, Len(passed)) \o <<p[i]>> \o ahead
  <2> DEFINE m == Len(mid)
             Y == X \o mid
  <2>1. l \in a + 1 .. b /\ l - a \in 1 .. b - a /\ a + (l - a) = l
    BY <1>1, <1>16
  <2>2. l - a \in DOMAIN seg \ I /\ seg[l - a] = p[l]
    <3>1. seg[l - a] = p[l] /\ p[l] \notin gone
      BY <1>3, <1>7, <1>16, <2>1
    <3> HIDE DEF seg
    <3> QED
      BY <1>7, <1>9, <2>1, <3>1
  <2> HIDE DEF mid, R, X, q, seg, I, passed, ahead
  <2>3. m \in Nat /\ DOMAIN mid = 1 .. m
    BY <1>5
  <2>4. Position(l - a, I) = 1 /\ m >= 1
    <3>1. Position(l - a, I) \in 1 .. m
      BY <1>12, <2>2, <2>3
    <3>2. 1 \in DOMAIN mid /\ m >= 1
      BY <2>3, <3>1
    <3>3. PICK k \in DOMAIN seg \ I : 1 = Position(k, I)
      BY <1>13, <3>2
    <3>4. k \in 1 .. b - a /\ seg[k] = p[a + k] /\ seg[k] \notin gone
      BY <1>7, <1>9, <3>3
    <3>5. ~(k < l - a)
      <4>1. k < l - a => a + k \in a + 1 .. l - 1
        BY <1>1, <3>4
      <4> QED
        BY <1>3, <3>4, <4>1
    <3>6. k = l - a \/ l - a < k
      BY <1>1, <3>4, <3>5
    <3>7. l - a < k => Position(l - a, I) < Position(k, I)
      BY <1>13, <2>2, <3>3
    <3> QED
      BY <2>3, <3>1, <3>2, <3>3, <3>6, <3>7
  <2>5. j = a + 1 /\ mid[1] = p[l]
    <3>1. 1 \in 1 .. m /\ mid[1] = p[l]
      BY <1>12, <2>2, <2>3, <2>4
    <3> QED
      BY <1>11, <2>1, <2>3, <2>4, <3>1
  <2>6. /\ Y \in Seq(Paths) /\ Len(Y) = a + m /\ q = Y \o R
    BY <1>5, <1>6, ConcatProperties
  <2>7. SubSeq(Y \o R, 1, j - 1) = SubSeq(Y, 1, j - 1)
    <3>1. j - 1 \in 0 .. Len(Y)
      BY <1>1, <2>3, <2>5, <2>6
    <3> HIDE DEF Y, j
    <3> QED
      BY <1>8, <2>6, <3>1, PartsOfConcat
  <2>8. SubSeq(X \o mid, 1, j - 1) = SubSeq(X, 1, j - 1) /\ j - 1 = Len(X)
    <3>1. j - 1 \in 0 .. Len(X) /\ j - 1 = Len(X)
      BY <1>1, <1>6, <2>3, <2>5
    <3> HIDE DEF j
    <3> QED
      BY <1>5, <1>6, <3>1, PartsOfConcat
  <2>9. SubSeq(X, 1, Len(X)) = X
    BY <1>6, SubSeqFull
  <2>10. SubSeq(Y \o R, j + 1, Len(Y \o R)) = SubSeq(Y, j + 1, Len(Y)) \o R
    <3>1. j \in Int /\ 0 <= j /\ j <= Len(Y) /\ R \in Seq(Paths) /\ Y \in Seq(Paths)
      BY <1>1, <1>8, <2>3, <2>4, <2>5, <2>6
    <3> HIDE DEF Y, j
    <3> QED
      BY <3>1, RestOfTwo
  <2>11. SubSeq(X \o mid, j + 1, Len(X \o mid)) = SubSeq(mid, 2, m)
    <3>1. j + 1 \in Len(X) + 1 .. Len(X) + Len(mid) + 1 /\ (j + 1) - Len(X) = 2
      BY <1>1, <1>6, <2>3, <2>4, <2>5
    <3> HIDE DEF j
    <3>2. SubSeq(X \o mid, j + 1, Len(X \o mid)) = SubSeq(mid, (j + 1) - Len(X), Len(mid))
      BY <1>5, <1>6, <3>1, PartsOfConcat
    <3> QED
      BY <3>1, <3>2
  <2>12. SubSeq(q, 1, j - 1) = X
    BY <2>6, <2>7, <2>8, <2>9
  <2> DEFINE tail == SubSeq(mid, 2, m)
  <2>13. SubSeq(q, j + 1, Len(q)) = tail \o (<<p[i]>> \o ahead)
    BY <1>8, <2>6, <2>10, <2>11
  <2>14. tail \in Seq(Paths)
    <3>1. 2 \in Int /\ m \in Int /\ 1 <= 2 /\ 2 <= m + 1 /\ m <= Len(mid)
      BY <2>3, <2>4
    <3> QED
      BY <1>5, <3>1, PartOfSequence
  <2>15. (tail \o <<p[i]>>) \o ahead = tail \o (<<p[i]>> \o ahead)
    <3> HIDE DEF tail
    <3> QED
      BY <1>8, <2>14, ConcatAssociative
  <2>16. mid # <<>>
    BY <1>5, <2>3, <2>4
  <2> HIDE DEF j
  <2> QED
    BY <1>14, <2>5, <2>12, <2>13, <2>15, <2>16
<1> HIDE DEF X, passed
<1>17. Len(back) = b /\ SubSeq(back, Len(back) - (b - a) + 1, Len(back)) = seg /\ SubSeq(back, 1, Len(back) - (b - a)) = X
  BY <1>10
<1> HIDE DEF q, j, seg
<1> QED
  BY <1>15, <1>16, <1>17 DEF LeftBack, D, n, b, q, j, passed

\* What going forth passes, by positions,
LEMMA ForthPasses ==
  ASSUME JumpListTypeOK, CurrentIsHere, index # 0, NEW count \in Nat, NEW missing
  PROVE  LET p == PathsOf(entries)
             gone == missing \cap Paths IN
         \E b \in index .. Len(entries) :
           /\ PassedForth(p, index, b, gone, Landing(1, count, missing))
           /\ Dropped(1, count, missing) = {k \in index + 1 .. b : p[k] \in gone}
<1> DEFINE p == PathsOf(entries)
           n == Len(entries)
           gone == missing \cap Paths
           l == Landing(1, count, missing)
           examined == Examined(1, count, missing)
           reached == Reached(1, count, missing)
           there == There(missing)
<1>1. /\ p \in Seq(Paths) /\ Len(p) = n /\ n \in Nat /\ DOMAIN entries = 1 .. n /\ index \in 1 .. n
      /\ \A k \in 1 .. n : p[k] = entries[k].path /\ p[k] \in Paths
  <2>1. entries \in Seq(Entry) /\ index \in DOMAIN entries
    BY DEF JumpListTypeOK
  <2> QED
    BY <2>1, PathsOfSeq
<1>2. PICK b \in index .. n : /\ examined = index + 1 .. b
                              /\ b < n => b > index /\ b \in there
  BY ExaminedForward
<1>3. /\ reached = {} => l = index
      /\ reached # {} => l \in reached /\ reached \ {l} \subseteq Nearer(1, l)
  <2>1. 1 \in {-1, 1} /\ entries[index].path = here
    BY DEF CurrentIsHere
  <2> QED
    BY <2>1, LandingStays
<1>4. reached = examined \cap there /\ Dropped(1, count, missing) = examined \ there
  BY DEF Reached, Dropped
<1>5. \A k \in 1 .. n : k \in there <=> p[k] \notin gone
  BY <1>1 DEF There
<1>6. \A k \in Nearer(1, l) : 1 * (l - k) > 0
  BY DEF Nearer
<1> HIDE DEF p, n, gone, l, examined, reached, there
<1>7. Dropped(1, count, missing) = {k \in index + 1 .. b : p[k] \in gone}
  <2>1. \A k \in index + 1 .. b : k \in 1 .. n
    BY <1>1, <1>2
  <2> QED
    BY <1>2, <1>4, <1>5, <2>1
<1>8. l \in index .. b /\ (l = index => reached = {}) /\ (l # index => l \in reached)
  BY <1>1, <1>2, <1>3, <1>4
<1>9. l = index => b = n
  <2> SUFFICES ASSUME l = index, b # n PROVE FALSE
    OBVIOUS
  <2>1. b < n /\ b \in index + 1 .. b
    BY <1>1, <1>2
  <2> QED
    BY <1>2, <1>4, <1>8, <2>1
<1>10. l # index => p[l] \notin gone
  <2>1. l # index => l \in there /\ l \in 1 .. n
    BY <1>1, <1>2, <1>4, <1>8
  <2> QED
    BY <1>5, <2>1
<1>11. ASSUME NEW k \in l + 1 .. b PROVE p[k] \in gone
  <2> SUFFICES ASSUME k \in there PROVE FALSE
    BY <1>1, <1>2, <1>5, <1>8
  <2>1. k \in index + 1 .. b /\ k > l /\ l \in Int /\ k \in Int
    BY <1>1, <1>2, <1>8
  <2>2. k \in reached
    BY <1>2, <1>4, <2>1
  <2>3. k \in Nearer(1, l)
    BY <1>3, <2>1, <2>2
  <2> QED
    BY <1>6, <2>1, <2>3
<1>12. b < n => l = b
  <2> SUFFICES ASSUME b < n, l # b PROVE FALSE
    OBVIOUS
  <2>1. b \in l + 1 .. b /\ b \in 1 .. n
    BY <1>1, <1>2, <1>8
  <2> QED
    BY <1>2, <1>5, <1>11, <2>1
<1>13. PassedForth(p, index, b, gone, l)
  BY <1>1, <1>2, <1>8, <1>9, <1>10, <1>11, <1>12 DEF PassedForth
<1> QED
  BY <1>7, <1>13 DEF p, n, gone, l

\* and what going back passes.
LEMMA BackPasses ==
  ASSUME JumpListTypeOK, CurrentIsHere, index # 0, NEW count \in Nat, NEW missing
  PROVE  LET p == PathsOf(entries)
             gone == missing \cap Paths IN
         \E a \in 0 .. index - 1 :
           /\ PassedBack(p, index, a, gone, Landing(-1, count, missing))
           /\ Dropped(-1, count, missing) = {k \in a + 1 .. index - 1 : p[k] \in gone}
<1> DEFINE p == PathsOf(entries)
           n == Len(entries)
           gone == missing \cap Paths
           l == Landing(-1, count, missing)
           examined == Examined(-1, count, missing)
           reached == Reached(-1, count, missing)
           there == There(missing)
<1>1. /\ p \in Seq(Paths) /\ Len(p) = n /\ n \in Nat /\ DOMAIN entries = 1 .. n /\ index \in 1 .. n
      /\ \A k \in 1 .. n : p[k] = entries[k].path /\ p[k] \in Paths
  <2>1. entries \in Seq(Entry) /\ index \in DOMAIN entries
    BY DEF JumpListTypeOK
  <2> QED
    BY <2>1, PathsOfSeq
<1>2. PICK a \in 0 .. index - 1 : /\ examined = a + 1 .. index - 1
                                  /\ a > 0 => a + 1 < index /\ a + 1 \in there
  BY ExaminedBack
<1>3. /\ reached = {} => l = index
      /\ reached # {} => l \in reached /\ reached \ {l} \subseteq Nearer(-1, l)
  <2>1. -1 \in {-1, 1} /\ entries[index].path = here
    BY DEF CurrentIsHere
  <2> QED
    BY <2>1, LandingStays
<1>4. reached = examined \cap there /\ Dropped(-1, count, missing) = examined \ there
  BY DEF Reached, Dropped
<1>5. \A k \in 1 .. n : k \in there <=> p[k] \notin gone
  BY <1>1 DEF There
<1>6. l \in Int => \A k \in Nearer(-1, l) : k > l
  <2> HIDE DEF l
  <2>1. \A k \in Ahead(-1) : k \in Int
    BY <1>1 DEF Ahead
  <2> QED
    BY <2>1 DEF Nearer
<1> HIDE DEF p, n, gone, l, examined, reached, there
<1>7. Dropped(-1, count, missing) = {k \in a + 1 .. index - 1 : p[k] \in gone}
  <2>1. \A k \in a + 1 .. index - 1 : k \in 1 .. n
    BY <1>1, <1>2
  <2> QED
    BY <1>2, <1>4, <1>5, <2>1
<1>8. l \in a + 1 .. index /\ (l = index => reached = {}) /\ (l # index => l \in reached)
  BY <1>1, <1>2, <1>3, <1>4
<1>9. l = index => a = 0
  <2> SUFFICES ASSUME l = index, a # 0 PROVE FALSE
    OBVIOUS
  <2>1. a > 0 /\ (a + 1 < index => a + 1 \in a + 1 .. index - 1)
    BY <1>1, <1>2
  <2> QED
    BY <1>2, <1>4, <1>8, <2>1
<1>10. l # index => p[l] \notin gone
  <2>1. l # index => l \in there /\ l \in 1 .. n
    BY <1>1, <1>2, <1>4, <1>8
  <2> QED
    BY <1>5, <2>1
<1>11. ASSUME NEW k \in a + 1 .. l - 1 PROVE p[k] \in gone
  <2>1. k \in a + 1 .. index - 1 /\ k < l /\ l \in Int /\ k \in Int /\ k \in 1 .. n
    BY <1>1, <1>2, <1>8
  <2> SUFFICES ASSUME k \in there PROVE FALSE
    BY <1>5, <2>1
  <2>2. k \in reached
    BY <1>2, <1>4, <2>1
  <2>3. k \in Nearer(-1, l)
    BY <1>3, <2>1, <2>2
  <2> QED
    BY <1>6, <2>1, <2>3
<1>12. a > 0 => l = a + 1
  <2> SUFFICES ASSUME a > 0, l # a + 1 PROVE FALSE
    OBVIOUS
  <2>1. a + 1 \in a + 1 .. l - 1 /\ a + 1 \in 1 .. n
    BY <1>1, <1>2, <1>8
  <2> QED
    BY <1>2, <1>5, <1>11, <2>1
<1>13. PassedBack(p, index, a, gone, l)
  BY <1>1, <1>2, <1>8, <1>9, <1>10, <1>11, <1>12 DEF PassedBack
<1> QED
  BY <1>7, <1>13 DEF p, n, gone, l

\* Going forth in the list is going forward in the history, or nothing.
LEMMA ForthIsForward ==
  ASSUME EntriesAreTrue, NEW count \in Nat, NEW name \in Names \cup {NoName},
         NEW missing, Traverse(1, count, name, missing)
  PROVE  History!Forward \/ UNCHANGED History!history
<1> DEFINE p == PathsOf(entries)
           n == Len(entries)
           gone == missing \cap Paths
           l == Landing(1, count, missing)
           D == Dropped(1, count, missing)
           A == SubSeq(PathsOf(entries), index + 1, Len(entries))
           B == SubSeq(PathsOf(entries), 1, index - 1)
           q == Without(p, D)
           j == Position(l, D)
<1>1. JumpListTypeOK /\ CurrentIsHere /\ index # 0 /\ 1 \in {-1, 1}
  BY DEF EntriesAreTrue, Traverse
<1>2. /\ p \in Seq(Paths) /\ Len(p) = n /\ n \in Nat /\ DOMAIN entries = 1 .. n /\ index \in 1 .. n
      /\ \A k \in 1 .. n : p[k] = entries[k].path /\ p[k] \in Paths
  <2>1. entries \in Seq(Entry) /\ index \in DOMAIN entries
    BY <1>1 DEF JumpListTypeOK
  <2> QED
    BY <2>1, PathsOfSeq
<1>3. here = p[index]
  BY <1>1, <1>2 DEF CurrentIsHere
<1>4. PICK b \in index .. n : PassedForth(p, index, b, gone, l) /\ D = {k \in index + 1 .. b : p[k] \in gone}
  BY <1>1, ForthPasses
<1>5. PathsOf(entries') = q /\ Len(entries') = Len(q) /\ index' = j /\ here' = p[l]
  <2>1. Leave(name) \in Seq(Entry) /\ DOMAIN Leave(name) = DOMAIN entries
    BY <1>1, LeaveKeepsPaths
  <2>2. PathsOf(Leave(name)) = p
    BY <1>1, PathsOfLeave
  <2>3. D \in SUBSET DOMAIN entries /\ l \in DOMAIN entries
    <3>1. entries[index].path = here
      BY <1>1 DEF CurrentIsHere
    <3> QED
      BY <1>1, <3>1, LandingStays
  <2>4. entries' = Without(Leave(name), D) /\ index' = j /\ here' = entries[l].path
    BY DEF Traverse, Shifted
  <2> HIDE DEF p, D, q, l
  <2>5. PathsOf(Without(Leave(name), D)) = Without(PathsOf(Leave(name)), D)
    BY <2>1, <2>3, PathsOfWithout
  <2>6. PathsOf(entries') = q
    BY <2>2, <2>4, <2>5 DEF q
  <2>7. entries' \in Seq(Entry)
    BY <2>1, <2>3, <2>4, WithoutIsCompact
  <2>8. Len(PathsOf(entries')) = Len(entries')
    BY <2>7, PathsOfSeq
  <2> QED
    BY <1>2, <2>3, <2>4, <2>6, <2>8
<1>6. A' = SubSeq(q, j + 1, Len(q)) /\ B' = SubSeq(q, 1, j - 1)
  BY <1>5
<1>7. A = SubSeq(p, index + 1, Len(p)) /\ B = SubSeq(p, 1, index - 1)
  BY <1>2
<1> DEFINE m == b - index
           seg == SubSeq(A, 1, m)
           passed == Without(seg, {k \in DOMAIN seg : seg[k] \in gone})
           rest == SubSeq(A, m + 1, Len(A))
<1>8. /\ l = index => /\ passed = <<>> /\ rest = <<>> /\ B' = B /\ A' = <<>>
      /\ l # index => /\ passed # <<>> /\ passed[Len(passed)] = p[l] /\ A' = rest
                      /\ B' = B \o <<p[index]>> \o SubSeq(passed, 1, Len(passed) - 1)
  <2> HIDE DEF p, l, D, gone
  <2>1. LeftForth(p, index, b, gone, l)
    BY <1>2, <1>4, ForwardLeavesOut
  <2> QED
    BY <1>4, <1>6, <1>7, <2>1 DEF LeftForth
<1> HIDE DEF p, n, gone, l, D, q, j, A, B
<1>9. A \in Seq(Paths) /\ Len(A) = n - index /\ \A k \in 1 .. n - index : A[k] = p[index + k]
  <2>1. index + 1 \in Int /\ n \in Int /\ 1 <= index + 1 /\ index + 1 <= n + 1 /\ n <= Len(p)
    BY <1>2
  <2>2. /\ A \in Seq(Paths) /\ Len(A) = n - (index + 1) + 1
        /\ \A k \in 1 .. n - (index + 1) + 1 : A[k] = p[(index + 1) + k - 1]
    BY <1>2, <1>7, <2>1, PartOfSequence
  <2>3. n - (index + 1) + 1 = n - index /\ \A k \in 1 .. n - index : (index + 1) + k - 1 = index + k
    BY <1>2
  <2> QED
    BY <2>2, <2>3
<1>10. m \in 0 .. Len(A) /\ (l = index => m = Len(A)) /\ (m < Len(A) => l = b) /\ (m = 0 => l = index)
  <2>1. l \in index .. b /\ (l = index => b = n) /\ (b < n => l = b)
    BY <1>2, <1>4 DEF PassedForth
  <2> QED
    BY <1>2, <1>4, <1>9, <2>1
<1>11. seg \in Seq(Paths)
  <2>1. m \in Int /\ 1 <= m + 1 /\ m <= Len(A)
    BY <1>9, <1>10
  <2> HIDE DEF m
  <2> QED
    BY <1>9, <2>1, PartOfSequence
<1>12. History!Only(seg, Paths \ gone) = passed
  <2> HIDE DEF seg
  <2>1. \A k \in DOMAIN seg : seg[k] \in Paths
    BY <1>11
  <2>2. {k \in DOMAIN seg : seg[k] \notin Paths \ gone} = {k \in DOMAIN seg : seg[k] \in gone}
    BY <2>1
  <2> QED
    BY <2>2, OnlyIsWithout
<1>13. l # index => rest = <<>> \/ A[m] \notin gone
  <2>1. CASE m = Len(A)
    BY <1>9, <2>1, SubSeqEmpty
  <2>2. ASSUME m < Len(A), l # index PROVE A[m] \notin gone
    <3>1. l = b /\ m \in 1 .. n - index /\ index + m = b
      BY <1>2, <1>4, <1>9, <1>10, <2>2
    <3>2. p[l] \notin gone
      BY <1>4, <2>2 DEF PassedForth
    <3> QED
      BY <1>9, <3>1, <3>2
  <2> QED
    BY <1>9, <1>10, <2>1, <2>2
<1>14. CASE m = 0
  <2>1. l = index /\ A = <<>>
    BY <1>9, <1>10, <1>14
  <2>2. A' = A /\ B' = B /\ here' = here
    BY <1>3, <1>5, <1>8, <2>1
  <2> QED
    BY <2>2 DEF A, B, History!history
<1>15. CASE m # 0
  <2>1. m \in 1 .. Len(A) /\ gone \in SUBSET Paths
    BY <1>9, <1>10, <1>15 DEF gone
  <2>2. ASSUME l = index
        PROVE  /\ History!Only(seg, Paths \ gone) = <<>> /\ rest = <<>>
               /\ A' = <<>> /\ UNCHANGED <<here, B>>
    BY <1>3, <1>5, <1>8, <1>12, <2>2
  <2>3. ASSUME l # index
        PROVE  /\ History!Only(seg, Paths \ gone) # <<>> /\ A' = rest
               /\ here' = History!Last(History!Only(seg, Paths \ gone))
               /\ B' = B \o <<here>> \o History!Front(History!Only(seg, Paths \ gone))
               /\ rest = <<>> \/ A[m] \notin gone
    <3> HIDE DEF passed, rest, seg, m
    <3> QED
      BY <1>3, <1>5, <1>8, <1>12, <1>13, <2>3 DEF History!Last, History!Front
  <2> HIDE DEF m
  <2>4. \E k \in 1 .. Len(A), lost \in SUBSET Paths :
          LET beyond == SubSeq(A, k + 1, Len(A))
              found == History!Only(SubSeq(A, 1, k), Paths \ lost) IN
          IF found = <<>>
          THEN beyond = <<>> /\ A' = <<>> /\ UNCHANGED <<here, B>>
          ELSE /\ A' = beyond /\ here' = History!Last(found)
               /\ B' = B \o <<here>> \o History!Front(found)
               /\ beyond = <<>> \/ A[k] \notin lost
    <3> USE <2>1
    <3> WITNESS m \in 1 .. Len(A), gone \in SUBSET Paths
    <3> QED
      BY <2>2, <2>3
  <2> QED
    BY <2>4 DEF A, B, History!Forward
<1> QED
  BY <1>14, <1>15

\* Going back in the list is going back in the history, or nothing.
LEMMA BackIsBack ==
  ASSUME EntriesAreTrue, NEW count \in Nat, NEW name \in Names \cup {NoName},
         NEW missing, Traverse(-1, count, name, missing)
  PROVE  History!Back \/ UNCHANGED History!history
<1> DEFINE p == PathsOf(entries)
           n == Len(entries)
           gone == missing \cap Paths
           l == Landing(-1, count, missing)
           D == Dropped(-1, count, missing)
           A == SubSeq(PathsOf(entries), index + 1, Len(entries))
           B == SubSeq(PathsOf(entries), 1, index - 1)
           q == Without(p, D)
           j == Position(l, D)
<1>1. JumpListTypeOK /\ CurrentIsHere /\ index # 0 /\ -1 \in {-1, 1}
  BY DEF EntriesAreTrue, Traverse
<1>2. /\ p \in Seq(Paths) /\ Len(p) = n /\ n \in Nat /\ DOMAIN entries = 1 .. n /\ index \in 1 .. n
      /\ \A k \in 1 .. n : p[k] = entries[k].path /\ p[k] \in Paths
  <2>1. entries \in Seq(Entry) /\ index \in DOMAIN entries
    BY <1>1 DEF JumpListTypeOK
  <2> QED
    BY <2>1, PathsOfSeq
<1>3. here = p[index]
  BY <1>1, <1>2 DEF CurrentIsHere
<1>4. PICK a \in 0 .. index - 1 : PassedBack(p, index, a, gone, l) /\ D = {k \in a + 1 .. index - 1 : p[k] \in gone}
  BY <1>1, BackPasses
<1>5. PathsOf(entries') = q /\ Len(entries') = Len(q) /\ index' = j /\ here' = p[l]
  <2>1. Leave(name) \in Seq(Entry) /\ DOMAIN Leave(name) = DOMAIN entries
    BY <1>1, LeaveKeepsPaths
  <2>2. PathsOf(Leave(name)) = p
    BY <1>1, PathsOfLeave
  <2>3. D \in SUBSET DOMAIN entries /\ l \in DOMAIN entries
    <3>1. entries[index].path = here
      BY <1>1 DEF CurrentIsHere
    <3> QED
      BY <1>1, <3>1, LandingStays
  <2>4. entries' = Without(Leave(name), D) /\ index' = j /\ here' = entries[l].path
    BY DEF Traverse, Shifted
  <2> HIDE DEF p, D, q, l
  <2>5. PathsOf(Without(Leave(name), D)) = Without(PathsOf(Leave(name)), D)
    BY <2>1, <2>3, PathsOfWithout
  <2>6. PathsOf(entries') = q
    BY <2>2, <2>4, <2>5 DEF q
  <2>7. entries' \in Seq(Entry)
    BY <2>1, <2>3, <2>4, WithoutIsCompact
  <2>8. Len(PathsOf(entries')) = Len(entries')
    BY <2>7, PathsOfSeq
  <2> QED
    BY <1>2, <2>3, <2>4, <2>6, <2>8
<1>6. A' = SubSeq(q, j + 1, Len(q)) /\ B' = SubSeq(q, 1, j - 1)
  BY <1>5
<1>7. A = SubSeq(p, index + 1, Len(p)) /\ B = SubSeq(p, 1, index - 1)
  BY <1>2
<1> DEFINE m == (index - 1) - a
           left == Len(B) - m
           seg == SubSeq(B, left + 1, Len(B))
           passed == Without(seg, {k \in DOMAIN seg : seg[k] \in gone})
           rest == SubSeq(B, 1, left)
<1>8. /\ l = index => /\ passed = <<>> /\ rest = <<>> /\ B' = <<>> /\ A' = A
      /\ l # index => /\ passed # <<>> /\ passed[1] = p[l] /\ B' = rest
                      /\ A' = SubSeq(passed, 2, Len(passed)) \o <<p[index]>> \o A
  <2> HIDE DEF p, l, D, gone
  <2>1. LeftBack(p, index, a, gone, l)
    BY <1>2, <1>4, BackLeavesOut
  <2> QED
    BY <1>4, <1>6, <1>7, <2>1 DEF LeftBack
<1> HIDE DEF p, n, gone, l, D, q, j, A, B
<1>9. B \in Seq(Paths) /\ Len(B) = index - 1 /\ \A k \in 1 .. index - 1 : B[k] = p[k]
  <2>1. 1 \in Int /\ index - 1 \in Int /\ 1 <= 1 /\ 1 <= (index - 1) + 1 /\ index - 1 <= Len(p)
    BY <1>2
  <2>2. /\ B \in Seq(Paths) /\ Len(B) = (index - 1) - 1 + 1
        /\ \A k \in 1 .. (index - 1) - 1 + 1 : B[k] = p[1 + k - 1]
    BY <1>2, <1>7, <2>1, PartOfSequence
  <2>3. (index - 1) - 1 + 1 = index - 1 /\ \A k \in 1 .. index - 1 : 1 + k - 1 = k
    BY <1>2
  <2> QED
    BY <2>2, <2>3
<1>10. /\ m \in 0 .. Len(B) /\ left = a /\ a \in 0 .. Len(B)
       /\ (l = index => a = 0) /\ (a > 0 => l = a + 1) /\ (m = 0 => l = index)
  <2>1. l \in a + 1 .. index /\ (l = index => a = 0) /\ (a > 0 => l = a + 1)
    BY <1>2, <1>4 DEF PassedBack
  <2> QED
    BY <1>2, <1>4, <1>9, <2>1
<1>11. seg \in Seq(Paths)
  <2> HIDE DEF left, m
  <2>1. Len(B) \in Nat /\ left \in Nat /\ left <= Len(B)
    BY <1>9, <1>10
  <2>2. left + 1 \in Int /\ 1 <= left + 1 /\ left + 1 <= Len(B) + 1
    BY <2>1
  <2> QED
    BY <1>9, <2>1, <2>2, PartOfSequence
<1>12. History!Only(seg, Paths \ gone) = passed
  <2> HIDE DEF seg
  <2>1. \A k \in DOMAIN seg : seg[k] \in Paths
    BY <1>11
  <2>2. {k \in DOMAIN seg : seg[k] \notin Paths \ gone} = {k \in DOMAIN seg : seg[k] \in gone}
    BY <2>1
  <2> QED
    BY <2>2, OnlyIsWithout
<1>13. l # index => rest = <<>> \/ B[left + 1] \notin gone
  <2>1. CASE a = 0
    BY <1>9, <1>10, <2>1, SubSeqEmpty
  <2>2. ASSUME a > 0, l # index PROVE B[left + 1] \notin gone
    <3>1. l = left + 1 /\ left + 1 \in 1 .. index - 1
      BY <1>2, <1>4, <1>9, <1>10, <2>2 DEF PassedBack
    <3>2. p[l] \notin gone
      BY <1>4, <2>2 DEF PassedBack
    <3> QED
      BY <1>9, <3>1, <3>2
  <2> QED
    BY <1>9, <1>10, <2>1, <2>2
<1>14. CASE m = 0
  <2>1. l = index /\ B = <<>>
    BY <1>9, <1>10, <1>14
  <2>2. A' = A /\ B' = B /\ here' = here
    BY <1>3, <1>5, <1>8, <2>1
  <2> QED
    BY <2>2 DEF A, B, History!history
<1>15. CASE m # 0
  <2>1. m \in 1 .. Len(B) /\ gone \in SUBSET Paths
    BY <1>9, <1>10, <1>15 DEF gone
  <2>2. ASSUME l = index
        PROVE  /\ History!Only(seg, Paths \ gone) = <<>> /\ rest = <<>>
               /\ B' = <<>> /\ UNCHANGED <<here, A>>
    BY <1>3, <1>5, <1>8, <1>12, <2>2
  <2>3. ASSUME l # index
        PROVE  /\ History!Only(seg, Paths \ gone) # <<>> /\ B' = rest
               /\ here' = Head(History!Only(seg, Paths \ gone))
               /\ A' = Tail(History!Only(seg, Paths \ gone)) \o <<here>> \o A
               /\ rest = <<>> \/ B[left + 1] \notin gone
    <3>1. passed \in Seq(Paths)
      <4> HIDE DEF seg
      <4> QED
        BY <1>11, WithoutIsCompact
    <3> HIDE DEF passed, rest, seg, m, left
    <3>2. passed # <<>>
      BY <1>8, <2>3
    <3>3. Tail(passed) = SubSeq(passed, 2, Len(passed)) /\ Head(passed) = passed[1]
      BY <3>1, <3>2, TailIsSubSeq
    <3> QED
      BY <1>3, <1>5, <1>8, <1>12, <1>13, <2>3, <3>3
  <2> HIDE DEF m
  <2>4. \E k \in 1 .. Len(B), lost \in SUBSET Paths :
          LET beyond == SubSeq(B, 1, Len(B) - k)
              found == History!Only(SubSeq(B, Len(B) - k + 1, Len(B)), Paths \ lost) IN
          IF found = <<>>
          THEN beyond = <<>> /\ B' = <<>> /\ UNCHANGED <<here, A>>
          ELSE /\ B' = beyond /\ here' = Head(found)
               /\ A' = Tail(found) \o <<here>> \o A
               /\ beyond = <<>> \/ B[Len(B) - k + 1] \notin lost
    <3> USE <2>1
    <3> WITNESS m \in 1 .. Len(B), gone \in SUBSET Paths
    <3> QED
      BY <2>2, <2>3
  <2> QED
    BY <2>4 DEF A, B, History!Back
<1> QED
  BY <1>14, <1>15

\* A visit is one of the history's, or nothing, and before the first there is nothing.
LEMMA VisitIsOfHistory ==
  ASSUME EntriesAreTrue, NothingBeforeVisit, NEW path \in Paths,
         NEW name \in Names \cup {NoName}, Visit(path, name)
  PROVE  NothingBeforeVisit' /\ (History!Visit(path) \/ UNCHANGED History!history)
<1>1. CASE IsCurrent(path)
  <2>1. UNCHANGED <<entries, index>> /\ here' = path /\ index # 0 /\ entries[index].path = path
    BY <1>1 DEF Visit, IsCurrent
  <2>2. here = path
    BY <2>1 DEF EntriesAreTrue, CurrentIsHere
  <2> QED
    BY <2>1, <2>2 DEF NothingBeforeVisit, History!history
<1>2. CASE ~IsCurrent(path)
  <2> DEFINE kept == Without(Leave(name), {i \in DOMAIN entries : entries[i].path = path})
             last == [path |-> path, name |-> NoName]
  <2>1. index' = Len(Evict(Append(kept, last)))
    BY <1>2 DEF Visit, Visited
  <2>2. kept \in Seq(Entry)
    <3>1. Leave(name) \in Seq(Entry) /\ DOMAIN Leave(name) = DOMAIN entries
      BY LeaveKeepsPaths DEF EntriesAreTrue
    <3> QED
      BY <3>1, WithoutIsCompact
  <2> HIDE DEF kept, last
  <2>3. Append(kept, last) # <<>> /\ Len(Append(kept, last)) = Len(kept) + 1 /\ Len(kept) \in Nat
    BY <2>2
  <2>4. Len(Tail(Append(kept, last))) = Len(kept)
    BY <2>2
  <2>5. index' # 0
    BY <2>1, <2>3, <2>4, JumpListAssumption DEF Evict
  <2> QED
    BY <1>2, <2>5, VisitIsAVisit DEF NothingBeforeVisit
<1> QED
  BY <1>1, <1>2

\* So is going back and forth.
LEMMA TraverseIsOfHistory ==
  ASSUME EntriesAreTrue, NEW direction \in {-1, 1}, NEW count \in Nat,
         NEW name \in Names \cup {NoName}, NEW missing, Traverse(direction, count, name, missing)
  PROVE  NothingBeforeVisit' /\ (History!Back \/ History!Forward \/ UNCHANGED History!history)
<1> DEFINE l == Landing(direction, count, missing)
           D == Dropped(direction, count, missing)
<1>1. index' = Position(l, D) /\ index # 0
  BY DEF Traverse, Shifted
<1>2. JumpListTypeOK /\ entries[index].path = here
  BY <1>1 DEF EntriesAreTrue, CurrentIsHere
<1>3. D \in SUBSET DOMAIN entries /\ l \in DOMAIN entries \ D
  BY <1>1, <1>2, LandingStays
<1> HIDE DEF l, D
<1>4. index' # 0
  <2>1. entries \in Seq(Entry)
    BY <1>2 DEF JumpListTypeOK
  <2>2. Without(entries, D) \in Seq(Entry) /\ Position(l, D) \in DOMAIN Without(entries, D)
    BY <1>3, <2>1, WithoutIsCompact
  <2>3. DOMAIN Without(entries, D) = 1 .. Len(Without(entries, D))
    BY <2>2
  <2> QED
    BY <1>1, <2>2, <2>3
<1>5. CASE direction = 1
  <2>1. Traverse(1, count, name, missing)
    BY <1>5
  <2>2. History!Forward \/ UNCHANGED History!history
    BY <2>1, ForthIsForward
  <2> QED
    BY <1>4, <2>2 DEF NothingBeforeVisit
<1>6. CASE direction = -1
  <2>1. Traverse(-1, count, name, missing)
    BY <1>6
  <2>2. History!Back \/ UNCHANGED History!history
    BY <2>1, BackIsBack
  <2> QED
    BY <1>4, <2>2 DEF NothingBeforeVisit
<1> QED
  BY <1>5, <1>6

\* At first nothing is behind the user or before him.
LEMMA HistoryStartsEmpty == JumpListInit => NothingBeforeVisit /\ History!Init
<1> SUFFICES ASSUME JumpListInit PROVE NothingBeforeVisit /\ History!Init
  OBVIOUS
<1>1. entries = <<>> /\ index = 0 /\ here = NoPath
  BY DEF JumpListInit
<1>2. Len(entries) = 0 /\ index - 1 < 1 /\ Len(entries) < index + 1
  BY <1>1
<1>3. SubSeq(PathsOf(entries), 1, index - 1) = <<>> /\ SubSeq(PathsOf(entries), index + 1, Len(entries)) = <<>>
  BY <1>1, <1>2, SubSeqEmpty
<1> QED
  BY <1>1, <1>3 DEF NothingBeforeVisit, History!Init

\* The list does what the history promises: nothing is forgotten but what has gone and
\* is passed and the oldest, and nothing changes places but what is visited anew
\* (recordVisit, traverse).
THEOREM JumpListKeepsHistory == JumpListSpec => KeepsHistory
<1>1. EntriesAreTrue /\ NothingBeforeVisit /\ [JumpListNext]_jumps
        => NothingBeforeVisit' /\ [History!Next]_(History!history)
  <2> SUFFICES ASSUME EntriesAreTrue, NothingBeforeVisit, [JumpListNext]_jumps
               PROVE  NothingBeforeVisit' /\ [History!Next]_(History!history)
    OBVIOUS
  <2>1. CASE UNCHANGED jumps
    BY <2>1 DEF jumps, NothingBeforeVisit, History!history
  <2>2. ASSUME NEW name \in Names \cup {NoName}, NEW path \in Paths, Visit(path, name)
        PROVE  NothingBeforeVisit' /\ [History!Next]_(History!history)
    <3>1. NothingBeforeVisit' /\ (History!Visit(path) \/ UNCHANGED History!history)
      BY <2>2, VisitIsOfHistory
    <3> QED
      BY <3>1 DEF History!Next
  <2>3. ASSUME NEW name \in Names \cup {NoName}, NEW direction \in {-1, 1}, NEW count \in 0 .. MaxCount,
               NEW missing, Traverse(direction, count, name, missing)
        PROVE  NothingBeforeVisit' /\ [History!Next]_(History!history)
    <3>1. NothingBeforeVisit' /\ (History!Back \/ History!Forward \/ UNCHANGED History!history)
      BY <2>3, TraverseIsOfHistory
    <3> QED
      BY <3>1 DEF History!Next
  <2> QED
    BY <2>1, <2>2, <2>3 DEF JumpListNext
<1> QED
  BY <1>1, HistoryStartsEmpty, JumpListIsTrue, PTL DEF JumpListSpec, KeepsHistory, History!Spec

-----------------------------------------------------------------------------
(* The sidebar.  Answers that overtake each other do no harm because each  *)
(* generation of a row has one check, and the newest generation's alone is *)
(* heard.                                                                  *)

\* Every generation of a row is checked once.
OneCheck ==
  \A c, d \in checks : c.row = d.row /\ c.generation = d.generation => c = d

\* What the newest check of a row has found is in its answer.
AnswerIsFound ==
  \A c \in checks : c.generation = recheck[c.row] => answer[c.row] = c.found

\* No check is of a generation that has not come yet, and only bookmarks have more
\* than the one of startup.
PastOnly ==
  /\ \A c \in checks : c.generation <= recheck[c.row]
  /\ \A r \in Rows \ Bookmarks : recheck[r] = 0

\* Before the check of startup has been delivered, a row says nothing.
StartupFirst ==
  \A c \in checks : recheck[c.row] = 0 /\ c.row \in DOMAIN status => status[c.row] = "checking"

SidebarInv == PlacesTypeOK /\ OneCheck /\ AnswerIsFound /\ PastOnly /\ StartupFirst /\ NewestDecides /\ OriginsKept

\* At the start each row has one check, and none has been found out about.
LEMMA SidebarInitGood == PlacesInit => SidebarInv
<1> SUFFICES ASSUME PlacesInit PROVE SidebarInv
  OBVIOUS
<1> USE DEF PlacesInit, Startup
<1>1. PlacesTypeOK
  BY PlacesAssumption DEF PlacesTypeOK
<1>2. OneCheck /\ AnswerIsFound /\ PastOnly /\ StartupFirst
  BY DEF OneCheck, AnswerIsFound, PastOnly, StartupFirst, Rows
<1>3. NewestDecides
  <2>1. \A r \in Bookmarks : Startup(r) \in checks /\ recheck[r] = 0
    BY DEF Rows
  <2> QED
    BY <2>1 DEF NewestDecides, Waiting
<1>4. OriginsKept
  BY DEF OriginsKept, Rows
<1> QED
  BY <1>1, <1>2, <1>3, <1>4 DEF SidebarInv

\* Directories come and go.
LEMMA ChangeKeeps == ASSUME SidebarInv, NEW r \in Rows, Change(r) PROVE SidebarInv'
BY DEF SidebarInv, PlacesTypeOK, OneCheck, AnswerIsFound, PastOnly, StartupFirst, NewestDecides, Waiting, OriginsKept,
   Change

\* A check finds out what is there.
LEMMA AnswerKeeps == ASSUME SidebarInv, NEW c \in checks, Answer(c) PROVE SidebarInv'
<1> DEFINE d == [c EXCEPT !.found = Found(c.row)]
<1>1. /\ c.row \in Rows /\ c.generation \in 0 .. MaxRechecks /\ c.found = "pending"
      /\ d \in [row : Rows, generation : 0 .. MaxRechecks, found : {"yes", "no"}]
      /\ d.row = c.row /\ d.generation = c.generation /\ d.found = Found(c.row)
  BY DEF SidebarInv, PlacesTypeOK, Answer, Found
<1>2. checks' = (checks \ {c}) \cup {d} /\ UNCHANGED <<status, recheck, reachable>>
  BY DEF Answer
<1>3. PlacesTypeOK'
  BY <1>1, <1>2 DEF SidebarInv, PlacesTypeOK, Answer
<1>4. OneCheck'
  BY <1>1, <1>2 DEF SidebarInv, OneCheck
<1>5. AnswerIsFound'
  <2> SUFFICES ASSUME NEW e \in checks', e.generation = recheck[e.row] PROVE answer'[e.row] = e.found
    BY <1>2 DEF AnswerIsFound
  <2>1. CASE e = d
    BY <1>1, <2>1 DEF SidebarInv, PlacesTypeOK, Answer
  <2>2. CASE e # d
    <3>1. e \in checks /\ e # c
      BY <1>2, <2>2
    <3>2. ~(e.row = c.row /\ e.generation = c.generation)
      BY <3>1 DEF SidebarInv, OneCheck
    <3>3. answer'[e.row] = answer[e.row]
      BY <1>1, <3>1, <3>2 DEF SidebarInv, PlacesTypeOK, Answer
    <3> QED
      BY <3>1, <3>3 DEF SidebarInv, AnswerIsFound
  <2> QED
    BY <2>1, <2>2
<1>6. PastOnly' /\ StartupFirst'
  BY <1>1, <1>2 DEF SidebarInv, PastOnly, StartupFirst
<1>7. NewestDecides'
  <2> SUFFICES ASSUME NEW r \in Bookmarks, ~Waiting(r)'
               PROVE  status[r] = IF answer'[r] = "yes" THEN "available" ELSE "unavailable"
    BY <1>2 DEF NewestDecides
  <2>1. ~Waiting(r) /\ ~(c.row = r /\ c.generation = recheck[r])
    BY <1>1, <1>2 DEF Waiting
  <2>2. answer'[r] = answer[r]
    BY <1>1, <2>1 DEF SidebarInv, PlacesTypeOK, Answer, Rows
  <2> QED
    BY <2>1, <2>2 DEF SidebarInv, NewestDecides
<1>8. OriginsKept'
  BY <1>2 DEF SidebarInv, OriginsKept
<1> QED
  BY <1>3, <1>4, <1>5, <1>6, <1>7, <1>8 DEF SidebarInv

\* An answer that is awaited is of the row's one newest check.
LEMMA DeliverKeeps == ASSUME SidebarInv, NEW c \in checks, DeliverResult(c) PROVE SidebarInv'
<1>1. /\ c.row \in Rows /\ c.generation \in 0 .. MaxRechecks /\ c.found \in {"yes", "no"}
      /\ checks' = checks \ {c} /\ UNCHANGED <<recheck, reachable, answer>>
  BY DEF SidebarInv, PlacesTypeOK, DeliverResult
<1>2. OneCheck' /\ AnswerIsFound' /\ PastOnly'
  BY <1>1 DEF SidebarInv, OneCheck, AnswerIsFound, PastOnly
<1>3. CASE ~(c.row \in DOMAIN status /\ Awaited(c))
  <2>1. UNCHANGED status
    BY <1>3 DEF DeliverResult
  <2>2. \A r \in Bookmarks : ~Waiting(r)' => ~Waiting(r)
    BY <1>1, <1>3 DEF Waiting, Awaited, SidebarInv, OriginsKept
  <2>3. NewestDecides'
    BY <1>1, <2>1, <2>2 DEF SidebarInv, NewestDecides
  <2>4. PlacesTypeOK' /\ StartupFirst' /\ OriginsKept'
    BY <1>1, <2>1 DEF SidebarInv, PlacesTypeOK, StartupFirst, OriginsKept
  <2> QED
    BY <1>2, <2>3, <2>4 DEF SidebarInv
<1>4. CASE c.row \in DOMAIN status /\ Awaited(c)
  <2>1. status' = Applied(c) /\ c.generation = recheck[c.row] /\ answer[c.row] = c.found
    BY <1>4 DEF DeliverResult, Awaited, SidebarInv, AnswerIsFound
  <2>2. /\ \A r \in DOMAIN status' : r \in DOMAIN status /\ (r # c.row => status'[r] = status[r])
        /\ DOMAIN status \ {c.row} \subseteq DOMAIN status'
        /\ status' = [r \in DOMAIN status' |-> status'[r]]
    BY <1>4, <2>1 DEF Applied, SidebarInv, PlacesTypeOK
  <2>3. c.row \notin Standard => c.row \in DOMAIN status'
    BY <1>4, <2>1 DEF Applied, Removed, SidebarInv, PlacesTypeOK
  <2>4. c.row \in DOMAIN status' =>
          status'[c.row] = IF c.row = Home THEN "available" ELSE Status(c)
    BY <1>4, <2>1 DEF Applied, SidebarInv, PlacesTypeOK
  <2>5. c.row \in Standard /\ c.row \in DOMAIN status' => c.found = "yes"
    BY <1>1, <2>1 DEF Applied, Removed
  <2>6. PlacesTypeOK'
    BY <1>1, <2>2, <2>4 DEF SidebarInv, PlacesTypeOK, Status
  <2>7. StartupFirst'
    <3>1. \A e \in checks' : recheck[e.row] = 0 => e.row # c.row
      <4> SUFFICES ASSUME NEW e \in checks', recheck[e.row] = 0, e.row = c.row PROVE FALSE
        OBVIOUS
      <4>1. e.generation = 0 /\ c.generation = 0
        BY <1>1 DEF SidebarInv, PlacesTypeOK, PastOnly
      <4> QED
        BY <1>1, <4>1 DEF SidebarInv, OneCheck
    <3> QED
      BY <1>1, <2>2, <3>1 DEF SidebarInv, StartupFirst
  <2>8. NewestDecides'
    <3> SUFFICES ASSUME NEW r \in Bookmarks, ~Waiting(r)'
                 PROVE  status'[r] = IF answer[r] = "yes" THEN "available" ELSE "unavailable"
      BY <1>1 DEF NewestDecides
    <3>1. CASE r = c.row
      <4>1. r \in DOMAIN status' /\ r # Home
        BY <2>3, <3>1, PlacesAssumption
      <4> QED
        BY <2>1, <2>4, <3>1, <4>1 DEF Status
    <3>2. CASE r # c.row
      <4>1. ~Waiting(r)
        BY <1>1, <3>2 DEF Waiting
      <4>2. r \in DOMAIN status'
        BY <2>2, <3>2 DEF SidebarInv, OriginsKept
      <4> QED
        BY <2>2, <3>2, <4>1, <4>2 DEF SidebarInv, NewestDecides
    <3> QED
      BY <3>1, <3>2
  <2>9. OriginsKept'
    <3>1. {Home} \cup Bookmarks \subseteq DOMAIN status'
      BY <2>2, <2>3, PlacesAssumption DEF SidebarInv, OriginsKept
    <3>2. ASSUME NEW r \in DOMAIN status' \ Bookmarks PROVE status'[r] # "unavailable"
      <4>1. CASE r = c.row
        BY <1>1, <2>4, <2>5, <4>1, PlacesAssumption DEF Rows, Status
      <4>2. CASE r # c.row
        BY <2>2, <4>2 DEF SidebarInv, OriginsKept
      <4> QED
        BY <4>1, <4>2
    <3> QED
      BY <3>1, <3>2 DEF OriginsKept
  <2> QED
    BY <1>2, <2>6, <2>7, <2>8, <2>9 DEF SidebarInv
<1> QED
  BY <1>3, <1>4

\* The recheck of a bookmark is a new generation, which has an only check.
LEMMA RecheckKeeps == ASSUME SidebarInv, NEW b \in Rows, RecheckBookmark(b) PROVE SidebarInv'
<1> DEFINE d == [row |-> b, generation |-> recheck[b] + 1, found |-> "pending"]
<1>1. /\ b \in Bookmarks /\ checks' = checks \cup {d} /\ UNCHANGED <<status, reachable>>
      /\ d.row = b /\ d.generation = recheck[b] + 1 /\ d.found = "pending"
      /\ recheck[b] \in Nat /\ recheck[b] + 1 \in 0 .. MaxRechecks
  BY PlacesAssumption DEF SidebarInv, PlacesTypeOK, RecheckBookmark
<1>2. /\ recheck' = [recheck EXCEPT ![b] = recheck[b] + 1] /\ answer' = [answer EXCEPT ![b] = "pending"]
      /\ recheck'[b] = recheck[b] + 1 /\ answer'[b] = "pending"
      /\ \A r \in Rows : r # b => recheck'[r] = recheck[r] /\ answer'[r] = answer[r]
  BY DEF SidebarInv, PlacesTypeOK, RecheckBookmark
<1>3. \A c \in checks : c.row \in Rows /\ c.generation \in Int /\ recheck[c.row] \in Int
                        /\ c.generation <= recheck[c.row]
  BY DEF SidebarInv, PlacesTypeOK, PastOnly
<1>4. PlacesTypeOK'
  <2>1. d \in [row : Rows, generation : 0 .. MaxRechecks, found : {"pending", "yes", "no"}]
    BY <1>1
  <2> QED
    BY <1>1, <1>2, <2>1 DEF SidebarInv, PlacesTypeOK
<1>5. OneCheck'
  BY <1>1, <1>3 DEF SidebarInv, OneCheck
<1>6. AnswerIsFound'
  BY <1>1, <1>2, <1>3 DEF SidebarInv, AnswerIsFound
<1>7. PastOnly'
  BY <1>1, <1>2, <1>3 DEF SidebarInv, PastOnly
<1>8. StartupFirst'
  BY <1>1, <1>2, <1>3 DEF SidebarInv, StartupFirst
<1>9. NewestDecides'
  <2> SUFFICES ASSUME NEW r \in Bookmarks, ~Waiting(r)'
               PROVE  status[r] = IF answer'[r] = "yes" THEN "available" ELSE "unavailable"
    BY <1>1 DEF NewestDecides
  <2>1. r # b
    BY <1>1, <1>2 DEF Waiting
  <2>2. ~Waiting(r)
    BY <1>1, <1>2, <2>1 DEF Waiting, Rows
  <2> QED
    BY <1>2, <2>1, <2>2 DEF SidebarInv, NewestDecides, Rows
<1>10. OriginsKept'
  BY <1>1 DEF SidebarInv, OriginsKept
<1> QED
  BY <1>4, <1>5, <1>6, <1>7, <1>8, <1>9, <1>10 DEF SidebarInv

\* Every step keeps the invariant, which holds at every moment.
LEMMA SidebarInvKept == SidebarInv /\ [PlacesNext]_sidebar => SidebarInv'
<1>1. ASSUME SidebarInv, UNCHANGED sidebar PROVE SidebarInv'
  BY <1>1 DEF sidebar, SidebarInv, PlacesTypeOK, OneCheck, AnswerIsFound, PastOnly, StartupFirst, NewestDecides,
              Waiting, OriginsKept
<1> QED
  BY <1>1, ChangeKeeps, RecheckKeeps, AnswerKeeps, DeliverKeeps DEF PlacesNext

LEMMA SidebarInvHolds == PlacesSpec => []SidebarInv
BY SidebarInitGood, SidebarInvKept, PTL DEF PlacesSpec

\* The variables keep their types.
THEOREM SidebarTypesHold == PlacesSpec => []PlacesTypeOK
<1>1. SidebarInv => PlacesTypeOK
  BY DEF SidebarInv
<1> QED
  BY <1>1, SidebarInvHolds, PTL

\* What a bookmark shows is what its newest check has found, in whatever order the
\* answers of several checks come.
THEOREM NewestAnswerDecides == PlacesSpec => []NewestDecides
<1>1. SidebarInv => NewestDecides
  BY DEF SidebarInv
<1> QED
  BY <1>1, SidebarInvHolds, PTL

\* REQ-F-018, REQ-F-020, REQ-C-005: Home and the bookmarks never go, and only
\* bookmarks are shown as unavailable.
THEOREM RowsKeepTheirOrigin == PlacesSpec => []OriginsKept
<1>1. SidebarInv => OriginsKept
  BY DEF SidebarInv
<1> QED
  BY <1>1, SidebarInvHolds, PTL

\* After startup only the answer to a recheck changes what a row shows.
THEOREM OnlyRecheckChanges == PlacesSpec => SettledByRecheck
<1> DEFINE Settled ==
      \A r \in DOMAIN status \cap DOMAIN status' :
        status[r] # "checking" /\ status'[r] # status[r] =>
          r \in Bookmarks /\ recheck[r] > 0 /\ answer[r] # "pending"
<1>1. ASSUME SidebarInv, NEW c \in checks, DeliverResult(c) PROVE Settled
  <2> SUFFICES ASSUME NEW r \in DOMAIN status \cap DOMAIN status', status[r] # "checking",
                      status'[r] # status[r]
               PROVE  r \in Bookmarks /\ recheck[r] > 0 /\ answer[r] # "pending"
    OBVIOUS
  <2>1. r = c.row /\ Awaited(c)
    BY <1>1 DEF DeliverResult, Applied, SidebarInv, PlacesTypeOK
  <2>2. recheck[r] # 0
    BY <1>1, <2>1 DEF SidebarInv, StartupFirst
  <2>3. r \in Rows /\ recheck[r] \in Nat
    BY <1>1 DEF SidebarInv, PlacesTypeOK
  <2>4. r \in Bookmarks
    BY <1>1, <2>2, <2>3 DEF SidebarInv, PastOnly
  <2> QED
    BY <1>1, <2>1, <2>2, <2>3, <2>4 DEF SidebarInv, AnswerIsFound, Awaited, DeliverResult
<1>2. ASSUME [PlacesNext]_sidebar, \A c \in checks : ~DeliverResult(c) PROVE UNCHANGED status
  BY <1>2 DEF PlacesNext, Change, RecheckBookmark, Answer, sidebar
<1>3. SidebarInv /\ [PlacesNext]_sidebar => [Settled]_sidebar
  BY <1>1, <1>2
<1> QED
  BY <1>3, SidebarInvHolds, PTL DEF PlacesSpec, SettledByRecheck

-----------------------------------------------------------------------------
(* Whatever the navigation does with it, the sidebar inside it behaves as  *)
(* Places says; so what is proved of the sidebar holds there too.          *)

\* Every step of the navigation is one of the sidebar or leaves it alone.
LEMMA SidebarStep == [Next]_vars => [PlacesNext]_sidebar
<1> SUFFICES ASSUME [Next]_vars PROVE [PlacesNext]_sidebar
  OBVIOUS
<1>1. CASE UNCHANGED vars
  BY <1>1 DEF vars
<1>2. CASE \E path \in Paths : Start(path)
  BY <1>2 DEF Start
<1>3. CASE Events
  <2>1. ASSUME NEW b \in Bookmarks, ActivateBookmark(b) PROVE PlacesNext
    BY <2>1 DEF ActivateBookmark, PlacesNext, Rows
  <2>2. ASSUME NEW c \in checks, Deliver(c) PROVE PlacesNext
    BY <2>2 DEF Deliver, PlacesNext
  <2>3. ASSUME Checks PROVE PlacesNext
    BY <2>3 DEF Checks, PlacesNext, Rows
  <2>4. ASSUME \E path \in Paths :
                 \/ UserOpens(path) \/ DeviceOpens(path)
                 \/ \E name \in Names \cup {NoName} : AcceptFinderResult(path, name)
        PROVE UNCHANGED sidebar
    BY <2>4 DEF UserOpens, DeviceOpens, AcceptFinderResult
  <2>5. ASSUME NavigateParent \/ Refresh \/ LeaveMode \/ QuickLook \/ Finder \/ Prompt
        PROVE UNCHANGED sidebar
    BY <2>5 DEF NavigateParent, Refresh, LeaveMode, QuickLook, Finder, Prompt
  <2>6. ASSUME NEW direction, NEW count, NEW missing, TraverseHistory(direction, count, missing)
        PROVE UNCHANGED sidebar
    BY <2>6 DEF TraverseHistory
  <2>7. ASSUME NEW names, NEW scans, ListingChanged(names, scans) PROVE UNCHANGED sidebar
    BY <2>7 DEF ListingChanged
  <2>8. ASSUME NEW x, MoveCursor(x) \/ EnterMode(x) \/ Dismiss(x) \/ \E ok \in BOOLEAN : RestoreValidated(x, ok)
        PROVE UNCHANGED sidebar
    BY <2>8 DEF MoveCursor, EnterMode, Dismiss, RestoreValidated
  <2> QED
    BY <1>3, <2>1, <2>2, <2>3, <2>4, <2>5, <2>6, <2>7, <2>8 DEF Events
<1> QED
  BY <1>1, <1>2, <1>3 DEF Next

\* The sidebar of the program is that of Places: PlacesModel hears nothing of what
\* DirectoryController does but recheckBookmark.
THEOREM SidebarInside == Spec => PlacesSpec
<1>1. Init => PlacesInit
  BY DEF Init
<1> QED
  BY <1>1, SidebarStep, PTL DEF Spec, PlacesSpec

\* So what a bookmark shows in the running program is what its newest check found.
THEOREM NewestDecidesInside == Spec => []NewestDecides
BY SidebarInside, NewestAnswerDecides, PTL

-----------------------------------------------------------------------------
(* The rows of a listing.                                                  *)

\* The rows of different entries differ, and there is an entry in every row.
LEMMA RowsInOrder ==
  ASSUME NEW S, IsFiniteSet(S), S \subseteq Nat
  PROVE  /\ Cardinality(S) \in Nat
         /\ \A n \in Nat : RowOf(n, S) \in 0 .. Cardinality(S)
         /\ \A m, n \in S : m < n => RowOf(m, S) < RowOf(n, S)
         /\ \A row \in 0 .. Cardinality(S) - 1 : \E n \in S : RowOf(n, S) = row
<1> DEFINE Before(n) == {m \in S : m < n}
<1>1. Cardinality(S) \in Nat
  BY FS_CardinalityType
<1>2. ASSUME NEW n PROVE /\ IsFiniteSet(Before(n)) /\ RowOf(n, S) \in 0 .. Cardinality(S)
                         /\ RowOf(n, S) = Cardinality(Before(n))
                         /\ RowOf(n, S) = Cardinality(S) => Before(n) = S
  <2>1. Before(n) \in SUBSET S
    OBVIOUS
  <2>2. RowOf(n, S) = Cardinality(Before(n))
    BY DEF RowOf
  <2> HIDE DEF Before
  <2>3. /\ IsFiniteSet(Before(n)) /\ Cardinality(Before(n)) <= Cardinality(S)
        /\ Cardinality(S) = Cardinality(Before(n)) => S = Before(n)
    BY <2>1, FS_Subset
  <2>4. Cardinality(Before(n)) \in Nat
    BY <2>3, FS_CardinalityType
  <2> QED
    BY <1>1, <2>2, <2>3, <2>4
<1>3. ASSUME NEW n \in S PROVE RowOf(n, S) \in 0 .. Cardinality(S) - 1
  <2>1. n \notin Before(n)
    OBVIOUS
  <2> HIDE DEF Before
  <2> QED
    BY <1>1, <1>2, <2>1
<1>4. ASSUME NEW m \in S, NEW n \in S, m < n PROVE RowOf(m, S) < RowOf(n, S)
  <2>1. Before(m) \in SUBSET Before(n) /\ m \in Before(n) /\ m \notin Before(m)
    <3>1. m \in Nat /\ n \in Nat /\ \A k \in S : k \in Nat
      OBVIOUS
    <3>2. \A k \in Before(m) : k \in Before(n)
      BY <1>4, <3>1
    <3>3. m \in Before(n) /\ m \notin Before(m)
      BY <1>4, <3>1
    <3> HIDE DEF Before
    <3> QED
      BY <3>2, <3>3
  <2> HIDE DEF Before
  <2>2. /\ Cardinality(Before(m)) <= Cardinality(Before(n))
        /\ Cardinality(Before(n)) = Cardinality(Before(m)) => Before(n) = Before(m)
    BY <1>2, <2>1, FS_Subset
  <2> QED
    BY <1>1, <1>2, <2>1, <2>2
<1>5. \A row \in 0 .. Cardinality(S) - 1 : \E n \in S : RowOf(n, S) = row
  <2> DEFINE T == 0 .. Cardinality(S) - 1
             f == [n \in S |-> RowOf(n, S)]
  <2>1. f \in [S -> T]
    BY <1>3
  <2>2. \A m, n \in S : f[m] = f[n] => m = n
    <3> HIDE DEF Before
    <3> TAKE m, n \in S
    <3>1. m \in Nat /\ n \in Nat
      OBVIOUS
    <3>2. RowOf(m, S) \in Int /\ RowOf(n, S) \in Int
      BY <1>1, <1>2
    <3> QED
      BY <1>4, <3>1, <3>2
  <2>3. IsFiniteSet(T) /\ Cardinality(T) = Cardinality(S)
    <3>1. 0 \in Int /\ Cardinality(S) - 1 \in Int
      BY <1>1
    <3>2. IsFiniteSet(T) /\ Cardinality(T) = IF 0 > Cardinality(S) - 1 THEN 0 ELSE Cardinality(S) - 1 - 0 + 1
      BY <3>1, FS_Interval
    <3> QED
      BY <1>1, <3>2
  <2> HIDE DEF f, T
  <2>4. f \in Injection(S, T)
    BY <2>1, <2>2 DEF Injection, IsInjective
  <2>5. f \in Surjection(S, T)
    BY <2>3, <2>4, FS_Injection
  <2>6. \A row \in T : \E n \in S : f[n] = row
    BY <2>5 DEF Surjection
  <2> QED
    BY <2>6 DEF f, T
<1> QED
  BY <1>1, <1>2, <1>4, <1>5

\* A listing that is not empty has a first and a last entry.
LEMMA FirstAndLast ==
  ASSUME NEW S, IsFiniteSet(S), S \subseteq Nat, S # {}
  PROVE  Min(S) \in S /\ Max(S) \in S
<1>1. /\ Cardinality(S) \in Nat /\ Cardinality(S) # 0
      /\ \A m, n \in S : m < n => RowOf(m, S) < RowOf(n, S)
      /\ \A n \in S : RowOf(n, S) \in 0 .. Cardinality(S)
      /\ \A row \in 0 .. Cardinality(S) - 1 : \E n \in S : RowOf(n, S) = row
  BY RowsInOrder, FS_EmptySet
<1>2. \A n \in S : RowOf(n, S) < Cardinality(S)
  <2> TAKE n \in S
  <2>1. {m \in S : m < n} \in SUBSET S /\ n \notin {m \in S : m < n}
    OBVIOUS
  <2>2. Cardinality({m \in S : m < n}) # Cardinality(S)
    BY <2>1, FS_Subset
  <2> QED
    BY <1>1, <2>2 DEF RowOf
<1>3. \E n \in S : \A m \in S : n <= m
  <2>1. PICK n \in S : RowOf(n, S) = 0
    BY <1>1
  <2>2. \A m \in S : ~(m < n)
    BY <1>1, <2>1
  <2> QED
    BY <2>2
<1>4. \E n \in S : \A m \in S : n >= m
  <2>1. PICK n \in S : RowOf(n, S) = Cardinality(S) - 1
    BY <1>1
  <2>2. \A m \in S : ~(n < m)
    BY <1>1, <1>2, <2>1
  <2> QED
    BY <2>2
<1> QED
  BY <1>3, <1>4 DEF Min, Max

\* Wherever a cursor is put, it is on an entry, unless there is none.
LEMMA CursorLands ==
  ASSUME NEW names \in SUBSET Names, shown \subseteq Names, cursor \in Names \cup {NoName}
  PROVE  /\ First(names) \in names \cup {NoName} /\ RestoredName(names) \in names \cup {NoName}
         /\ Reconciled(names) \in names \cup {NoName}
<1>1. /\ names \subseteq Nat /\ IsFiniteSet(names) /\ shown \subseteq Nat /\ IsFiniteSet(shown)
      /\ cursor \in Nat
  <2>1. Names \subseteq Nat /\ NoName \in Nat /\ IsFiniteSet(Names)
    BY NavigationAssumption
  <2>2. shown \in SUBSET Names
    OBVIOUS
  <2> QED
    BY <2>1, <2>2, FS_Subset
<1>2. First(names) \in names \cup {NoName}
  BY <1>1, FirstAndLast DEF First
<1>3. ASSUME names # {}, NEW row \in Nat PROVE AtRow(row, names) \in names
  <2>1. Cardinality(names) \in Nat /\ \A r \in 0 .. Cardinality(names) - 1 : \E n \in names : RowOf(n, names) = r
    BY <1>1, RowsInOrder
  <2>2. CASE row >= Cardinality(names)
    BY <1>1, <1>3, <2>2, FirstAndLast DEF AtRow
  <2>3. CASE ~(row >= Cardinality(names))
    <3>1. \E n \in names : RowOf(n, names) = row
      BY <2>1, <2>3
    <3> QED
      BY <2>3, <3>1 DEF AtRow
  <2> QED
    BY <2>2, <2>3
<1>4. RowOf(cursor, shown) \in Nat
  <2>1. Cardinality(shown) \in Nat /\ \A n \in Nat : RowOf(n, shown) \in 0 .. Cardinality(shown)
    BY <1>1, RowsInOrder
  <2> QED
    BY <1>1, <2>1
<1> QED
  BY <1>2, <1>3, <1>4 DEF RestoredName, Reconciled

-----------------------------------------------------------------------------
(* The invariant of the navigation.  A restore is pending as long as the   *)
(* load it is for has been neither interrupted nor completed, it is for    *)
(* the entry the navigation is to end on, and the user has put the cursor  *)
(* nowhere meanwhile; Quick Look is open over an entry only; the newest    *)
(* check of a bookmark was asked for after the navigation kept with it;    *)
(* and no directory is open before the first navigation.                   *)

Screen ==
  /\ serial \in 0 .. MaxNavigations /\ awaiting \in BOOLEAN /\ wanted \in Names \cup {NoName}
  /\ scanning \in BOOLEAN /\ shown \subseteq Names
  /\ cursor \in shown \cup {NoName} /\ target = cursor
  /\ mode \in {"normal", "visual", "search", "insert"}
  /\ over \subseteq {"prompt", "quick look", "finder"}

Pending ==
  /\ awaiting <=> stage = "loading"
  /\ awaiting => wanted = goal /\ mine = NoName

PreviewShown == "quick look" \in over => cursor \in shown

Asked ==
  /\ dispatched \in [Bookmarks -> 0 .. MaxNavigations] /\ asked \in [Bookmarks -> 0 .. MaxNavigations]
  /\ \A c \in checks :
       c.row \in Bookmarks /\ c.generation = recheck[c.row] /\ c.generation # 0 =>
         dispatched[c.row] = asked[c.row]

Starting ==
  /\ startup \in {"resolved", "candidate"} => serial = 0
  /\ serial = 0 => here = NoPath
  /\ startup = "validating" => candidate \in [path : Paths, serial : {0}]

ListingInv == Screen /\ CursorIsUsers /\ Pending /\ PreviewShown
NavInv == EntriesAreTrue /\ ListingInv /\ SidebarInv /\ Asked /\ Starting

\* What a step does to the jump list, the listing and the cursor.
Opens ==
  \E path \in Paths, name \in Names \cup {NoName}, closing \in SUBSET {"finder"} : Open(path, name, closing)

Traverses ==
  \E direction \in {-1, 1}, count \in 1 .. MaxCount,
     missing \in SUBSET {entries[i].path : i \in DOMAIN entries \ {index}} :
    TraverseHistory(direction, count, missing)

Lists == \E names \in SUBSET Names, scans \in BOOLEAN : ListingChanged(names, scans)

Aside ==
  /\ UNCHANGED <<jumps, serial, awaiting, wanted, shown, cursor, target, mine, stage, goal>>
  /\ scanning' \in BOOLEAN /\ mode' \in {"normal", "visual", "search", "insert"}
  /\ over' \subseteq {"prompt", "quick look", "finder"}
  /\ "quick look" \in over' => "quick look" \in over \/ cursor \in shown

\* At the start nothing is open.
LEMMA NavInitGood == Init => NavInv
<1> SUFFICES ASSUME Init PROVE NavInv
  OBVIOUS
<1>1. EntriesAreTrue
  BY NavigationAssumption, JumpListAssumption DEF Init, JumpListInit, EntriesAreTrue, JumpListTypeOK, NoPathTwice,
     CurrentIsHere, NamesAreKept, Entry
<1>2. ListingInv
  <2>1. Screen
    <3>1. 0 \in 0 .. MaxNavigations
      BY NavigationAssumption
    <3>2. awaiting \in BOOLEAN /\ scanning \in BOOLEAN
      BY DEF Init
    <3> QED
      BY <3>1, <3>2 DEF Init, Screen
  <2>2. CursorIsUsers /\ PreviewShown
    BY DEF Init, CursorIsUsers, PreviewShown
  <2>3. ~awaiting /\ stage # "loading"
    BY DEF Init
  <2>4. Pending
    BY <2>3, Zenon DEF Pending
  <2> QED
    BY <2>1, <2>2, <2>4 DEF ListingInv
<1>3. SidebarInv
  BY SidebarInitGood DEF Init
<1>4. Asked /\ Starting
  BY NavigationAssumption DEF Init, Asked, Starting, JumpListInit, PlacesInit, Startup
<1> QED
  BY <1>1, <1>2, <1>3, <1>4 DEF NavInv

\* Every step opens a directory, goes through the history, lists, moves the cursor,
\* enters a mode, or leaves jump list, listing and cursor alone.
LEMMA StepKinds ==
  ASSUME NavInv, [Next]_vars
  PROVE  \/ Opens \/ Traverses \/ Lists
         \/ \E name \in Names : MoveCursor(name)
         \/ \E m \in {"visual", "search", "insert"} : EnterMode(m)
         \/ Aside
<1>1. /\ Screen /\ here \in Paths \cup {NoPath} /\ {} \in SUBSET {"finder"} /\ {"finder"} \in SUBSET {"finder"}
      /\ PreviewShown
  BY DEF NavInv, ListingInv, EntriesAreTrue, JumpListTypeOK
<1>2. ASSUME UNCHANGED <<jumps, serial, restore, listing, mode, over, stage, goal>> PROVE Aside
  BY <1>1, <1>2 DEF Aside, restore, listing, Screen
<1>3. ASSUME NEW path \in Paths, Start(path) PROVE Opens \/ Aside
  BY <1>1, <1>2, <1>3, NavigationAssumption DEF Start, Opens, history
<1>4. ASSUME NEW path \in Paths, UserOpens(path) \/ DeviceOpens(path) PROVE Opens
  BY <1>1, <1>4 DEF UserOpens, DeviceOpens, Opens
<1>5. ASSUME NEW path \in Paths, NEW name \in Names \cup {NoName}, AcceptFinderResult(path, name) PROVE Opens
  BY <1>1, <1>5 DEF AcceptFinderResult, Opens
<1>6. ASSUME NavigateParent PROVE Opens
  <2>1. Parent[here] \in Paths /\ NameOf[here] \in Names \cup {NoName}
    BY <1>1, <1>6, NavigationAssumption DEF NavigateParent
  <2> QED
    BY <1>1, <1>6, <2>1 DEF NavigateParent, Opens
<1>7. ASSUME NEW c \in checks, c.row \in Bookmarks, Deliver(c) PROVE Opens \/ Aside
  <2>1. PathOf[c.row] \in Paths
    BY <1>7, NavigationAssumption
  <2> QED
    BY <1>1, <1>2, <1>7, <2>1 DEF Deliver, Opens, history
<1>8. ASSUME NEW path \in Paths, NEW ok \in BOOLEAN, RestoreValidated(path, ok) PROVE Opens \/ Aside
  <2>1. HomePath \in Paths
    BY NavigationAssumption
  <2> QED
    BY <1>1, <1>2, <1>8, <2>1 DEF RestoreValidated, Opens, history
<1>9. ASSUME NEW b \in Bookmarks, ActivateBookmark(b) PROVE Aside
  BY <1>2, <1>9 DEF ActivateBookmark
<1>10. ASSUME Checks PROVE Aside
  BY <1>2, <1>10 DEF Checks, history
<1>11. ASSUME Refresh \/ LeaveMode PROVE Aside
  BY <1>1, <1>11 DEF Refresh, LeaveMode, Aside, restore, history, Screen
<1>12. ASSUME QuickLook \/ Finder \/ Prompt \/ \E what \in {"quick look", "finder", "prompt"} : Dismiss(what)
       PROVE  Aside
  BY <1>1, <1>12 DEF QuickLook, Finder, Prompt, Dismiss, Aside, restore, listing, history, Screen
<1>13. CASE UNCHANGED vars
  BY <1>2, <1>13 DEF vars, history
<1>14. CASE \E path \in Paths : Start(path)
  BY <1>3, <1>14
<1>15. CASE Events
  BY <1>4, <1>5, <1>6, <1>7, <1>8, <1>9, <1>10, <1>11, <1>12, <1>15 DEF Events, Traverses, Lists
<1> QED
  BY <1>13, <1>14, <1>15 DEF Next

\* A directory that is opened awaits its restore, with nothing shown.
LEMMA OpenInternalKeeps ==
  ASSUME Screen, NEW name \in Names \cup {NoName}, NEW closing, OpenInternal(name, closing), goal' = name
  PROVE  ListingInv' /\ serial' # 0
<1>1. Screen' /\ serial' # 0
  <2>1. serial' \in 0 .. MaxNavigations /\ serial' # 0
    <3>1. serial \in 0 .. MaxNavigations /\ serial < MaxNavigations /\ serial' = serial + 1
      BY DEF Screen, OpenInternal
    <3>2. MaxNavigations \in Nat
      BY NavigationAssumption
    <3> QED
      BY <3>1, <3>2
  <2>2. awaiting' \in BOOLEAN
    BY DEF OpenInternal, Replace
  <2>3. over' \subseteq over
    BY DEF OpenInternal
  <2> QED
    BY <2>1, <2>2, <2>3 DEF Screen, OpenInternal, Replace
<1>2. CursorIsUsers' /\ PreviewShown'
  BY DEF OpenInternal, CursorIsUsers, PreviewShown
<1>3. awaiting' /\ stage' = "loading" /\ wanted' = goal' /\ mine' = NoName
  BY DEF OpenInternal, Replace
<1>4. Pending'
  BY <1>3, Zenon DEF Pending
<1> QED
  BY <1>1, <1>2, <1>4 DEF ListingInv

LEMMA OpenKeeps ==
  ASSUME EntriesAreTrue, Screen, NEW path \in Paths, NEW name \in Names \cup {NoName}, NEW closing,
         Open(path, name, closing)
  PROVE  EntriesAreTrue' /\ ListingInv' /\ serial' # 0 /\ UNCHANGED asked
<1>1. OutgoingCursorName \in Names \cup {NoName}
  BY DEF OutgoingCursorName, Screen
<1>2. EntriesAreTrue'
  BY <1>1, VisitKeepsTrue, NavigationAssumption DEF Open
<1>3. ListingInv' /\ serial' # 0
  BY OpenInternalKeeps DEF Open
<1> QED
  BY <1>2, <1>3 DEF Open, OpenInternal

\* Back and forth, to the name kept with the entry.
LEMMA TraverseHistoryKeeps ==
  ASSUME EntriesAreTrue, ListingInv, NEW direction \in {-1, 1}, NEW count \in 1 .. MaxCount, NEW missing,
         TraverseHistory(direction, count, missing)
  PROVE  /\ EntriesAreTrue' /\ ListingInv' /\ UNCHANGED asked
         /\ (UNCHANGED <<here, serial, cursor, shown, stage, mine, over>>) \/ serial' # 0
<1> DEFINE landing == Landing(direction, count, missing)
<1>1. OutgoingCursorName \in Names \cup {NoName}
  BY DEF OutgoingCursorName, ListingInv, Screen
<1>2. Traverse(direction, count, OutgoingCursorName, missing)
  BY DEF TraverseHistory
<1>3. EntriesAreTrue'
  BY <1>1, <1>2, TraverseKeepsTrue, NavigationAssumption
<1>4. index # 0 /\ index \in DOMAIN entries /\ entries[index].path = here /\ JumpListTypeOK
  BY <1>2 DEF Traverse, EntriesAreTrue, CurrentIsHere
<1>5. landing \in DOMAIN entries
  <2>1. Landing(direction, count, missing) \in DOMAIN entries \ Dropped(direction, count, missing)
    BY <1>4, LandingStays
  <2> QED
    BY <2>1
<1> HIDE DEF landing
<1>6. CASE landing # index
  <2>1. entries[landing] \in Entry
    BY <1>4, <1>5 DEF JumpListTypeOK
  <2>2. entries[landing].name \in Names \cup {NoName}
    BY <2>1 DEF Entry
  <2>3. entries[landing].name = remembered[entries[landing].path]
    BY <1>5 DEF EntriesAreTrue, NamesAreKept
  <2>4. OpenInternal(entries[landing].name, {}) /\ goal' = remembered[entries[landing].path]
    BY <1>6 DEF TraverseHistory, landing
  <2>5. ListingInv' /\ serial' # 0
    BY <2>2, <2>3, <2>4, OpenInternalKeeps DEF ListingInv
  <2> QED
    BY <1>3, <2>4, <2>5 DEF OpenInternal
<1>7. CASE landing = index
  <2>1. UNCHANGED <<serial, restore, listing, mode, over, history>>
    BY <1>7 DEF TraverseHistory, landing
  <2>2. here' = here
    BY <1>2, <1>4, <1>7 DEF Traverse, landing
  <2>3. ListingInv'
    BY <2>1 DEF restore, listing, history, ListingInv, Screen, CursorIsUsers, Pending, PreviewShown
  <2> QED
    BY <1>3, <2>1, <2>2, <2>3 DEF history, listing
<1> QED
  BY <1>6, <1>7

\* The listing changes: the restore is applied when it is complete, and else the
\* cursor stays on its entry.
LEMMA ListingKeeps ==
  ASSUME ListingInv, NEW names \in SUBSET Names, NEW scans \in BOOLEAN, ListingChanged(names, scans)
  PROVE  /\ ListingInv' /\ cursor' \in names \cup {NoName}
         /\ awaiting /\ ~scans => cursor' = RestoredName(names)
         /\ ~(awaiting /\ ~scans) => cursor' = Reconciled(names)
<1> DEFINE done == ~scans
           name == IF Settles(done) THEN RestoredName(names) ELSE Reconciled(names)
<1>1. /\ shown' = names /\ scanning' = scans /\ cursor' = name /\ SyncPreviewTarget(name)
      /\ awaiting' = (awaiting /\ ~Settles(done)) /\ wanted' = IF Settles(done) THEN NoName ELSE wanted
      /\ mode' = IF mode = "visual" /\ names = {} THEN "normal" ELSE mode
      /\ mine' = (IF mine \in names THEN mine ELSE NoName)
      /\ stage' = IF done THEN "complete" ELSE stage
      /\ goal' = IF done THEN NoName ELSE goal
      /\ serial' = serial
  BY DEF ListingChanged
<1>2. Screen /\ CursorIsUsers /\ Pending /\ PreviewShown
  BY DEF ListingInv
<1>3. /\ RestoredName(names) \in names \cup {NoName}
      /\ Reconciled(names) \in names \cup {NoName}
  BY <1>2, CursorLands DEF Screen
<1>4. name \in names \cup {NoName}
  BY <1>3
<1>5. Settles(done) <=> awaiting /\ ~scans
  BY Zenon DEF Settles
<1> HIDE DEF name, done
<1>6. Screen'
  <2>1. over' \subseteq over /\ target' = name
    BY <1>1 DEF SyncPreviewTarget
  <2>2. awaiting' \in BOOLEAN
    BY <1>1, Zenon
  <2>3. wanted' \in Names \cup {NoName} /\ mode' \in {"normal", "visual", "search", "insert"}
    BY <1>1, <1>2 DEF Screen
  <2> QED
    BY <1>1, <1>2, <1>4, <2>1, <2>2, <2>3 DEF Screen
<1>7. CursorIsUsers'
  <2> SUFFICES ASSUME mine' # NoName PROVE cursor' = mine'
    BY DEF CursorIsUsers
  <2>1. mine' = mine /\ mine \in names /\ mine # NoName
    BY <1>1
  <2>2. ~awaiting /\ cursor = mine
    BY <1>2, <2>1 DEF Pending, CursorIsUsers
  <2>3. name = Reconciled(names)
    BY <1>5, <2>2 DEF name
  <2> QED
    BY <1>1, <2>1, <2>2, <2>3 DEF Reconciled
<1>8. Pending'
  <2>1. CASE done
    <3>1. ~awaiting'
      BY <1>1, <1>5, <2>1, Zenon DEF done
    <3>2. stage' # "loading"
      BY <1>1, <2>1
    <3> QED
      BY <3>1, <3>2, Zenon DEF Pending
  <2>2. CASE ~done
    <3>1. ~Settles(done)
      BY <1>5, <2>2 DEF done
    <3>2. (awaiting' <=> awaiting) /\ wanted' = wanted /\ stage' = stage /\ goal' = goal
      <4>1. wanted' = wanted /\ stage' = stage /\ goal' = goal
        BY <1>1, <2>2, <3>1
      <4>2. awaiting' <=> awaiting
        BY <1>1, <3>1, Zenon
      <4> QED
        BY <4>1, <4>2, Zenon
    <3>3. mine = NoName => mine' = NoName
      BY <1>1, NavigationAssumption
    <3> QED
      BY <1>2, <3>2, <3>3 DEF Pending
  <2> QED
    BY <2>1, <2>2
<1>9. PreviewShown'
  <2> SUFFICES ASSUME "quick look" \in over' PROVE cursor' \in shown'
    BY DEF PreviewShown
  <2>1. name # NoName
    BY <1>1 DEF SyncPreviewTarget
  <2> QED
    BY <1>1, <1>4, <2>1
<1>10. ListingInv'
  BY <1>6, <1>7, <1>8, <1>9 DEF ListingInv
<1> QED
  BY <1>1, <1>4, <1>5, <1>10 DEF name

\* The user puts the cursor somewhere, or opens a mode on it: nothing is restored then.
LEMMA MoveKeeps ==
  ASSUME ListingInv, NEW name \in Names, MoveCursor(name)
  PROVE  ListingInv'
<1>1. Screen'
  BY DEF ListingInv, Screen, MoveCursor, CancelPendingRestore, SyncPreviewTarget
<1>2. CursorIsUsers' /\ PreviewShown'
  BY DEF ListingInv, MoveCursor, SyncPreviewTarget, CursorIsUsers, PreviewShown
<1>3. ~awaiting' /\ stage' # "loading"
  BY DEF MoveCursor, CancelPendingRestore, Interrupted
<1>4. Pending'
  BY <1>3, Zenon DEF Pending
<1> QED
  BY <1>1, <1>2, <1>4 DEF ListingInv

LEMMA EnterModeKeeps ==
  ASSUME ListingInv, NEW m \in {"visual", "search", "insert"}, EnterMode(m)
  PROVE  ListingInv'
<1>1. Screen'
  BY DEF ListingInv, Screen, EnterMode, CancelPendingRestore
<1>2. CursorIsUsers' /\ PreviewShown'
  BY DEF ListingInv, EnterMode, CursorIsUsers, PreviewShown
<1>3. ~awaiting' /\ stage' # "loading"
  BY DEF EnterMode, CancelPendingRestore, Interrupted
<1>4. Pending'
  BY <1>3, Zenon DEF Pending
<1> QED
  BY <1>1, <1>2, <1>4 DEF ListingInv

LEMMA AsideKeeps == ASSUME ListingInv, Aside PROVE ListingInv'
<1>1. Screen'
  BY DEF ListingInv, Screen, Aside
<1>2. CursorIsUsers' /\ PreviewShown'
  BY DEF ListingInv, Aside, CursorIsUsers, PreviewShown
<1>3. Pending'
  BY Zenon DEF ListingInv, Aside, Pending
<1> QED
  BY <1>1, <1>2, <1>3 DEF ListingInv

\* What a step does to the sidebar, and to what is kept of the bookmarks' activations.
LEMMA BookmarkSteps ==
  ASSUME NavInv, [Next]_vars
  PROVE  \/ UNCHANGED <<sidebar, dispatched, asked>>
         \/ \E b \in Bookmarks : ActivateBookmark(b)
         \/ \E c \in checks : c.row \in Bookmarks /\ Deliver(c) /\ UNCHANGED asked
         \/ Checks
<1> DEFINE Same == UNCHANGED <<sidebar, dispatched, asked>>
<1>1. ASSUME NEW path, NEW name, NEW closing, Open(path, name, closing) PROVE UNCHANGED asked
  BY <1>1 DEF Open, OpenInternal
<1>2. ASSUME NEW path \in Paths,
             \/ Start(path) \/ UserOpens(path) \/ DeviceOpens(path)
             \/ \E name \in Names \cup {NoName} : AcceptFinderResult(path, name)
      PROVE  Same
  BY <1>1, <1>2 DEF Start, UserOpens, DeviceOpens, AcceptFinderResult, history
<1>3. ASSUME NavigateParent \/ \E path \in Paths, ok \in BOOLEAN : RestoreValidated(path, ok) PROVE Same
  BY <1>1, <1>3 DEF NavigateParent, RestoreValidated, history
<1>4. ASSUME NEW c \in checks, Deliver(c) PROVE UNCHANGED asked
  BY <1>1, <1>4 DEF Deliver, history
<1>5. ASSUME NEW direction, NEW count, NEW missing, TraverseHistory(direction, count, missing) PROVE Same
  BY <1>5 DEF TraverseHistory, OpenInternal, history
<1>6. ASSUME NEW names, NEW scans, ListingChanged(names, scans) PROVE Same
  BY <1>6 DEF ListingChanged
<1>7. ASSUME Refresh \/ LeaveMode \/ QuickLook \/ Finder \/ Prompt PROVE Same
  BY <1>7 DEF Refresh, LeaveMode, QuickLook, Finder, Prompt, history
<1>8. ASSUME NEW x, MoveCursor(x) \/ EnterMode(x) \/ Dismiss(x) PROVE Same
  BY <1>8 DEF MoveCursor, EnterMode, Dismiss, history
<1>9. CASE UNCHANGED vars
  BY <1>9 DEF vars, history
<1>10. CASE \E path \in Paths : Start(path)
  BY <1>2, <1>10
<1>11. CASE Events
  BY <1>2, <1>3, <1>4, <1>5, <1>6, <1>7, <1>8, <1>11 DEF Events
<1> QED
  BY <1>9, <1>10, <1>11 DEF Next

LEMMA AskedKept == ASSUME NavInv, [Next]_vars PROVE Asked'
<1>1. Asked /\ Screen /\ PlacesTypeOK /\ OneCheck
  BY DEF NavInv, ListingInv, SidebarInv
<1>2. CASE UNCHANGED <<sidebar, dispatched, asked>>
  BY <1>1, <1>2 DEF Asked, sidebar
<1>3. ASSUME NEW b \in Bookmarks, ActivateBookmark(b) PROVE Asked'
  <2>1. /\ dispatched' = [dispatched EXCEPT ![b] = serial] /\ asked' = [asked EXCEPT ![b] = serial]
        /\ serial \in 0 .. MaxNavigations
    BY <1>1, <1>3 DEF ActivateBookmark, Screen
  <2>2. /\ dispatched' \in [Bookmarks -> 0 .. MaxNavigations] /\ asked' \in [Bookmarks -> 0 .. MaxNavigations]
        /\ dispatched'[b] = asked'[b]
        /\ \A r \in Bookmarks : r # b => dispatched'[r] = dispatched[r] /\ asked'[r] = asked[r]
    BY <1>1, <2>1 DEF Asked
  <2>3. /\ \A r \in Bookmarks : r # b => recheck'[r] = recheck[r]
        /\ \A c \in checks' : c.row # b => c \in checks
    BY <1>1, <1>3 DEF ActivateBookmark, RecheckBookmark, PlacesTypeOK, Rows
  <2> QED
    BY <1>1, <2>2, <2>3 DEF Asked
<1>4. ASSUME NEW c \in checks, c.row \in Bookmarks, Deliver(c), UNCHANGED asked PROVE Asked'
  <2>1. checks' = checks \ {c} /\ recheck' = recheck
    BY <1>4 DEF Deliver, DeliverResult
  <2>2. CASE ~Resolves(c)
    BY <1>1, <1>4, <2>1, <2>2 DEF Deliver, Asked
  <2>3. CASE Resolves(c)
    <3>1. dispatched' = [dispatched EXCEPT ![c.row] = 0] /\ c.generation = recheck[c.row]
      BY <1>4, <2>3 DEF Deliver, Resolves, Awaited
    <3>2. /\ dispatched' \in [Bookmarks -> 0 .. MaxNavigations]
          /\ \A r \in Bookmarks : r # c.row => dispatched'[r] = dispatched[r]
      <4>1. 0 \in 0 .. MaxNavigations
        BY NavigationAssumption
      <4> QED
        BY <1>1, <3>1, <4>1 DEF Asked
    <3>3. \A d \in checks' : d.generation = recheck'[d.row] => d.row # c.row
      BY <1>1, <2>1, <3>1 DEF OneCheck
    <3> QED
      BY <1>1, <1>4, <2>1, <3>2, <3>3 DEF Asked
  <2> QED
    BY <2>2, <2>3
<1>5. CASE Checks
  <2>1. UNCHANGED <<dispatched, asked, recheck>>
    BY <1>5 DEF Checks, history, Change, Answer
  <2>2. \A d \in checks' : \E c \in checks : d.row = c.row /\ d.generation = c.generation
    <3>1. ASSUME NEW c \in checks, Answer(c)
          PROVE  \A d \in checks' : \E e \in checks : d.row = e.row /\ d.generation = e.generation
      <4> DEFINE d == [c EXCEPT !.found = Found(c.row)]
      <4>1. checks' = (checks \ {c}) \cup {d}
        BY <3>1 DEF Answer
      <4>2. d.row = c.row /\ d.generation = c.generation
        BY <1>1 DEF PlacesTypeOK
      <4> HIDE DEF d
      <4> QED
        BY <4>1, <4>2
    <3> QED
      BY <1>5, <3>1 DEF Checks, Change
  <2> QED
    BY <1>1, <2>1, <2>2 DEF Asked
<1> QED
  BY <1>2, <1>3, <1>4, <1>5, BookmarkSteps

\* Before the session has started, nothing is opened; what is to be validated was
\* known before that.
LEMMA StartSteps ==
  ASSUME [Next]_vars
  PROVE  \/ UNCHANGED <<startup, candidate>> /\ (startup \notin {"resolved", "candidate"} \/ UNCHANGED serial)
         \/ \E path \in Paths : Start(path)
         \/ \E path \in Paths, ok \in BOOLEAN : RestoreValidated(path, ok)
<1> DEFINE Same == UNCHANGED <<startup, candidate>>
<1>1. ASSUME NEW path \in Paths,
             \/ UserOpens(path) \/ DeviceOpens(path)
             \/ \E name \in Names \cup {NoName} : AcceptFinderResult(path, name)
      PROVE  Same
  BY <1>1 DEF UserOpens, DeviceOpens, AcceptFinderResult
<1>2. ASSUME NavigateParent \/ Refresh \/ LeaveMode \/ QuickLook \/ Finder \/ Prompt \/ Checks PROVE Same
  BY <1>2 DEF NavigateParent, Refresh, LeaveMode, QuickLook, Finder, Prompt, Checks
<1>3. ASSUME NEW direction, NEW count, NEW missing, TraverseHistory(direction, count, missing) PROVE Same
  BY <1>3 DEF TraverseHistory
<1>4. ASSUME NEW names, NEW scans, ListingChanged(names, scans) PROVE Same
  BY <1>4 DEF ListingChanged
<1>5. ASSUME NEW x, MoveCursor(x) \/ EnterMode(x) \/ Dismiss(x) \/ ActivateBookmark(x) \/ Deliver(x) PROVE Same
  BY <1>5 DEF MoveCursor, EnterMode, Dismiss, ActivateBookmark, Deliver
<1>6. CASE UNCHANGED vars
  BY <1>6 DEF vars
<1>7. CASE startup \notin {"resolved", "candidate"} /\ Events
  BY <1>1, <1>2, <1>3, <1>4, <1>5, <1>7 DEF Events
<1> QED
  BY <1>6, <1>7 DEF Next

\* Every step keeps the invariant.
LEMMA NavInvKept == NavInv /\ [Next]_vars => NavInv'
<1> SUFFICES ASSUME NavInv, [Next]_vars PROVE NavInv'
  OBVIOUS
<1>1. EntriesAreTrue /\ ListingInv /\ Screen /\ SidebarInv /\ Starting
  BY DEF NavInv, ListingInv
<1>2. EntriesAreTrue' /\ ListingInv' /\ (serial' = 0 => UNCHANGED <<here, serial>>)
  <2>1. CASE Opens
    BY <1>1, <2>1, OpenKeeps DEF Opens
  <2>2. CASE Traverses
    BY <1>1, <2>2, TraverseHistoryKeeps DEF Traverses
  <2>3. ASSUME UNCHANGED jumps PROVE EntriesAreTrue' /\ UNCHANGED here
    BY <1>1, <2>3 DEF jumps, EntriesAreTrue, JumpListTypeOK, NoPathTwice, CurrentIsHere, NamesAreKept
  <2>4. CASE Lists
    <3>1. UNCHANGED jumps /\ serial' = serial
      BY <2>4 DEF Lists, ListingChanged
    <3> QED
      BY <1>1, <2>3, <2>4, <3>1, ListingKeeps DEF Lists
  <2>5. CASE \E name \in Names : MoveCursor(name)
    <3>1. UNCHANGED jumps /\ serial' = serial
      BY <2>5 DEF MoveCursor
    <3> QED
      BY <1>1, <2>3, <2>5, <3>1, MoveKeeps
  <2>6. CASE \E m \in {"visual", "search", "insert"} : EnterMode(m)
    <3>1. UNCHANGED jumps /\ serial' = serial
      BY <2>6 DEF EnterMode
    <3> QED
      BY <1>1, <2>3, <2>6, <3>1, EnterModeKeeps
  <2>7. CASE Aside
    <3>1. UNCHANGED jumps /\ serial' = serial
      BY <2>7 DEF Aside
    <3> QED
      BY <1>1, <2>3, <2>7, <3>1, AsideKeeps
  <2> QED
    BY <2>1, <2>2, <2>4, <2>5, <2>6, <2>7, StepKinds
<1>3. SidebarInv'
  BY <1>1, SidebarStep, SidebarInvKept
<1>4. Asked'
  BY AskedKept
<1>5. Starting'
  <2>1. serial' = 0 => here' = NoPath
    BY <1>1, <1>2 DEF Starting
  <2>2. CASE UNCHANGED <<startup, candidate>> /\ (startup \notin {"resolved", "candidate"} \/ UNCHANGED serial)
    BY <1>1, <2>1, <2>2 DEF Starting
  <2>3. ASSUME NEW path \in Paths, Start(path) PROVE Starting'
    <3>1. CASE startup = "resolved"
      BY <2>1, <2>3, <3>1 DEF Start, Starting
    <3>2. CASE startup # "resolved"
      BY <1>1, <2>1, <2>3, <3>2 DEF Start, Starting
    <3> QED
      BY <3>1, <3>2
  <2>4. ASSUME NEW path \in Paths, NEW ok \in BOOLEAN, RestoreValidated(path, ok) PROVE Starting'
    BY <2>1, <2>4 DEF RestoreValidated, Starting
  <2> QED
    BY <2>2, <2>3, <2>4, StartSteps
<1> QED
  BY <1>2, <1>3, <1>4, <1>5 DEF NavInv

LEMMA NavInvHolds == Spec => []NavInv
BY NavInitGood, NavInvKept, PTL DEF Spec

-----------------------------------------------------------------------------
(* The theorems about the navigation.                                      *)

\* Also with everything that happens around it, the jump list tells where the user
\* has been and is (JumpList of NavigationSession).
THEOREM JumpListIsTrueInside == Spec => []EntriesAreTrue
<1>1. NavInv => EntriesAreTrue
  BY DEF NavInv
<1> QED
  BY <1>1, NavInvHolds, PTL

\* Also with everything that opens a directory, or goes through the history, during
\* a session: the list still does what the history promises (openInternal,
\* traverseHistory).
THEOREM HistoryIsKeptInside == Spec => KeepsHistory
<1>1. Init => NothingBeforeVisit /\ History!Init
  BY HistoryStartsEmpty DEF Init
<1>2. NavInv /\ NothingBeforeVisit /\ [Next]_vars
        => NothingBeforeVisit' /\ [History!Next]_(History!history)
  <2> SUFFICES ASSUME NavInv, NothingBeforeVisit, [Next]_vars
               PROVE  NothingBeforeVisit' /\ [History!Next]_(History!history)
    OBVIOUS
  <2>1. EntriesAreTrue /\ OutgoingCursorName \in Names \cup {NoName}
    BY NavigationAssumption DEF NavInv, ListingInv, Screen, OutgoingCursorName
  <2>2. ASSUME UNCHANGED jumps PROVE NothingBeforeVisit' /\ [History!Next]_(History!history)
    BY <2>2 DEF jumps, NothingBeforeVisit, History!history
  <2>3. CASE Opens
    <3>1. PICK path \in Paths : Visit(path, OutgoingCursorName)
      BY <2>3 DEF Opens, Open
    <3>2. NothingBeforeVisit' /\ (History!Visit(path) \/ UNCHANGED History!history)
      BY <2>1, <3>1, VisitIsOfHistory
    <3> QED
      BY <3>2 DEF History!Next
  <2>4. CASE Traverses
    <3>1. PICK direction \in {-1, 1}, count \in 1 .. MaxCount,
               missing \in SUBSET {entries[i].path : i \in DOMAIN entries \ {index}} :
            Traverse(direction, count, OutgoingCursorName, missing)
      BY <2>4 DEF Traverses, TraverseHistory
    <3>2. count \in Nat
      BY <2>1, JumpListAssumption
    <3>3. NothingBeforeVisit' /\ (History!Back \/ History!Forward \/ UNCHANGED History!history)
      BY <2>1, <3>1, <3>2, TraverseIsOfHistory
    <3> QED
      BY <3>3 DEF History!Next
  <2>5. ASSUME NEW names \in SUBSET Names, NEW scans \in BOOLEAN, ListingChanged(names, scans) PROVE UNCHANGED jumps
    BY <2>5 DEF ListingChanged, history
  <2>6. ASSUME NEW name \in Names, MoveCursor(name) PROVE UNCHANGED jumps
    BY <2>6 DEF MoveCursor, history
  <2>7. CASE Aside \/ \E m \in {"visual", "search", "insert"} : EnterMode(m)
    BY <2>2, <2>7 DEF Aside, EnterMode, history
  <2> QED
    BY <2>2, <2>3, <2>4, <2>5, <2>6, <2>7, StepKinds DEF Lists
<1> QED
  BY <1>1, <1>2, NavInvHolds, PTL DEF Spec, KeepsHistory, History!Spec

\* The cursor is where the user left it, and only the one restore of a load takes it
\* off an entry that is still listed (reconcile, maybeApplyPendingRestore).
THEOREM CursorIsKept == Spec => CursorKept
<1> DEFINE Stays == cursor' # cursor /\ cursor \in shown' =>
                      (mine' = cursor' /\ mine' # mine) \/ (stage = "loading" /\ stage' = "complete")
<1>1. NavInv => TypeOK /\ CursorIsUsers
  BY DEF NavInv, ListingInv, Screen, EntriesAreTrue, SidebarInv, Asked, TypeOK
<1>2. NavInv /\ [Next]_vars => [Stays]_vars
  <2> SUFFICES ASSUME NavInv, [Next]_vars PROVE Stays
    OBVIOUS
  <2>1. Screen /\ ListingInv /\ CursorIsUsers /\ Pending /\ NoName \notin Names
    BY NavigationAssumption DEF NavInv, ListingInv
  <2>2. CASE Opens
    BY <2>2 DEF Opens, Open, OpenInternal
  <2>3. CASE Traverses
    BY <2>3 DEF Traverses, TraverseHistory, OpenInternal, listing
  <2>4. ASSUME NEW names \in SUBSET Names, NEW scans \in BOOLEAN, ListingChanged(names, scans) PROVE Stays
    <3>1. CASE awaiting /\ ~scans
      <4>1. stage = "loading" /\ stage' = "complete"
        BY <2>1, <2>4, <3>1 DEF Pending, ListingChanged
      <4> QED
        BY <4>1
    <3>2. CASE ~(awaiting /\ ~scans)
      <4>1. cursor' = Reconciled(names) /\ shown' = names
        BY <2>1, <2>4, <3>2, ListingKeeps DEF ListingChanged
      <4> QED
        BY <4>1 DEF Reconciled
    <3> QED
      BY <3>1, <3>2
  <2>5. ASSUME NEW name \in Names, MoveCursor(name) PROVE Stays
    BY <2>1, <2>5 DEF MoveCursor, CursorIsUsers
  <2>6. CASE Aside \/ \E m \in {"visual", "search", "insert"} : EnterMode(m)
    BY <2>6 DEF Aside, EnterMode
  <2> QED
    BY <2>2, <2>3, <2>4, <2>5, <2>6, StepKinds DEF Lists
<1>3. Spec => CursorStays
  BY <1>2, NavInvHolds, PTL DEF Spec, CursorStays
<1>4. Spec => [](TypeOK /\ CursorIsUsers)
  BY <1>1, NavInvHolds, PTL
<1> QED
  BY <1>3, <1>4, PTL DEF CursorKept

\* REQ-F-013, REQ-F-014, REQ-F-016, REQ-F-018, REQ-F-019: a load nobody interrupted
\* ends on the entry its navigation is to end on, if it is listed.
THEOREM RestoreIsRight == Spec => RestoreFindsTheEntry
<1> DEFINE AsMeant == serial' = serial /\ stage = "loading" /\ stage' = "complete" =>
                       cursor' = IF goal \in shown' THEN goal ELSE First(shown')
<1>1. NavInv /\ [Next]_vars => [AsMeant]_vars
  <2> SUFFICES ASSUME NavInv, [Next]_vars PROVE AsMeant
    OBVIOUS
  <2>1. ListingInv /\ Pending /\ Screen
    BY DEF NavInv, ListingInv
  <2>2. ASSUME NEW names \in SUBSET Names, NEW scans \in BOOLEAN, ListingChanged(names, scans) PROVE AsMeant
    <3> SUFFICES ASSUME stage = "loading", stage' = "complete"
                 PROVE  cursor' = IF goal \in shown' THEN goal ELSE First(shown')
      OBVIOUS
    <3>1. awaiting /\ wanted = goal /\ ~scans /\ shown' = names
      BY <2>1, <2>2 DEF Pending, ListingChanged
    <3>2. cursor' = RestoredName(names)
      BY <2>1, <2>2, <3>1, ListingKeeps
    <3> QED
      BY <3>1, <3>2 DEF RestoredName
  <2>3. CASE Opens \/ Traverses
    BY <2>3 DEF Opens, Open, Traverses, TraverseHistory, OpenInternal, history
  <2>4. CASE \/ Aside \/ \E name \in Names : MoveCursor(name)
             \/ \E m \in {"visual", "search", "insert"} : EnterMode(m)
    BY <2>4 DEF Aside, MoveCursor, EnterMode, Interrupted
  <2> QED
    BY <2>2, <2>3, <2>4, StepKinds DEF Lists
<1> QED
  BY <1>1, NavInvHolds, PTL DEF Spec, RestoreFindsTheEntry

\* REQ-F-039: a name is kept with a directory only if the cursor was on it, and not
\* while the listing was loading.
THEOREM NamesAreTrusted == Spec => NamesTrusted
<1> DEFINE Trusted == \A p \in Paths : remembered'[p] \notin {remembered[p], NoName} =>
                        p = here /\ stage # "loading" /\ remembered'[p] = cursor /\ cursor \in shown
<1>1. NavInv /\ [Next]_vars => [Trusted]_vars
  <2> SUFFICES ASSUME NavInv, [Next]_vars PROVE Trusted
    OBVIOUS
  <2>1. /\ ListingInv /\ Pending /\ remembered \in [Paths -> Names \cup {NoName}]
        /\ OutgoingCursorName # NoName => ~awaiting /\ cursor \in shown /\ OutgoingCursorName = cursor
    BY DEF NavInv, ListingInv, EntriesAreTrue, JumpListTypeOK, OutgoingCursorName
  <2>2. ~awaiting => stage # "loading"
    BY <2>1 DEF Pending
  <2>3. ASSUME NEW p \in Paths, Remember(OutgoingCursorName)[p] \notin {remembered[p], NoName}
        PROVE  p = here /\ stage # "loading" /\ Remember(OutgoingCursorName)[p] = cursor /\ cursor \in shown
    BY <2>1, <2>2, <2>3 DEF Remember
  <2>4. ASSUME NEW path \in Paths, Visit(path, OutgoingCursorName) PROVE Trusted
    <3>1. Remember(OutgoingCursorName) \in [Paths -> Names \cup {NoName, OutgoingCursorName}]
      BY <2>1 DEF Remember
    <3>2. \A p \in Paths : remembered'[p] \in {remembered[p], NoName, Remember(OutgoingCursorName)[p]}
      BY <2>4, <3>1 DEF Visit
    <3> QED
      BY <2>3, <3>2
  <2>5. CASE Opens
    BY <2>4, <2>5 DEF Opens, Open
  <2>6. CASE Traverses
    BY <2>3, <2>6 DEF Traverses, TraverseHistory, Traverse
  <2>7. ASSUME UNCHANGED jumps PROVE Trusted
    BY <2>7 DEF jumps
  <2>8. CASE \/ Lists \/ Aside \/ \E name \in Names : MoveCursor(name)
             \/ \E m \in {"visual", "search", "insert"} : EnterMode(m)
    <3>1. UNCHANGED jumps
      BY <2>8 DEF Lists, ListingChanged, Aside, MoveCursor, EnterMode
    <3> QED
      BY <2>7, <3>1
  <2> QED
    BY <2>5, <2>6, <2>8, StepKinds
<1> QED
  BY <1>1, NavInvHolds, PTL DEF Spec, NamesTrusted

\* Quick Look is closed as soon as another entry than the one it was opened on comes
\* under the cursor (syncPreviewTarget).
THEOREM QuickLookIsPinned == Spec => QuickLookPinned
<1> DEFINE Pinned == cursor' # cursor \/ cursor' \notin shown' => "quick look" \notin over'
<1>1. NavInv /\ NavInv' /\ [Next]_vars => [Pinned]_vars
  <2> SUFFICES ASSUME NavInv, NavInv', [Next]_vars PROVE Pinned
    OBVIOUS
  <2>1. Screen /\ ListingInv /\ PreviewShown'
    BY DEF NavInv, ListingInv
  <2>2. SUFFICES ASSUME cursor' # cursor PROVE "quick look" \notin over'
    BY <2>1 DEF PreviewShown
  <2>3. CASE Opens \/ Traverses
    BY <2>2, <2>3 DEF Opens, Open, Traverses, TraverseHistory, OpenInternal, listing
  <2>4. ASSUME NEW names, NEW scans, ListingChanged(names, scans) PROVE "quick look" \notin over'
    BY <2>1, <2>2, <2>4 DEF ListingChanged, SyncPreviewTarget, Screen
  <2>5. ASSUME NEW name, MoveCursor(name) PROVE "quick look" \notin over'
    BY <2>5 DEF MoveCursor, SyncPreviewTarget
  <2>6. CASE Aside \/ \E m \in {"visual", "search", "insert"} : EnterMode(m)
    BY <2>2, <2>6 DEF Aside, EnterMode
  <2> QED
    BY <2>3, <2>4, <2>5, <2>6, StepKinds DEF Lists
<1> QED
  BY <1>1, NavInvHolds, PTL DEF Spec, QuickLookPinned

\* REQ-F-022 of places-sources: what the newest check of a bookmark finds is acted on
\* if nothing has been opened since and the user is not busy, and only then, however
\* the answers of several activations overtake each other (handleBookmarkRecheckResolved).
THEOREM BookmarksOpenAsAsked == Spec => BookmarkOpensAsAsked
<1> DEFINE AsAsked ==
      \A b \in Bookmarks, n \in 1 .. MaxRechecks, f \in {"yes", "no"} :
        LET c == [row |-> b, generation |-> n, found |-> f]
            expected == /\ n = recheck[b] /\ f = "yes" /\ asked[b] = serial
                        /\ mode = "normal" /\ over \cap {"prompt", "quick look"} = {} IN
        c \in checks \ checks' =>
          IF expected THEN here' = PathOf[b] /\ serial' = serial + 1 ELSE serial' = serial
<1>1. NavInv /\ [Next]_vars => [AsAsked]_vars
  <2> SUFFICES ASSUME NavInv, [Next]_vars,
                      NEW b \in Bookmarks, NEW n \in 1 .. MaxRechecks, NEW f \in {"yes", "no"},
                      [row |-> b, generation |-> n, found |-> f] \in checks \ checks'
               PROVE  IF /\ n = recheck[b] /\ f = "yes" /\ asked[b] = serial
                         /\ mode = "normal" /\ over \cap {"prompt", "quick look"} = {}
                      THEN here' = PathOf[b] /\ serial' = serial + 1 ELSE serial' = serial
    OBVIOUS
  <2> DEFINE c == [row |-> b, generation |-> n, found |-> f]
  <2>1. c \in checks /\ c \notin checks' /\ c.row = b /\ c.generation = n /\ c.found = f
    OBVIOUS
  <2> HIDE DEF c
  <2>2. PICK d \in checks : d.row \in Bookmarks /\ Deliver(d)
    <3>1. ~UNCHANGED sidebar
      BY <2>1 DEF sidebar
    <3>2. \A r \in Bookmarks : ~ActivateBookmark(r)
      BY <2>1 DEF ActivateBookmark, RecheckBookmark
    <3>3. ~Checks
      BY <2>1 DEF Checks, Change, Answer
    <3> QED
      BY <3>1, <3>2, <3>3, BookmarkSteps
  <2>3. d = c
    BY <2>1, <2>2 DEF Deliver, DeliverResult
  <2>4. b \in DOMAIN status
    BY DEF NavInv, SidebarInv, OriginsKept
  <2>5. Resolves(c) <=> n = recheck[b]
    BY <2>1, <2>4 DEF Resolves, Awaited
  <2>6. n = recheck[b] => dispatched[b] = asked[b]
    BY <2>1 DEF NavInv, Asked
  <2>7. /\ n = recheck[b] /\ f = "yes" /\ StillWanted(b) => Open(PathOf[b], NoName, {})
        /\ ~(n = recheck[b] /\ f = "yes" /\ StillWanted(b)) => serial' = serial
    BY <2>1, <2>2, <2>3, <2>5 DEF Deliver
  <2>8. Open(PathOf[b], NoName, {}) => here' = PathOf[b] /\ serial' = serial + 1
    BY DEF Open, Visit, OpenInternal
  <2> QED
    BY <2>6, <2>7, <2>8 DEF StillWanted, SidebarEnabled
<1> QED
  BY <1>1, NavInvHolds, PTL DEF Spec, BookmarkOpensAsAsked

\* What is found out about the last location does not replace what the user has opened
\* meanwhile (handleRestoreValidated).
THEOREM StartupAlwaysYields == Spec => StartupYields
<1> DEFINE Yields == startup = "validating" /\ startup' = "over" /\ serial' # serial => here = NoPath
<1>1. NavInv /\ [Next]_vars => [Yields]_vars
  <2> SUFFICES ASSUME NavInv, [Next]_vars, startup = "validating", startup' = "over", serial' # serial
               PROVE  here = NoPath
    OBVIOUS
  <2>1. PICK path \in Paths, ok \in BOOLEAN : RestoreValidated(path, ok)
    BY StartSteps DEF Start
  <2>2. candidate.serial = serial
    BY <2>1 DEF RestoreValidated, NotOvertaken
  <2>3. candidate.serial = 0
    BY DEF NavInv, Starting
  <2> QED
    BY <2>2, <2>3 DEF NavInv, Starting
<1> QED
  BY <1>1, NavInvHolds, PTL DEF Spec, StartupYields
===============================================================================
