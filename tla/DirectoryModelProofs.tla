------------------------- MODULE DirectoryModelProofs -------------------------
(***************************************************************************)
(* Proofs about DirectoryModel, for any directories, names and versions,   *)
(* and any number of walks and changes.  Everything rests on the order in  *)
(* which walks follow each other: what is left of earlier walks is told    *)
(* from the present one by its generation, and the present one reports     *)
(* every entry once, the last batch before its classification, and that    *)
(* before its end.                                                         *)
(***************************************************************************)
EXTENDS DirectoryModel, CompactionProofs, SequenceTheorems

Busy == pc \in {"read", "final", "classify"}
IsBatch(e) == e.type = "batch"
Current(e) == e.generation = generation

BatchEvent ==
  [type : {"batch"}, generation : Walks, path : Paths, diff : BOOLEAN, entries : Seq(Entry),
   finished : BOOLEAN, error : BOOLEAN]
WalkEvent == [type : {"classified", "walkFinished"}, generation : Walks, path : Paths]
ThreadEvent == [type : {"threadFinished"}, generation : {0}, path : {NoPath}]
Event == BatchEvent \cup WalkEvent \cup ThreadEvent

\* The types of everything but the listing.
FlagsTyped ==
  /\ error \in BOOLEAN /\ scanning \in BOOLEAN /\ suspended \in BOOLEAN /\ inFlight \in BOOLEAN
  /\ stopping \in BOOLEAN /\ notified \in BOOLEAN /\ opening \in BOOLEAN /\ quit \in BOOLEAN
  /\ succeeded \in BOOLEAN /\ failed \in BOOLEAN /\ missed \subseteq Names /\ closed \in BOOLEAN

DataTyped ==
  /\ path \in Paths \cup {NoPath} /\ watched \in Paths \cup {NoPath}
  /\ candidate \in Paths \cup {NoPath} /\ lastAccepted \in Paths \cup {NoPath}
  /\ generation \in 0 .. MaxWalks /\ (path = NoPath <=> generation = 0)
  /\ editing \in {"no", "rename", "create"}
  /\ cancelled \subseteq Walks /\ accepted \subseteq Walks
  /\ inbox \in Seq(Walk) /\ events \in Seq(Event)
  /\ pc \in {"idle", "read", "final", "classify", "exited"}
  /\ IF Busy THEN walk \in Walk ELSE walk = NoWalk
  /\ todo \subseteq Names /\ batch \in Seq(Entry)
  /\ fs \in [Paths -> [Names -> {0} \cup Versions]]

Typed == FlagsTyped /\ DataTyped

\* The rows are held still for the editor, and for nothing else.
HeldForEditor == (suspended <=> editing # "no") /\ (suspended => path # NoPath)

\* Walks are begun, and report, in the order of their generations; the end of a walk
\* is the last that is heard of it.
InOrder(list) ==
  \A i, j \in DOMAIN list : i < j /\ list[j].type # "threadFinished" =>
    /\ list[i].generation <= list[j].generation
    /\ list[i].type = "walkFinished" => list[i].generation < list[j].generation
UpTo(list, g) ==
  \A i \in DOMAIN list :
    list[i].generation <= g /\ (list[i].type = "walkFinished" => list[i].generation < g)

Order ==
  /\ walk.generation <= generation
  /\ \A i \in DOMAIN inbox :
       /\ inbox[i].generation <= generation /\ walk.generation < inbox[i].generation
       /\ \A j \in DOMAIN inbox : i < j => inbox[i].generation < inbox[j].generation
       /\ \A k \in DOMAIN events : events[k].generation < inbox[i].generation
  /\ \A k \in DOMAIN events : events[k].generation <= generation
  /\ InOrder(events)
  /\ Busy => UpTo(events, walk.generation)

\* The walk of the present generation reads the directory on screen, and the batches
\* of one walk agree on whether it is a refresh.
Agreement ==
  /\ \A i \in DOMAIN inbox : Current(inbox[i]) => inbox[i].path = path
  /\ Busy /\ Current(walk) => walk.path = path
  /\ \A i \in DOMAIN events :
       /\ events[i].type # "threadFinished" /\ Current(events[i]) => events[i].path = path
       /\ IsBatch(events[i]) /\ Busy /\ events[i].generation = walk.generation =>
            events[i].diff = walk.diff
       /\ \A j \in DOMAIN events :
            IsBatch(events[i]) /\ IsBatch(events[j]) /\ events[i].generation = events[j].generation =>
              events[i].diff = events[j].diff

\* A walk names every entry once.
Once(entries) == \A i, j \in DOMAIN entries : entries[i].name = entries[j].name => i = j
Unread == todo \cup NamesOf(batch)

NamedOnce ==
  /\ Once(batch) /\ NamesOf(batch) \cap todo = {}
  /\ \A i \in DOMAIN events : IsBatch(events[i]) =>
       /\ Once(events[i].entries)
       /\ Busy /\ events[i].generation = walk.generation =>
            NamesOf(events[i].entries) \cap Unread = {}
       /\ \A j \in DOMAIN events :
            IsBatch(events[j]) /\ i # j /\ events[i].generation = events[j].generation =>
              NamesOf(events[i].entries) \cap NamesOf(events[j].entries) = {}

\* What a load has yet to report is not among the rows.
NewToRows ==
  /\ \A i \in DOMAIN inbox : Current(inbox[i]) /\ ~inbox[i].diff => DOMAIN rowOf = {}
  /\ Busy /\ Current(walk) /\ ~walk.diff => Unread \cap DOMAIN rowOf = {}
  /\ \A i \in DOMAIN events : IsBatch(events[i]) /\ Current(events[i]) /\ ~events[i].diff =>
       NamesOf(events[i].entries) \cap DOMAIN rowOf = {}

\* The rows and identity_to_row_; seen_this_refresh_ holds names of rows.
Listing ==
  /\ rows \in Seq(Row) /\ DOMAIN rowOf \subseteq Names /\ seen \subseteq DOMAIN rowOf
  /\ \A r \in DOMAIN rows :
       IF rows[r] = PlaceholderRow THEN r = Len(rows) /\ editing = "create"
       ELSE rows[r].name \in DOMAIN rowOf /\ rowOf[rows[r].name] = r
  /\ \A n \in DOMAIN rowOf : rowOf[n] \in DOMAIN rows /\ rows[rowOf[n]].name = n
  /\ editing = "create" => rows # <<>> /\ rows[Len(rows)] = PlaceholderRow

\* The present walk is cancelled only while its batches are withheld.
Cancelling ==
  /\ \A g \in cancelled : g <= generation
  /\ generation \in cancelled => Withheld
  /\ pc = "final" /\ ~succeeded /\ ~failed /\ ~walk.diff /\ Current(walk) => Withheld
  /\ pc = "final" /\ succeeded => ~walk.diff /\ ~failed

\* The last batch of a walk is the last; a listing that does not scan expects none.
Progress ==
  /\ pc = "final" /\ ~failed => todo = {}
  /\ pc = "classify" => batch = <<>> /\ todo = {}
  /\ \A i \in DOMAIN events : IsBatch(events[i]) /\ events[i].finished =>
       /\ Busy /\ walk.generation = events[i].generation => pc = "classify"
       /\ \A j \in DOMAIN events :
            i < j /\ IsBatch(events[j]) => events[i].generation # events[j].generation
  /\ ~scanning /\ ~Withheld =>
       /\ \A i \in DOMAIN inbox : ~Current(inbox[i])
       /\ pc \in {"read", "final"} => ~Current(walk)
       /\ \A i \in DOMAIN events : IsBatch(events[i]) => ~Current(events[i])

\* A load that was accepted is on its way to the tracker until the tracker knows of it.
Classifying(g) == pc = "classify" /\ walk.generation = g
Classified(i) == i \in DOMAIN events /\ events[i].type = "classified"

Recording ==
  /\ \A g \in accepted :
       /\ g <= generation
       /\ \A i \in DOMAIN inbox : g < inbox[i].generation
       /\ pc \in {"read", "final"} => g # walk.generation
  /\ pc = "classify" /\ walk.generation \in accepted /\ walk.path \in LocalPaths =>
       lastAccepted = walk.path
  /\ \A i \in DOMAIN events :
       Classified(i) /\ events[i].generation \in accepted /\ events[i].path \in LocalPaths =>
         lastAccepted = events[i].path
  /\ \/ candidate = lastAccepted
     \/ pc = "classify" /\ walk.generation \in accepted /\ walk.path \in LocalPaths
     \/ \E i \in DOMAIN events :
          Classified(i) /\ events[i].generation \in accepted /\ events[i].path \in LocalPaths
  /\ \A i \in DOMAIN events :
       /\ IsBatch(events[i]) /\ events[i].finished /\ ~events[i].diff /\ ~events[i].error
       /\ Current(events[i]) /\ ~Withheld
       => \/ Classifying(generation)
          \/ \E j \in DOMAIN events : i < j /\ Classified(j) /\ Current(events[j])

\* The end of the thread is the last event.
Ending ==
  /\ closed => pc = "exited" /\ events = <<>>
  /\ \A i \in DOMAIN events :
       events[i].type = "threadFinished" => pc = "exited" /\ i = Len(events)

\* What the present walk has reported so far is how things are, unless a change has been
\* noticed; but for the entries with a change that went unreported.
Quiet ==
  /\ ~Withheld /\ ~notified /\ ~error /\ path # NoPath
  /\ \A i \in DOMAIN inbox : ~Current(inbox[i])
Exists(n) == n \notin missed /\ fs[path][n] # 0
Fresh(e) == e.name \in Names \ missed => e.version = fs[path][e.name]
Coming(n) ==
  \/ Busy /\ Current(walk) /\ n \in Unread
  \/ \E i \in DOMAIN events :
       /\ IsBatch(events[i]) /\ Current(events[i])
       /\ n \in NamesOf(events[i].entries) \/ events[i].error

LoadIsFresh ==
  /\ \A r \in DOMAIN rows : Fresh(rows[r])
  /\ \A n \in Names : Exists(n) => n \in DOMAIN rowOf \/ Coming(n)
DiffIsFresh ==
  /\ \A n \in seen : Fresh(rows[rowOf[n]])
  /\ \A n \in Names : Exists(n) => n \in seen \/ Coming(n)

Freshness ==
  /\ path # NoPath /\ ~opening => watched = path
  /\ (\E i \in DOMAIN inbox : Current(inbox[i])) => seen = {}
  /\ Quiet /\ Busy /\ Current(walk) =>
       /\ \A i \in DOMAIN batch : Fresh(batch[i])
       /\ pc # "classify" => IF walk.diff THEN DiffIsFresh ELSE LoadIsFresh
  /\ \A i \in DOMAIN events : Quiet /\ IsBatch(events[i]) /\ Current(events[i]) =>
       /\ \A k \in DOMAIN events[i].entries : Fresh(events[i].entries[k])
       /\ IF events[i].diff THEN DiffIsFresh ELSE LoadIsFresh
  /\ Quiet /\ ~scanning => LoadIsFresh

IInv ==
  /\ Typed /\ HeldForEditor /\ Order /\ Agreement /\ NamedOnce /\ NewToRows /\ Listing
  /\ Cancelling /\ Progress /\ Recording /\ Ending /\ Freshness

-----------------------------------------------------------------------------
(* The operators on rows.                                                  *)

\* One row an entry, and index says where it is.
Matches(all, index) ==
  /\ all \in Seq(Entry)
  /\ \A r \in DOMAIN all : all[r].name \in DOMAIN index /\ index[all[r].name] = r
  /\ \A n \in DOMAIN index : index[n] \in DOMAIN all /\ all[index[n]].name = n

\* The names of a list are the names of its entries.
LEMMA NamesOfLists ==
  /\ NamesOf(<<>>) = {}
  /\ \A s \in Seq(Entry) : NamesOf(s) \subseteq Names
  /\ \A s \in Seq(Entry), e \in Entry : NamesOf(Append(s, e)) = NamesOf(s) \cup {e.name}
<1>1. NamesOf(<<>>) = {}
  BY DEF NamesOf
<1>2. \A s \in Seq(Entry) : NamesOf(s) \subseteq Names
  <2> TAKE s \in Seq(Entry)
  <2>1. \A i \in DOMAIN s : s[i] \in Entry
    OBVIOUS
  <2>2. \A e \in Entry : e.name \in Names
    BY DEF Entry
  <2>3. QED
    BY <2>1, <2>2 DEF NamesOf
<1>3. ASSUME NEW s \in Seq(Entry), NEW e \in Entry
      PROVE  NamesOf(Append(s, e)) = NamesOf(s) \cup {e.name}
  <2>1. /\ DOMAIN Append(s, e) = 1 .. Len(s) + 1 /\ DOMAIN s = 1 .. Len(s) /\ Len(s) \in Nat
        /\ \A i \in 1 .. Len(s) : Append(s, e)[i] = s[i]
        /\ Append(s, e)[Len(s) + 1] = e
    OBVIOUS
  <2>2. \A n \in NamesOf(Append(s, e)) : n \in NamesOf(s) \/ n = e.name
    BY <2>1 DEF NamesOf
  <2>3. \A n \in NamesOf(s) : n \in NamesOf(Append(s, e))
    BY <2>1 DEF NamesOf
  <2>4. Len(s) + 1 \in 1 .. Len(s) + 1
    BY <2>1
  <2>5. e.name \in NamesOf(Append(s, e))
    BY <2>1, <2>4 DEF NamesOf
  <2>6. QED
    BY <2>2, <2>3, <2>5
<1>4. QED
  BY <1>1, <1>2, <1>3

\* appendEntries: the new rows follow, each under its identity.
LEMMA AppendingMatches ==
  ASSUME NEW base, Matches(base, rowOf), Len(base) = Len(rows),
         NEW entries \in Seq(Entry), Once(entries), NamesOf(entries) \cap DOMAIN rowOf = {}
  PROVE  /\ Matches(base \o entries, AppendedRowOf(entries))
         /\ DOMAIN AppendedRowOf(entries) = DOMAIN rowOf \cup NamesOf(entries)
<1> DEFINE all == base \o entries
           index == AppendedRowOf(entries)
           At(n) == CHOOSE i \in DOMAIN entries : entries[i].name = n
<1>1. /\ all \in Seq(Entry) /\ Len(base) \in Nat /\ Len(entries) \in Nat
      /\ DOMAIN all = 1 .. Len(base) + Len(entries)
      /\ DOMAIN base = 1 .. Len(base) /\ DOMAIN entries = 1 .. Len(entries)
      /\ \A r \in 1 .. Len(base) : all[r] = base[r]
      /\ \A i \in 1 .. Len(entries) : all[Len(base) + i] = entries[i]
  BY DEF Matches
<1>2. DOMAIN index = DOMAIN rowOf \cup NamesOf(entries)
  BY DEF AppendedRowOf
<1>3. \A n \in NamesOf(entries) : At(n) \in DOMAIN entries /\ entries[At(n)].name = n
  BY DEF NamesOf
<1>4. \A i \in DOMAIN entries : entries[i].name \in NamesOf(entries) /\ At(entries[i].name) = i
  BY <1>3 DEF NamesOf, Once
<1>5. \A n \in NamesOf(entries) : index[n] = Len(base) + At(n)
  BY DEF AppendedRowOf, NamesOf
<1>6. \A n \in DOMAIN rowOf : index[n] = rowOf[n]
  BY DEF AppendedRowOf, NamesOf
<1> HIDE DEF index, all, At
<1>7. ASSUME NEW r \in DOMAIN all PROVE all[r].name \in DOMAIN index /\ index[all[r].name] = r
  <2>1. CASE r \in 1 .. Len(base)
    BY <1>1, <1>2, <1>6, <2>1 DEF Matches
  <2>2. CASE r \notin 1 .. Len(base)
    <3>1. PICK i \in 1 .. Len(entries) : r = Len(base) + i
      <4>1. r - Len(base) \in 1 .. Len(entries) /\ r = Len(base) + (r - Len(base))
        BY <1>1, <2>2
      <4>2. QED
        BY <4>1
    <3>2. QED
      BY <1>1, <1>2, <1>4, <1>5, <3>1
  <2>3. QED
    BY <2>1, <2>2
<1>8. ASSUME NEW n \in DOMAIN index PROVE index[n] \in DOMAIN all /\ all[index[n]].name = n
  <2>1. CASE n \in NamesOf(entries)
    <3>1. PICK i \in 1 .. Len(entries) : i = At(n)
      BY <1>1, <1>3, <2>1
    <3>2. Len(base) + i \in DOMAIN all /\ all[Len(base) + i] = entries[i] /\ entries[i].name = n
      BY <1>1, <1>3, <2>1, <3>1
    <3>3. QED
      BY <1>5, <2>1, <3>1, <3>2
  <2>2. CASE n \in DOMAIN rowOf
    BY <1>1, <1>6, <2>2 DEF Matches
  <2>3. QED
    BY <1>2, <2>1, <2>2
<1>9. QED
  BY <1>1, <1>2, <1>7, <1>8 DEF Matches, all, index

\* applyDiffEntries, on the rows that were there: each that is named anew is replaced.
LEMMA UpdatingMatches ==
  ASSUME Matches(rows, rowOf), NEW entries \in Seq(Entry)
  PROVE  /\ Matches(UpdatedRows(entries), rowOf) /\ Len(UpdatedRows(entries)) = Len(rows)
         /\ \A r \in DOMAIN rows :
              IF rows[r].name \in NamesOf(entries)
              THEN \E i \in DOMAIN entries : UpdatedRows(entries)[r] = entries[i]
              ELSE UpdatedRows(entries)[r] = rows[r]
<1> DEFINE U == UpdatedRows(entries)
<1>1. /\ rows \in Seq(Entry) /\ DOMAIN rows = 1 .. Len(rows) /\ Len(rows) \in Nat
      /\ DOMAIN U = 1 .. Len(rows)
  BY DEF Matches, UpdatedRows
<1>2. \A e \in Range(entries) : e \in Entry /\ \E i \in DOMAIN entries : e = entries[i]
  BY DEF Range
<1>3. ASSUME NEW r \in DOMAIN rows
      PROVE  IF rows[r].name \in NamesOf(entries)
             THEN U[r] \in Range(entries) /\ U[r].name = rows[r].name
             ELSE U[r] = rows[r]
  <2> DEFINE Replaces(e) == e.name \in DOMAIN rowOf /\ rowOf[e.name] = r
  <2>1. \A e \in Range(entries) : Replaces(e) <=> e.name = rows[r].name
    BY <1>1 DEF Matches
  <2>2. (\E e \in Range(entries) : e.name = rows[r].name) <=> rows[r].name \in NamesOf(entries)
    BY DEF Range, NamesOf
  <2>3. U[r] = IF \E e \in Range(entries) : Replaces(e)
               THEN CHOOSE e \in Range(entries) : Replaces(e)
               ELSE rows[r]
    BY DEF UpdatedRows
  <2> HIDE DEF Replaces
  <2>4. QED
    BY <2>1, <2>2, <2>3
<1> HIDE DEF U
<1>4. \A r \in DOMAIN rows : U[r] \in Entry /\ U[r].name = rows[r].name
  BY <1>1, <1>2, <1>3
<1>5. U \in Seq(Entry) /\ Len(U) = Len(rows)
  <2>1. U = [r \in 1 .. Len(rows) |-> U[r]]
    BY <1>1 DEF U, UpdatedRows
  <2>2. QED
    BY <1>1, <1>4, <2>1
<1>6. Matches(U, rowOf)
  BY <1>1, <1>4, <1>5 DEF Matches
<1>7. QED
  BY <1>2, <1>3, <1>5, <1>6 DEF U

\* What is left of a list with one entry a name has one entry a name.
LEMMA RestIsOnce ==
  ASSUME NEW all \in Seq(Entry), Once(all), NEW D \in SUBSET DOMAIN all
  PROVE  /\ Without(all, D) \in Seq(Entry) /\ Once(Without(all, D))
         /\ \A k \in DOMAIN Without(all, D) : \E i \in DOMAIN all \ D : Without(all, D)[k] = all[i]
         /\ \A i \in DOMAIN all \ D : \E k \in DOMAIN Without(all, D) : Without(all, D)[k] = all[i]
<1> DEFINE W == Without(all, D)
<1>1. /\ W \in Seq(Entry)
      /\ \A i \in DOMAIN all \ D : Position(i, D) \in DOMAIN W /\ W[Position(i, D)] = all[i]
      /\ \A k \in DOMAIN W : \E i \in DOMAIN all \ D : k = Position(i, D) /\ W[k] = all[i]
  BY WithoutIsCompact
<1> HIDE DEF W
<1>2. Once(W)
  BY <1>1 DEF Once
<1>3. QED
  BY <1>1, <1>2 DEF W

\* applyDiffEntries, on entries there is no row for.
LEMMA AdditionsAreNew ==
  ASSUME NEW entries \in Seq(Entry), Once(entries)
  PROVE  /\ Additions(entries) \in Seq(Entry) /\ Once(Additions(entries))
         /\ NamesOf(Additions(entries)) = NamesOf(entries) \ DOMAIN rowOf
         /\ \A k \in DOMAIN Additions(entries) :
              \E i \in DOMAIN entries : Additions(entries)[k] = entries[i]
<1> DEFINE D == {i \in DOMAIN entries : entries[i].name \in DOMAIN rowOf}
<1>1. Additions(entries) = Without(entries, D)
  BY DEF Additions
<1>2. /\ Additions(entries) \in Seq(Entry) /\ Once(Additions(entries))
      /\ \A k \in DOMAIN Additions(entries) :
           \E i \in DOMAIN entries \ D : Additions(entries)[k] = entries[i]
      /\ \A i \in DOMAIN entries \ D :
           \E k \in DOMAIN Additions(entries) : Additions(entries)[k] = entries[i]
  <2>1. D \in SUBSET DOMAIN entries
    OBVIOUS
  <2> HIDE DEF D
  <2>2. QED
    BY <1>1, <2>1, RestIsOnce
<1>3. NamesOf(Additions(entries)) = NamesOf(entries) \ DOMAIN rowOf
  <2>1. \A n \in NamesOf(Additions(entries)) : n \in NamesOf(entries) \ DOMAIN rowOf
    BY <1>2 DEF NamesOf
  <2>2. \A n \in NamesOf(entries) \ DOMAIN rowOf : n \in NamesOf(Additions(entries))
    BY <1>2 DEF NamesOf
  <2>3. QED
    BY <2>1, <2>2
<1>4. QED
  BY <1>2, <1>3

\* finishDiff: what has been seen is left, and numbered afresh.
LEMMA KeptMatches ==
  ASSUME NEW list \in Seq(Entry), Once(list), NEW names
  PROVE  /\ Matches(Kept(list, names), Renumbered(Kept(list, names)))
         /\ DOMAIN Renumbered(Kept(list, names)) = NamesOf(list) \cap names
         /\ Range(Kept(list, names)) \subseteq Range(list)
<1> DEFINE D == {r \in DOMAIN list : list[r].name \notin names}
           K == Kept(list, names)
           At(n) == CHOOSE r \in DOMAIN K : K[r].name = n
<1>1. K = Without(list, D)
  BY DEF Kept
<1>2. /\ K \in Seq(Entry) /\ Once(K)
      /\ \A k \in DOMAIN K : \E i \in DOMAIN list \ D : K[k] = list[i]
      /\ \A i \in DOMAIN list \ D : \E k \in DOMAIN K : K[k] = list[i]
  <2>1. D \in SUBSET DOMAIN list
    OBVIOUS
  <2> HIDE DEF D, K
  <2>2. QED
    BY <1>1, <2>1, RestIsOnce
<1> HIDE DEF K
<1>3. NamesOf(K) = NamesOf(list) \cap names
  <2>1. \A n \in NamesOf(K) : n \in NamesOf(list) \cap names
    BY <1>2 DEF NamesOf
  <2>2. \A n \in NamesOf(list) \cap names : n \in NamesOf(K)
    BY <1>2 DEF NamesOf
  <2>3. QED
    BY <2>1, <2>2
<1>4. DOMAIN Renumbered(K) = NamesOf(K) /\ \A n \in NamesOf(K) : Renumbered(K)[n] = At(n)
  BY DEF Renumbered
<1>5. \A n \in NamesOf(K) : At(n) \in DOMAIN K /\ K[At(n)].name = n
  BY DEF NamesOf
<1>6. \A r \in DOMAIN K : K[r].name \in NamesOf(K) /\ At(K[r].name) = r
  BY <1>5 DEF NamesOf, Once
<1> HIDE DEF At
<1>7. Matches(K, Renumbered(K))
  BY <1>2, <1>4, <1>5, <1>6 DEF Matches
<1>8. \A e \in Range(K) : e \in Range(list)
  BY <1>2 DEF Range
<1>9. QED
  BY <1>2, <1>3, <1>4, <1>7, <1>8 DEF K

-----------------------------------------------------------------------------
(* Sequences, and the shapes of steps.                                     *)

\* What is left of a queue when its head is taken.
LEMMA TakenHead ==
  ASSUME NEW S, NEW s \in Seq(S), s # <<>>
  PROVE  /\ Tail(s) \in Seq(S) /\ Head(s) = s[1] /\ 1 \in DOMAIN s /\ s[1] \in S
         /\ \A i \in DOMAIN Tail(s) : i + 1 \in DOMAIN s /\ Tail(s)[i] = s[i + 1]
         /\ \A i \in DOMAIN s : i = 1 \/ (i - 1 \in DOMAIN Tail(s) /\ Tail(s)[i - 1] = s[i])
         /\ \A i \in DOMAIN s : i \in Nat /\ i >= 1 /\ i <= Len(s)
         /\ Len(Tail(s)) = Len(s) - 1 /\ Len(s) \in DOMAIN s /\ Len(s) \in Nat
OBVIOUS

\* What a queue is when something has been appended to it.
LEMMA AppendedLast ==
  ASSUME NEW S, NEW s \in Seq(S), NEW e \in S
  PROVE  /\ Append(s, e) \in Seq(S)
         /\ \A i \in DOMAIN Append(s, e) :
              \/ i \in DOMAIN s /\ Append(s, e)[i] = s[i]
              \/ i = Len(s) + 1 /\ Append(s, e)[i] = e
         /\ \A i \in DOMAIN s : i \in DOMAIN Append(s, e) /\ Append(s, e)[i] = s[i] /\ i < Len(s) + 1
         /\ \A i \in DOMAIN s : i \in Nat /\ i >= 1 /\ i <= Len(s)
         /\ Len(s) + 1 \in DOMAIN Append(s, e) /\ Append(s, e)[Len(s) + 1] = e
         /\ Len(Append(s, e)) = Len(s) + 1 /\ Len(s) \in Nat
OBVIOUS

\* A walk's end is reported after its last batch or its classification, if any.
LEMMA ReportsAreAppended ==
  ASSUME events \in Seq(Event), NEW r, NEW e
  PROVE  /\ events \o <<>> \o <<e>> = Append(events, e)
         /\ events \o <<r>> \o <<e>> = Append(Append(events, r), e)
OBVIOUS

\* The three kinds of events, and their fields.
LEMMA Events ==
  /\ \A e \in Event : IsBatch(e) <=> e \in BatchEvent
  /\ \A e \in Event : e.type = "threadFinished" <=> e \in ThreadEvent
  /\ \A e \in Event : e.type \in {"classified", "walkFinished"} <=> e \in WalkEvent
  /\ \A e \in BatchEvent : /\ e.generation \in Walks /\ e.path \in Paths /\ e.diff \in BOOLEAN
                           /\ e.entries \in Seq(Entry) /\ e.finished \in BOOLEAN /\ e.error \in BOOLEAN
  /\ \A e \in WalkEvent : e.generation \in Walks /\ e.path \in Paths
  /\ \A e \in ThreadEvent : e.generation = 0
  /\ \A e \in Event : e.generation \in Int
BY ConstantsAssumption DEF Event, BatchEvent, WalkEvent, ThreadEvent, IsBatch, Walks

-----------------------------------------------------------------------------
(* Types.                                                                  *)

\* Generations are numbers.
LEMMA Numbers == MaxWalks \in Nat /\ 0 .. MaxWalks \subseteq Nat /\ Walks \subseteq Nat \ {0}
BY ConstantsAssumption DEF Walks

\* What may be cancelled are walks.
LEMMA CancelledAreWalks ==
  ASSUME Typed, CancelWalk
  PROVE  /\ cancelled' \subseteq Walks
         /\ \A g \in cancelled' : g \in cancelled \/ g = generation
<1>1. \A g \in cancelled' : g \in cancelled \/ (g = generation /\ g # 0)
  BY DEF CancelWalk
<1>2. generation \in 0 .. MaxWalks /\ cancelled \subseteq Walks
  BY DEF Typed, DataTyped
<1>3. generation # 0 => generation \in Walks
  BY <1>2, Numbers DEF Walks
<1>4. QED
  BY <1>1, <1>2, <1>3

\* A walk that starts.
LEMMA StartedWalk ==
  ASSUME Typed, NEW p \in Paths, NEW diff \in BOOLEAN, StartWalk(p, diff)
  PROVE  LET w == [generation |-> generation + 1, path |-> p, diff |-> diff] IN
         /\ w \in Walk /\ inbox' = Append(inbox, w) /\ inbox' \in Seq(Walk)
         /\ generation' \in 0 .. MaxWalks /\ generation' = generation + 1 /\ generation' # 0
         /\ cancelled' \subseteq Walks
         /\ \A g \in cancelled' : g \in cancelled \/ g = generation
         /\ error' = FALSE /\ scanning' = TRUE /\ inFlight' = TRUE /\ seen' = {}
<1> DEFINE w == [generation |-> generation + 1, path |-> p, diff |-> diff]
<1>1. generation \in 0 .. MaxWalks /\ inbox \in Seq(Walk) /\ generation < MaxWalks
  BY DEF Typed, DataTyped, StartWalk
<1>2. generation + 1 \in 1 .. MaxWalks /\ generation + 1 # 0
  BY <1>1, Numbers
<1>3. w \in Walk
  BY <1>2 DEF Walk
<1>4. generation' = generation + 1 /\ inbox' = Append(inbox, w)
  BY DEF StartWalk
<1>5. inbox' \in Seq(Walk)
  BY <1>1, <1>3, <1>4
<1>6. CancelWalk
  BY DEF StartWalk
<1>7. QED
  BY <1>2, <1>3, <1>4, <1>5, <1>6, CancelledAreWalks, Numbers DEF StartWalk, ClearSeen

\* The events that are posted.
LEMMA PostedEvents ==
  ASSUME Typed, Busy, NEW finished \in BOOLEAN, NEW err \in BOOLEAN
  PROVE  /\ Batch(finished, err) \in Event
         /\ [type |-> "classified", generation |-> walk.generation, path |-> walk.path] \in Event
         /\ [type |-> "walkFinished", generation |-> walk.generation, path |-> walk.path] \in Event
<1>1. walk \in Walk /\ batch \in Seq(Entry)
  BY DEF Typed, DataTyped
<1>2. walk.generation \in Walks /\ walk.path \in Paths /\ walk.diff \in BOOLEAN
  BY <1>1 DEF Walk, Walks
<1>3. Batch(finished, err) \in BatchEvent
  BY <1>1, <1>2 DEF Batch, BatchEvent
<1>4. QED
  BY <1>2, <1>3 DEF Event, WalkEvent

\* What is posted is an event.
LEMMA PostedWell ==
  ASSUME events \in Seq(Event), NEW e \in Event, Post(e)
  PROVE  events' \in Seq(Event) /\ events' = Append(events, e)
BY DEF Post

\* A walk that ends.
EndReport == [type |-> "walkFinished", generation |-> walk.generation, path |-> walk.path]

LEMMA EndedWalk ==
  ASSUME Typed, Busy, NEW reports, EndWalk(reports),
         \/ reports = <<>>
         \/ \E r \in Event : reports = <<r>>
  PROVE  /\ EndReport \in Event /\ events' \in Seq(Event)
         /\ reports = <<>> => events' = Append(events, EndReport)
         /\ \A r \in Event : reports = <<r>> => events' = Append(Append(events, r), EndReport)
<1>1. EndReport \in Event /\ events \in Seq(Event)
  BY PostedEvents DEF Typed, DataTyped, EndReport
<1>2. events' = events \o reports \o <<EndReport>>
  BY DEF EndWalk, EndReport
<1>3. CASE reports = <<>>
  <2>1. events' = Append(events, EndReport)
    BY <1>1, <1>2, <1>3, ReportsAreAppended
  <2>2. events' \in Seq(Event) /\ \A r \in Event : reports # <<r>>
    BY <1>1, <1>3, <2>1, AppendedLast
  <2>3. QED
    BY <1>1, <2>1, <2>2
<1>4. ASSUME NEW r \in Event, reports = <<r>>
      PROVE  events' = Append(Append(events, r), EndReport) /\ events' \in Seq(Event)
  <2>1. events' = Append(Append(events, r), EndReport)
    BY <1>1, <1>2, <1>4, ReportsAreAppended
  <2>2. Append(events, r) \in Seq(Event)
    BY <1>1, AppendedLast
  <2>3. QED
    BY <1>1, <2>1, <2>2, AppendedLast
<1>5. \A r \in Event : reports = <<r>> => reports # <<>>
  OBVIOUS
<1>6. QED
  BY <1>1, <1>3, <1>4, <1>5

\* Every step keeps the types of the flags.
LEMMA FlagsKept ==
  ASSUME Typed, [Next]_vars
  PROVE  FlagsTyped'
<1> USE DEF Typed, FlagsTyped
<1>1. ASSUME NEW p, NEW diff, StartWalk(p, diff)
      PROVE  error' \in BOOLEAN /\ scanning' \in BOOLEAN /\ inFlight' \in BOOLEAN
  BY <1>1 DEF StartWalk
<1>2. ASSUME NEW p \in Paths, Load(p) PROVE FlagsTyped'
  BY <1>1, <1>2 DEF Load, walkVars
<1>3. CASE AddWatch
  BY <1>3 DEF AddWatch, modelVars, histVars, walkVars
<1>4. ASSUME Refresh
      PROVE  /\ error' \in BOOLEAN /\ scanning' \in BOOLEAN /\ inFlight' \in BOOLEAN
             /\ suspended' \in BOOLEAN /\ stopping' \in BOOLEAN /\ missed' \subseteq Names
  BY <1>1, <1>4 DEF Refresh, modelVars
<1>5. CASE DirectoryChanged
  BY <1>4, <1>5 DEF DirectoryChanged, walkVars
<1>6. CASE TaskFinished
  BY <1>4, <1>6 DEF TaskFinished, userVars, walkVars
<1>7. ASSUME NEW mode, BeginEditing(mode) PROVE FlagsTyped'
  BY <1>7 DEF BeginEditing, histVars, walkVars
<1>8. CASE EndEditing
  BY <1>1, <1>8 DEF EndEditing, walkVars
<1>9. CASE Shutdown
  BY <1>9 DEF Shutdown, QuitNow, userVars, histVars, walkVars
<1>10. CASE Deliver
  <2>1. ASSUME NEW type, Delivered(type)
        PROVE  UNCHANGED <<notified, opening, missed, succeeded, failed>>
    BY <2>1 DEF Delivered, walkVars
  <2>2. ASSUME NEW e, OnBatch(e) PROVE
          /\ error' \in BOOLEAN /\ scanning' \in BOOLEAN /\ suspended' \in BOOLEAN
          /\ inFlight' \in BOOLEAN /\ stopping' \in BOOLEAN /\ quit' \in BOOLEAN /\ closed' \in BOOLEAN
    BY <2>2 DEF OnBatch
  <2>3. ASSUME NEW e, OnClassified(e) \/ OnWalkFinished(e) \/ OnThreadFinished PROVE
          /\ error' \in BOOLEAN /\ scanning' \in BOOLEAN /\ suspended' \in BOOLEAN
          /\ inFlight' \in BOOLEAN /\ stopping' \in BOOLEAN /\ quit' \in BOOLEAN /\ closed' \in BOOLEAN
    BY <2>3 DEF OnClassified, OnWalkFinished, OnThreadFinished, modelVars
  <2>4. QED
    BY <1>10, <2>1, <2>2, <2>3 DEF Deliver
<1>11. ASSUME UNCHANGED <<guiVars, quit>>, succeeded' \in BOOLEAN, failed' \in BOOLEAN
       PROVE  FlagsTyped'
  BY <1>11 DEF guiVars, modelVars, userVars, histVars
<1>12. CASE Worker
  <2>1. UNCHANGED <<guiVars, quit>>
    BY <1>12 DEF Worker, BeginWalk, ReadEntry, PostBatch, AbandonWalk, CompleteWalk, PostFinal,
                 Classify, ExitThread, EndWalk, WorkerStep
  <2>2. ASSUME NEW reports, EndWalk(reports) PROVE succeeded' \in BOOLEAN /\ failed' \in BOOLEAN
    BY <2>2 DEF EndWalk
  <2>3. ASSUME NEW err \in BOOLEAN, CompleteWalk(err) PROVE succeeded' \in BOOLEAN /\ failed' \in BOOLEAN
    BY <2>3 DEF CompleteWalk
  <2>4. succeeded' \in BOOLEAN /\ failed' \in BOOLEAN
    BY <1>12, <2>2, <2>3 DEF Worker, BeginWalk, ReadEntry, PostBatch, AbandonWalk, PostFinal,
                             Classify, ExitThread, walkVars
  <2>5. QED
    BY <1>11, <2>1, <2>4
<1>13. ASSUME NEW p, NEW n \in Names, NEW v, Change(p, n, v) PROVE FlagsTyped'
  <2>1. UNCHANGED <<error, scanning, suspended, inFlight, stopping, opening, quit, succeeded,
                    failed, closed>>
    BY <1>13 DEF Change, modelVars, walkVars
  <2>2. notified' \in BOOLEAN /\ missed' \subseteq Names
    BY <1>13 DEF Change
  <2>3. QED
    BY <2>1, <2>2
<1>14. CASE UNCHANGED vars
  BY <1>14 DEF vars, guiVars, modelVars, userVars, histVars, walkVars
<1>15. QED
  BY <1>2, <1>3, <1>5, <1>6, <1>7, <1>8, <1>9, <1>10, <1>12, <1>13, <1>14 DEF Next, User

\* Every step keeps the types of the data.
LEMMA DataKept ==
  ASSUME Typed, HeldForEditor, [Next]_vars
  PROVE  DataTyped'
<1> USE DEF Typed, DataTyped, Busy
<1>1. ASSUME NEW p \in Paths, Load(p) PROVE DataTyped'
  BY <1>1, StartedWalk, ConstantsAssumption DEF Load, walkVars, fsVars
<1>2. CASE AddWatch
  BY <1>2 DEF AddWatch, modelVars, histVars, walkVars, fsVars
<1>3. ASSUME Refresh,
             UNCHANGED <<editing, watched, opening, candidate, accepted, lastAccepted, closed,
                         events, quit, pc, walkVars, fsVars>>
      PROVE  DataTyped'
  <2>1. CASE stopping \/ suspended \/ path = NoPath
    BY <1>3, <2>1 DEF Refresh, modelVars, walkVars, fsVars
  <2>2. CASE ~(stopping \/ suspended \/ path = NoPath)
    <3>1. StartWalk(path, TRUE) /\ path \in Paths /\ missed' = {}
      BY <1>3, <2>2 DEF Refresh
    <3>2. UNCHANGED <<path, rows, rowOf, suspended, stopping>>
      BY <1>3, <2>2 DEF Refresh
    <3>3. QED
      BY <1>3, <2>2, <3>1, <3>2, StartedWalk DEF walkVars, fsVars
  <2>3. QED
    BY <2>1, <2>2
<1>4. CASE DirectoryChanged
  BY <1>3, <1>4 DEF DirectoryChanged
<1>5. CASE TaskFinished
  BY <1>3, <1>5 DEF TaskFinished, userVars
<1>6. ASSUME NEW mode \in {"rename", "create"}, BeginEditing(mode) PROVE DataTyped'
  BY <1>6, CancelledAreWalks DEF BeginEditing, histVars, walkVars, fsVars
<1>7. CASE EndEditing
  <2>1. StartWalk(path, TRUE) /\ path \in Paths
    BY <1>7 DEF EndEditing, HeldForEditor
  <2>2. /\ generation' \in 0 .. MaxWalks /\ generation' # 0
        /\ cancelled' \subseteq Walks /\ inbox' \in Seq(Walk)
    BY <2>1, StartedWalk
  <2>3. QED
    BY <1>7, <2>1, <2>2, ConstantsAssumption DEF EndEditing, walkVars, fsVars
<1>8. CASE Shutdown
  BY <1>8, CancelledAreWalks DEF Shutdown, QuitNow, userVars, histVars, walkVars, fsVars
<1>9. CASE Deliver
  <2> DEFINE e == Head(events)
  <2>1. ASSUME NEW type, Delivered(type)
        PROVE  /\ events' \in Seq(Event) /\ e \in Event /\ e.type = type
               /\ UNCHANGED <<editing, watched, notified, opening, missed, cancelled, inbox, pc,
                              walk, todo, batch, succeeded, failed, fs>>
    BY <2>1, TakenHead DEF Delivered, walkVars, fsVars
  <2> HIDE DEF e
  <2>2. CASE Delivered("batch") /\ OnBatch(e)
    <3>1. e \in BatchEvent
      BY <2>1, <2>2, Events DEF IsBatch
    <3>2. e.generation \in Walks /\ e.finished \in BOOLEAN /\ e.error \in BOOLEAN
      BY <3>1, Events
    <3>3. accepted' \subseteq Walks /\ lastAccepted' \in Paths \cup {NoPath}
      BY <2>2, <3>2 DEF OnBatch
    <3>4. UNCHANGED <<path, generation, suspended, stopping, candidate, closed>>
      BY <2>2 DEF OnBatch
    <3>5. QED
      BY <2>1, <2>2, <3>3, <3>4
  <2>3. CASE Delivered("classified") /\ OnClassified(e)
    <3>1. e \in WalkEvent
      BY <2>1, <2>3, Events
    <3>2. QED
      BY <2>1, <2>3, <3>1, Events DEF OnClassified, modelVars
  <2>4. CASE Delivered("walkFinished") /\ OnWalkFinished(e)
    BY <2>1, <2>4 DEF OnWalkFinished
  <2>5. CASE Delivered("threadFinished") /\ OnThreadFinished
    BY <2>1, <2>5 DEF OnThreadFinished, modelVars
  <2>6. QED
    BY <1>9, <2>2, <2>3, <2>4, <2>5 DEF Deliver, e
<1> USE DEF WorkerStep, guiVars, modelVars, userVars, histVars, fsVars
<1>10. CASE BeginWalk
  BY <1>10, TakenHead DEF BeginWalk, Entry
<1>11. ASSUME NEW n \in Names, ReadEntry(n) PROVE DataTyped'
  <2>1. walk.path \in Paths
    BY <1>11 DEF ReadEntry, Walk
  <2>2. fs[walk.path][n] # 0 => [name |-> n, version |-> fs[walk.path][n]] \in Entry
    BY <2>1 DEF Entry
  <2>3. batch' \in Seq(Entry)
    BY <1>11, <2>2 DEF ReadEntry
  <2>4. QED
    BY <1>11, <2>3 DEF ReadEntry
<1>12. CASE PostBatch
  <2>1. Batch(FALSE, FALSE) \in Event
    BY <1>12, PostedEvents DEF PostBatch
  <2>2. events' \in Seq(Event)
    BY <1>12, <2>1, PostedWell DEF PostBatch
  <2>3. QED
    BY <1>12, <2>2 DEF PostBatch
<1>13. ASSUME NEW reports, EndWalk(reports), Busy, reports = <<>> \/ \E r \in Event : reports = <<r>>
       PROVE  DataTyped'
  <2>1. events' \in Seq(Event)
    BY <1>13, EndedWalk
  <2>2. QED
    BY <1>13, <2>1 DEF EndWalk
<1>14. CASE AbandonWalk
  BY <1>13, <1>14 DEF AbandonWalk
<1>15. ASSUME NEW err \in BOOLEAN, CompleteWalk(err) PROVE DataTyped'
  BY <1>15 DEF CompleteWalk, Walk
<1>16. CASE PostFinal
  <2>1. Batch(TRUE, failed) \in Event
    <3>1. Busy /\ failed \in BOOLEAN
      BY <1>16 DEF PostFinal, FlagsTyped
    <3>2. QED
      BY <3>1, PostedEvents
  <2>2. CASE EndWalk(<<Batch(TRUE, failed)>>)
    BY <1>13, <1>16, <2>1, <2>2 DEF PostFinal
  <2>3. CASE ~EndWalk(<<Batch(TRUE, failed)>>)
    <3>1. events' \in Seq(Event)
      BY <1>16, <2>1, <2>3, PostedWell DEF PostFinal
    <3>2. /\ pc' = "classify" /\ batch' = <<>> /\ pc = "final"
          /\ UNCHANGED <<walk, todo, inbox>> /\ WorkerStep
      BY <1>16, <2>3 DEF PostFinal
    <3>3. QED
      BY <3>1, <3>2
  <2>4. QED
    BY <2>2, <2>3
<1>17. CASE Classify
  BY <1>13, <1>17, PostedEvents DEF Classify, Reported
<1>18. CASE ExitThread
  <2>1. [type |-> "threadFinished", generation |-> 0, path |-> NoPath] \in Event
    BY DEF Event, ThreadEvent
  <2>2. events' \in Seq(Event)
    BY <1>18, <2>1, PostedWell DEF ExitThread
  <2>3. QED
    BY <1>18, <2>2 DEF ExitThread, walkVars
<1>19. ASSUME NEW p \in Paths, NEW n \in Names, NEW v \in {0} \cup Versions, Change(p, n, v)
       PROVE  DataTyped'
  BY <1>19 DEF Change, walkVars
<1>20. CASE UNCHANGED vars
  BY <1>20 DEF vars, walkVars
<1>21. QED
  BY <1>1, <1>2, <1>4, <1>5, <1>6, <1>7, <1>8, <1>9, <1>10, <1>11, <1>12, <1>14, <1>15, <1>16,
     <1>17, <1>18, <1>19, <1>20
     DEF Next, User, Worker

-----------------------------------------------------------------------------
(* The editor, and the order of walks.                                     *)

\* Every step holds the listing for an editor, or releases it with the last one.
LEMMA HeldKept ==
  ASSUME Typed, HeldForEditor, [Next]_vars
  PROVE  HeldForEditor'
<1> USE DEF HeldForEditor
<1>1. ASSUME NEW p \in Paths, Load(p) PROVE HeldForEditor'
  BY <1>1 DEF Load
<1>2. CASE AddWatch
  BY <1>2 DEF AddWatch, modelVars
<1>3. ASSUME Refresh PROVE UNCHANGED <<suspended, path>>
  BY <1>3 DEF Refresh, modelVars
<1>4. CASE DirectoryChanged \/ TaskFinished
  BY <1>3, <1>4 DEF DirectoryChanged, TaskFinished, userVars
<1>5. ASSUME NEW mode \in {"rename", "create"}, BeginEditing(mode) PROVE HeldForEditor'
  BY <1>5 DEF BeginEditing
<1>6. CASE EndEditing
  BY <1>6 DEF EndEditing
<1>7. CASE Shutdown
  BY <1>7 DEF Shutdown, userVars
<1>8. CASE Deliver
  BY <1>8 DEF Deliver, Delivered, OnBatch, OnClassified, OnWalkFinished, OnThreadFinished, modelVars
<1>9. CASE Worker
  <2>1. UNCHANGED guiVars
    BY <1>9 DEF Worker, BeginWalk, ReadEntry, PostBatch, AbandonWalk, CompleteWalk, PostFinal,
                Classify, ExitThread, EndWalk, WorkerStep
  <2>2. QED
    BY <2>1 DEF guiVars, modelVars, userVars
<1>10. ASSUME NEW p, NEW n, NEW v, Change(p, n, v) PROVE HeldForEditor'
  BY <1>10 DEF Change, modelVars
<1>11. CASE UNCHANGED vars
  BY <1>11 DEF vars, guiVars, modelVars, userVars
<1>12. QED
  BY <1>1, <1>2, <1>4, <1>5, <1>6, <1>7, <1>8, <1>9, <1>10, <1>11 DEF Next, User

\* What a step is to the walks: one starts, the worker goes on with one, a report of one
\* is delivered, or the step is aside of them all.
Starting(w) ==
  /\ w \in Walk /\ w.generation = generation + 1 /\ generation' = generation + 1 /\ w.path = path'
  /\ inbox' = Append(inbox, w)
  /\ IF w.diff THEN rowOf' = rowOf ELSE DOMAIN rowOf' = {}
  /\ seen' = {} /\ error' = FALSE /\ scanning' = TRUE /\ missed' = {} /\ ~Withheld'
  /\ opening' \/ UNCHANGED <<path, watched, opening>>
  /\ \A g \in cancelled' : g \in cancelled \/ g = generation
  /\ UNCHANGED <<events, pc, walk, todo, batch, succeeded, failed, fs,
                 accepted, lastAccepted, candidate, closed>>
Delivering ==
  /\ Deliver /\ events # <<>> /\ events' = Tail(events)
  /\ UNCHANGED <<path, generation, inbox, pc, walk, todo, batch, succeeded, failed,
                 suspended, stopping, editing, watched, notified, opening, missed, cancelled, fs>>
Aside ==
  /\ UNCHANGED <<path, generation, inbox, events, pc, walk, todo, batch, succeeded, failed,
                 rowOf, seen, accepted, lastAccepted, candidate, closed>>
  /\ watched' = path \/ UNCHANGED <<watched, opening>>
  /\ \/ UNCHANGED <<fs, missed>>
     \/ \E p \in Paths, n \in Names, v \in {0} \cup Versions : Change(p, n, v)
  /\ Quiet' => Quiet /\ UNCHANGED <<rows, scanning>>
  /\ \/ UNCHANGED <<scanning, suspended, stopping, cancelled>>
     \/ Withheld' /\ \A g \in cancelled' : g \in cancelled \/ g = generation

\* Every step is of one of these kinds.
LEMMA StepKinds ==
  ASSUME Typed, HeldForEditor, [Next]_vars
  PROVE  \/ \E w \in Walk : Starting(w)
         \/ Delivering
         \/ Worker /\ UNCHANGED <<guiVars, fs>>
         \/ Aside
<1>1. ASSUME NEW p \in Paths, NEW diff \in BOOLEAN, StartWalk(p, diff), path' = p,
             IF diff THEN rowOf' = rowOf ELSE rowOf' = <<>>,
             missed' = {}, suspended' = FALSE, ~stopping, stopping' = stopping,
             opening' \/ UNCHANGED <<path, watched, opening>>,
             UNCHANGED <<events, pc, walkVars, fsVars, accepted, lastAccepted, candidate, closed>>
      PROVE  \E w \in Walk : Starting(w)
  <2> DEFINE w == [generation |-> generation + 1, path |-> p, diff |-> diff]
  <2>1. /\ w \in Walk /\ inbox' = Append(inbox, w) /\ generation' = generation + 1
        /\ seen' = {} /\ error' = FALSE /\ scanning' = TRUE
        /\ \A g \in cancelled' : g \in cancelled \/ g = generation
    BY <1>1, StartedWalk
  <2>2. w.generation = generation + 1 /\ w.path = p /\ w.diff = diff
    OBVIOUS
  <2>3. ~Withheld'
    BY <1>1 DEF Withheld
  <2>4. IF w.diff THEN rowOf' = rowOf ELSE DOMAIN rowOf' = {}
    BY <1>1, <2>2
  <2>5. UNCHANGED <<events, pc, walk, todo, batch, succeeded, failed, fs,
                    accepted, lastAccepted, candidate, closed>>
    BY <1>1 DEF walkVars, fsVars
  <2> HIDE DEF w
  <2>6. Starting(w)
    BY <1>1, <2>1, <2>2, <2>3, <2>4, <2>5 DEF Starting
  <2>7. QED
    BY <2>1, <2>6
<1>2. ASSUME NEW p \in Paths, Load(p) PROVE \E w \in Walk : Starting(w)
  BY <1>1, <1>2 DEF Load
<1>3. CASE DirectoryChanged \/ TaskFinished
  <2>1. CASE stopping \/ suspended \/ path = NoPath
    <3>1. /\ UNCHANGED <<modelVars, cancelled, missed, inbox, watched, opening, candidate, accepted,
                         lastAccepted, closed, events, pc, walkVars, fsVars>>
          /\ notified' = notified \/ DirectoryChanged
      BY <1>3, <2>1 DEF DirectoryChanged, TaskFinished, Refresh, userVars
    <3>2. ~Quiet'
      BY <2>1, <3>1 DEF Quiet, Withheld, modelVars
    <3>3. QED
      BY <3>1, <3>2 DEF Aside, modelVars, walkVars, fsVars
  <2>2. CASE ~(stopping \/ suspended \/ path = NoPath)
    <3>1. path \in Paths
      BY <2>2 DEF Typed, DataTyped
    <3>2. /\ StartWalk(path, TRUE) /\ path' = path /\ rowOf' = rowOf /\ missed' = {}
          /\ suspended' = suspended /\ stopping' = stopping /\ UNCHANGED <<watched, opening>>
          /\ UNCHANGED <<events, pc, walkVars, fsVars, accepted, lastAccepted, candidate, closed>>
      BY <1>3, <2>2 DEF DirectoryChanged, TaskFinished, Refresh, userVars
    <3>3. suspended = FALSE
      BY <2>2 DEF Typed, FlagsTyped
    <3>4. QED
      BY <1>1, <2>2, <3>1, <3>2, <3>3
  <2>3. QED
    BY <2>1, <2>2
<1>4. CASE EndEditing
  <2>1. /\ path \in Paths /\ StartWalk(path, TRUE) /\ path' = path
        /\ rowOf' = rowOf /\ missed' = {} /\ suspended' = FALSE /\ ~stopping /\ stopping' = stopping
        /\ UNCHANGED <<events, pc, walkVars, fsVars, accepted, lastAccepted, candidate, closed,
                       watched, opening>>
    BY <1>4 DEF EndEditing, HeldForEditor, Typed, DataTyped
  <2>2. QED
    BY <1>1, <2>1
<1>5. CASE Deliver
  <2>1. ASSUME NEW type, Delivered(type)
        PROVE  /\ events # <<>> /\ events' = Tail(events)
               /\ UNCHANGED <<inbox, pc, walk, todo, batch, succeeded, failed,
                              editing, watched, notified, opening, missed, cancelled, fs>>
    BY <2>1 DEF Delivered, walkVars, fsVars
  <2>2. UNCHANGED <<path, generation, suspended, stopping>>
    BY <1>5 DEF Deliver, OnBatch, OnClassified, OnWalkFinished, OnThreadFinished, modelVars
  <2>3. QED
    BY <1>5, <2>1, <2>2 DEF Deliver, Delivering
<1>6. CASE Worker
  BY <1>6 DEF Worker, BeginWalk, ReadEntry, PostBatch, AbandonWalk, CompleteWalk, PostFinal,
              Classify, ExitThread, EndWalk, WorkerStep, fsVars
<1>7. CASE AddWatch
  BY <1>7 DEF AddWatch, Aside, Quiet, Withheld, Current, modelVars, walkVars, histVars, fsVars
<1>8. ASSUME NEW mode, BeginEditing(mode) PROVE Aside
  <2>1. Withheld' /\ ~Quiet'
    BY <1>8 DEF BeginEditing, Quiet, Withheld
  <2>2. QED
    BY <1>8, <2>1, CancelledAreWalks DEF BeginEditing, Aside, walkVars, histVars, fsVars
<1>9. CASE Shutdown
  <2>1. Withheld' /\ ~Quiet'
    BY <1>9 DEF Shutdown, Quiet, Withheld
  <2>2. QED
    BY <1>9, <2>1, CancelledAreWalks DEF Shutdown, Aside, walkVars, userVars, histVars, fsVars
<1>10. ASSUME NEW p \in Paths, NEW n \in Names, NEW v \in {0} \cup Versions, Change(p, n, v)
       PROVE  Aside
  <2>1. Quiet' => Quiet
    BY <1>10 DEF Change, Quiet, Withheld, Current, modelVars
  <2>2. UNCHANGED <<path, generation, rows, rowOf, seen, scanning, suspended, stopping, inbox, events,
                    pc, walk, todo, batch, succeeded, failed, accepted, lastAccepted, candidate,
                    closed, watched, opening, cancelled>>
    BY <1>10 DEF Change, modelVars, walkVars
  <2>3. QED
    BY <1>10, <2>1, <2>2 DEF Aside
<1>11. CASE UNCHANGED vars
  BY <1>11 DEF vars, guiVars, modelVars, walkVars, userVars, histVars, fsVars, Aside, Quiet, Withheld,
               Current
<1>12. QED
  BY <1>2, <1>3, <1>4, <1>5, <1>6, <1>7, <1>8, <1>9, <1>10, <1>11 DEF Next, User

\* What the types say of the walks that wait, of the one that is read and of the events.
LEMMA Facts ==
  ASSUME Typed
  PROVE  /\ generation \in Nat /\ generation \in Int
         /\ \A i \in DOMAIN inbox : /\ i \in Nat /\ inbox[i] \in Walk /\ inbox[i].generation \in Nat
                                    /\ inbox[i].generation # 0 /\ inbox[i].path \in Paths
         /\ \A i \in DOMAIN events : i \in Nat /\ events[i] \in Event /\ events[i].generation \in Nat
         /\ walk.generation \in Nat
         /\ Busy => walk \in Walk /\ walk.path \in Paths /\ walk.generation # 0
         /\ ~Busy => walk.generation = 0
<1>1. generation \in Nat
  BY Numbers DEF Typed, DataTyped
<1>2. \A w \in Walk : w.generation \in Nat /\ w.generation # 0 /\ w.path \in Paths
  BY Numbers DEF Walk, Walks
<1>3. \A i \in DOMAIN inbox : i \in Nat /\ inbox[i] \in Walk
  BY DEF Typed, DataTyped
<1>4. \A i \in DOMAIN events : i \in Nat /\ events[i] \in Event
  BY DEF Typed, DataTyped
<1>5. ASSUME NEW e \in Event PROVE e.generation \in Nat
  <2>1. CASE e \in BatchEvent \/ e \in WalkEvent
    BY <2>1, Events, Numbers
  <2>2. CASE e \in ThreadEvent
    BY <2>2, Events
  <2>3. QED
    BY <2>1, <2>2 DEF Event
<1>6. Busy => walk \in Walk
  BY DEF Typed, DataTyped
<1>7. ~Busy => walk.generation = 0
  BY DEF Typed, DataTyped, NoWalk
<1>8. QED
  BY <1>1, <1>2, <1>3, <1>4, <1>5, <1>6, <1>7

\* Posting what the present walk has to say keeps the order.
LEMMA PostingKeepsOrder ==
  ASSUME NEW list \in Seq(Event), NEW e \in Event, NEW g \in Nat, e.generation = g,
         InOrder(list), UpTo(list, g)
  PROVE  /\ InOrder(Append(list, e))
         /\ e.type # "walkFinished" => UpTo(Append(list, e), g)
<1> DEFINE longer == Append(list, e)
<1>1. /\ \A i \in DOMAIN longer : \/ i \in DOMAIN list /\ longer[i] = list[i]
                                  \/ i = Len(list) + 1 /\ longer[i] = e
      /\ \A i \in DOMAIN list : i \in Nat /\ i <= Len(list)
      /\ Len(list) \in Nat
  BY AppendedLast
<1> HIDE DEF longer
<1>2. InOrder(longer)
  BY <1>1 DEF InOrder, UpTo
<1>3. e.type # "walkFinished" => UpTo(longer, g)
  BY <1>1 DEF UpTo
<1>4. QED
  BY <1>2, <1>3 DEF longer

\* Walks are begun, and report, in their order.
LEMMA OrderKept ==
  ASSUME Typed, HeldForEditor, Order, [Next]_vars
  PROVE  Order'
<1>1. /\ generation \in Nat /\ walk.generation \in Nat
      /\ inbox \in Seq(Walk) /\ events \in Seq(Event)
      /\ \A i \in DOMAIN inbox : i \in Nat /\ inbox[i].generation \in Nat
      /\ \A i \in DOMAIN events : i \in Nat /\ events[i].generation \in Nat
  BY Facts DEF Typed, DataTyped
<1>2. ASSUME NEW w \in Walk, Starting(w) PROVE Order'
  <2>1. \A i \in DOMAIN inbox' : \/ i \in DOMAIN inbox /\ inbox'[i] = inbox[i]
                                 \/ i = Len(inbox) + 1 /\ inbox'[i] = w
    BY <1>1, <1>2, AppendedLast DEF Starting
  <2>2. w.generation = generation + 1 /\ generation' = generation + 1
    BY <1>2 DEF Starting
  <2>3. \A i \in DOMAIN inbox : i <= Len(inbox)
    BY <1>1
  <2>4. UNCHANGED <<events, pc, walk>>
    BY <1>2 DEF Starting
  <2>5. walk'.generation <= generation' /\ \A k \in DOMAIN events' : events'[k].generation <= generation'
    BY <1>1, <2>2, <2>4 DEF Order
  <2>6. \A i \in DOMAIN inbox' : /\ inbox'[i].generation <= generation'
                                 /\ walk'.generation < inbox'[i].generation
    BY <1>1, <2>1, <2>2, <2>4 DEF Order
  <2>7. \A i, j \in DOMAIN inbox' : i < j => inbox'[i].generation < inbox'[j].generation
    BY <1>1, <2>1, <2>2, <2>3 DEF Order
  <2>8. \A i \in DOMAIN inbox' : \A k \in DOMAIN events' :
          events'[k].generation < inbox'[i].generation
    BY <1>1, <2>1, <2>2, <2>4 DEF Order
  <2>9. InOrder(events') /\ (Busy' => UpTo(events', walk'.generation))
    BY <2>4 DEF Order, Busy
  <2>10. QED
    BY <2>5, <2>6, <2>7, <2>8, <2>9 DEF Order, InOrder, UpTo
<1>3. CASE Delivering
  <2>1. \A i \in DOMAIN events' : i + 1 \in DOMAIN events /\ events'[i] = events[i + 1] /\ i \in Nat
    BY <1>1, <1>3, TakenHead DEF Delivering
  <2>2. UNCHANGED <<generation, inbox, pc, walk>>
    BY <1>3 DEF Delivering
  <2>3. InOrder(events')
    BY <2>1 DEF Order, InOrder
  <2>4. Busy => UpTo(events', walk.generation)
    BY <2>1 DEF Order, UpTo
  <2>5. /\ \A k \in DOMAIN events' : events'[k].generation <= generation
        /\ \A i \in DOMAIN inbox, k \in DOMAIN events' : events'[k].generation < inbox[i].generation
    BY <2>1 DEF Order
  <2>6. QED
    BY <2>2, <2>3, <2>4, <2>5 DEF Order, InOrder, UpTo, Busy
<1>4. CASE Aside
  BY <1>4 DEF Aside, Order, InOrder, UpTo, Busy
<1>5. ASSUME inbox' = inbox, generation' = generation, walk' = walk \/ walk' = NoWalk,
             Busy' => Busy /\ walk' = walk /\ UpTo(events', walk.generation),
             InOrder(events'),
             \A k \in DOMAIN events' : events'[k].generation \in Nat,
             \A k \in DOMAIN events' :
               \/ \E i \in DOMAIN events : events'[k].generation = events[i].generation
               \/ events'[k].generation = walk.generation
      PROVE  Order'
  <2>1. walk'.generation \in Nat /\ walk'.generation <= walk.generation
    BY <1>1, <1>5 DEF NoWalk
  <2>2. walk'.generation <= generation
    BY <1>1, <2>1 DEF Order
  <2>3. \A i \in DOMAIN inbox : /\ walk'.generation < inbox[i].generation
                                /\ walk.generation < inbox[i].generation
    BY <1>1, <2>1 DEF Order
  <2>4. \A k \in DOMAIN events' : events'[k].generation <= generation
    BY <1>1, <1>5 DEF Order
  <2>5. \A i \in DOMAIN inbox : \A k \in DOMAIN events' :
          events'[k].generation < inbox[i].generation
    BY <1>1, <1>5, <2>3 DEF Order
  <2>6. \A i, j \in DOMAIN inbox : i < j => inbox[i].generation < inbox[j].generation
    BY DEF Order
  <2>7. \A i \in DOMAIN inbox : inbox[i].generation <= generation
    BY DEF Order
  <2>8. Busy' => UpTo(events', walk'.generation)
    BY <1>5
  <2> HIDE DEF Busy, UpTo, InOrder
  <2>9. Order'
    BY <1>5, <2>2, <2>3, <2>4, <2>5, <2>6, <2>7, <2>8 DEF Order
  <2>10. QED
    BY <2>9
<1>6. ASSUME Busy, NEW e \in Event, e.generation = walk.generation
      PROVE  /\ Append(events, e) \in Seq(Event) /\ InOrder(Append(events, e))
             /\ e.type # "walkFinished" => UpTo(Append(events, e), walk.generation)
             /\ \A k \in DOMAIN Append(events, e) :
                  /\ Append(events, e)[k].generation \in Nat
                  /\ \/ \E i \in DOMAIN events :
                          Append(events, e)[k].generation = events[i].generation
                     \/ Append(events, e)[k].generation = walk.generation
  <2>1. InOrder(events) /\ UpTo(events, walk.generation)
    BY <1>6 DEF Order
  <2>2. /\ InOrder(Append(events, e))
        /\ e.type # "walkFinished" => UpTo(Append(events, e), walk.generation)
    BY <1>1, <1>6, <2>1, PostingKeepsOrder
  <2>3. /\ Append(events, e) \in Seq(Event)
        /\ \A k \in DOMAIN Append(events, e) :
             (k \in DOMAIN events /\ Append(events, e)[k] = events[k]) \/ Append(events, e)[k] = e
    BY <1>1, AppendedLast
  <2>4. QED
    BY <1>1, <1>6, <2>2, <2>3
<1>7. ASSUME Busy, NEW e \in Event, e.generation = walk.generation, e.type # "walkFinished",
             events' = Append(events, e), UNCHANGED <<inbox, generation, walk>>
      PROVE  Order'
  BY <1>5, <1>6, <1>7
<1>8. ASSUME Busy, NEW reports, EndWalk(reports),
             \/ reports = <<>>
             \/ \E r \in Event : /\ reports = <<r>> /\ r.generation = walk.generation
                                 /\ r.type # "walkFinished"
      PROVE  Order'
  <2>1. EndReport.generation = walk.generation
    BY DEF EndReport
  <2>2. /\ EndReport \in Event
        /\ reports = <<>> => events' = Append(events, EndReport)
        /\ \A r \in Event : reports = <<r>> => events' = Append(Append(events, r), EndReport)
    BY <1>8, EndedWalk
  <2>3. UNCHANGED <<inbox, generation>> /\ walk' = NoWalk /\ ~Busy'
    BY <1>8 DEF EndWalk, guiVars, modelVars, Busy
  <2>4. CASE reports = <<>>
    <3>1. events' = Append(events, EndReport)
      BY <2>2, <2>4
    <3> HIDE DEF Busy, UpTo, InOrder
    <3>2. /\ InOrder(events')
          /\ \A k \in DOMAIN events' :
               /\ events'[k].generation \in Nat
               /\ \/ \E i \in DOMAIN events : events'[k].generation = events[i].generation
                  \/ events'[k].generation = walk.generation
      BY <1>6, <1>8, <2>1, <2>2, <3>1
    <3>3. QED
      BY <1>5, <2>3, <3>2
  <2>5. CASE reports # <<>>
    <3>1. PICK r \in Event : /\ r.generation = walk.generation /\ r.type # "walkFinished"
                             /\ events' = Append(Append(events, r), EndReport)
      BY <1>8, <2>2, <2>5
    <3> DEFINE first == Append(events, r)
    <3>2. /\ first \in Seq(Event) /\ InOrder(first) /\ UpTo(first, walk.generation)
          /\ \A k \in DOMAIN first :
               /\ first[k].generation \in Nat
               /\ \/ \E i \in DOMAIN events : first[k].generation = events[i].generation
                  \/ first[k].generation = walk.generation
      BY <1>6, <1>8, <3>1
    <3> HIDE DEF first
    <3>3. InOrder(Append(first, EndReport))
      BY <1>1, <2>1, <2>2, <3>2, PostingKeepsOrder
    <3>4. \A k \in DOMAIN Append(first, EndReport) :
            \/ k \in DOMAIN first /\ Append(first, EndReport)[k] = first[k]
            \/ Append(first, EndReport)[k] = EndReport
      BY <2>2, <3>2, AppendedLast
    <3>5. events' = Append(first, EndReport)
      BY <3>1 DEF first
    <3>6. InOrder(events')
      BY <3>3, <3>5
    <3>7. \A k \in DOMAIN events' :
               /\ events'[k].generation \in Nat
               /\ \/ \E i \in DOMAIN events : events'[k].generation = events[i].generation
                  \/ events'[k].generation = walk.generation
      BY <1>1, <2>1, <3>2, <3>4, <3>5
    <3>8. QED
      BY <1>5, <2>3, <3>6, <3>7
  <2>6. QED
    BY <2>4, <2>5
<1>9. CASE BeginWalk
  <2>1. /\ inbox # <<>> /\ walk' = inbox[1] /\ inbox' = Tail(inbox) /\ events' = events
        /\ generation' = generation
    BY <1>9 DEF BeginWalk, WorkerStep, guiVars, modelVars
  <2>2. /\ 1 \in DOMAIN inbox
        /\ \A i \in DOMAIN inbox' : i + 1 \in DOMAIN inbox /\ inbox'[i] = inbox[i + 1] /\ i \in Nat /\ i >= 1
    BY <1>1, <2>1, TakenHead
  <2>3. walk'.generation <= generation'
    BY <2>1, <2>2 DEF Order
  <2>4. \A i \in DOMAIN inbox' : inbox'[i].generation <= generation'
    BY <2>1, <2>2 DEF Order
  <2>5. \A i \in DOMAIN inbox' : walk'.generation < inbox'[i].generation
    <3>1. \A i \in DOMAIN inbox' : 1 < i + 1
      BY <2>2
    <3>2. QED
      BY <2>1, <2>2, <3>1 DEF Order
  <2>6. \A i, j \in DOMAIN inbox' : i < j => inbox'[i].generation < inbox'[j].generation
    <3>1. \A i, j \in DOMAIN inbox' : i < j => i + 1 < j + 1
      BY <2>2
    <3>2. QED
      BY <2>2, <3>1 DEF Order
  <2>7. \A i \in DOMAIN inbox' : \A k \in DOMAIN events' :
          events'[k].generation < inbox'[i].generation
    BY <2>1, <2>2 DEF Order
  <2>8. \A k \in DOMAIN events' : events'[k].generation <= generation'
    BY <2>1 DEF Order
  <2>9. UpTo(events', walk'.generation)
    <3>1. \A k \in DOMAIN events : events[k].generation < inbox[1].generation
      BY <2>2 DEF Order
    <3>2. inbox[1].generation \in Nat
      BY <1>1, <2>2
    <3>3. QED
      BY <1>1, <2>1, <3>1, <3>2 DEF UpTo
  <2>10. InOrder(events')
    BY <2>1 DEF Order
  <2> HIDE DEF Busy, UpTo, InOrder
  <2>11. QED
    BY <2>3, <2>4, <2>5, <2>6, <2>7, <2>8, <2>9, <2>10 DEF Order
<1>10. CASE (\E n \in Names : ReadEntry(n)) \/ \E err \in BOOLEAN : CompleteWalk(err)
  <2>1. UNCHANGED <<inbox, generation, walk, events>> /\ Busy
    BY <1>10 DEF ReadEntry, CompleteWalk, WorkerStep, guiVars, modelVars, Busy
  <2>2. InOrder(events) /\ UpTo(events, walk.generation)
    BY <2>1 DEF Order
  <2> HIDE DEF Busy, UpTo, InOrder
  <2>3. QED
    BY <1>1, <1>5, <2>1, <2>2
<1>11. CASE PostBatch
  <2>1. Busy /\ UNCHANGED <<inbox, generation, walk>> /\ Post(Batch(FALSE, FALSE))
    BY <1>11 DEF PostBatch, Busy, WorkerStep, guiVars, modelVars
  <2>2. /\ Batch(FALSE, FALSE).generation = walk.generation
        /\ Batch(FALSE, FALSE).type # "walkFinished"
    BY DEF Batch
  <2>3. Batch(FALSE, FALSE) \in Event
    BY <2>1, PostedEvents
  <2>4. QED
    BY <1>7, <2>1, <2>2, <2>3 DEF Post
<1>12. CASE AbandonWalk
  BY <1>8, <1>12 DEF AbandonWalk, Busy
<1>13. CASE PostFinal
  <2> DEFINE final == Batch(TRUE, failed)
  <2>1. Busy /\ failed \in BOOLEAN
    BY <1>13 DEF PostFinal, Busy, Typed, FlagsTyped
  <2>2. final \in Event
    BY <2>1, PostedEvents
  <2>3. final.generation = walk.generation /\ final.type # "walkFinished"
    BY DEF Batch
  <2>4. EndWalk(<<final>>) \/ (Post(final) /\ UNCHANGED <<inbox, generation, walk>>)
    BY <1>13 DEF PostFinal, WorkerStep, guiVars, modelVars
  <2> HIDE DEF final
  <2>5. QED
    BY <1>7, <1>8, <2>1, <2>2, <2>3, <2>4 DEF Post
<1>14. CASE Classify
  <2> DEFINE r == [type |-> "classified", generation |-> walk.generation, path |-> walk.path]
  <2>1. Busy /\ EndWalk(<<r>>)
    BY <1>14 DEF Classify, Busy, Reported
  <2>2. r \in Event /\ r.generation = walk.generation /\ r.type # "walkFinished"
    BY <2>1, PostedEvents
  <2> HIDE DEF r
  <2>3. QED
    BY <1>8, <2>1, <2>2
<1>15. CASE ExitThread
  <2> DEFINE e == [type |-> "threadFinished", generation |-> 0, path |-> NoPath]
  <2>1. ~Busy /\ ~Busy' /\ UNCHANGED <<inbox, generation, walk>> /\ events' = Append(events, e)
    BY <1>15 DEF ExitThread, Post, walkVars, WorkerStep, guiVars, modelVars, Busy
  <2>2. walk.generation = 0 /\ e.generation = 0 /\ e.type = "threadFinished" /\ e \in Event
    BY <2>1, Facts DEF Event, ThreadEvent
  <2> HIDE DEF e
  <2>3. \A k \in DOMAIN events' : \/ k \in DOMAIN events /\ events'[k] = events[k]
                                  \/ k = Len(events) + 1 /\ events'[k] = e
    BY <1>1, <2>1, <2>2, AppendedLast
  <2>4. InOrder(events')
    <3>1. \A i, j \in DOMAIN events' : i < j /\ events'[j].type # "threadFinished" =>
            i \in DOMAIN events /\ j \in DOMAIN events /\ events'[i] = events[i] /\ events'[j] = events[j]
      BY <1>1, <2>2, <2>3
    <3>2. QED
      BY <3>1 DEF Order, InOrder
  <2>5. QED
    BY <1>1, <1>5, <2>1, <2>2, <2>3, <2>4
<1>16. CASE Worker
  BY <1>9, <1>10, <1>11, <1>12, <1>13, <1>14, <1>15, <1>16 DEF Worker
<1>17. QED
  BY <1>2, <1>3, <1>4, <1>16, StepKinds

\* What a step of the worker adds to the events: what the walk has to say, its batch
\* first and its end last, or the end of the thread.
Said(i, e) ==
  /\ Busy /\ e.generation = walk.generation /\ e.path = walk.path
  /\ e.type \in {"batch", "classified", "walkFinished"}
  /\ IsBatch(e) =>
       /\ i = Len(events) + 1
       /\ (PostBatch /\ pc = "read") \/ (PostFinal /\ pc = "final")
       /\ e.diff = walk.diff /\ e.entries = batch /\ batch' = <<>>
       /\ (e.finished <=> pc = "final") /\ (e.error <=> (pc = "final" /\ failed))
       /\ Busy' => walk' = walk
       /\ e.finished => pc' \in {"idle", "classify"}
  /\ e.type = "classified" => pc = "classify"
  /\ e.type = "walkFinished" => ~Busy'
LastOfAll(i, e) ==
  /\ e = [type |-> "threadFinished", generation |-> 0, path |-> NoPath]
  /\ ~Busy /\ pc' = "exited" /\ i = Len(events')

Reporting ==
  /\ \A i \in DOMAIN events : i \in DOMAIN events' /\ events'[i] = events[i]
  /\ \A i \in DOMAIN events' : \/ i \in DOMAIN events /\ events'[i] = events[i]
                               \/ i > Len(events) /\ (Said(i, events'[i]) \/ LastOfAll(i, events'[i]))
Continuing ==
  \/ /\ BeginWalk /\ inbox # <<>> /\ walk' = inbox[1] /\ inbox' = Tail(inbox)
     /\ ~Busy /\ Busy' /\ events' = events
  \/ inbox' = inbox /\ walk' = walk /\ (Busy' <=> Busy)
  \/ inbox' = inbox /\ walk' = NoWalk /\ Busy /\ ~Busy'

\* A step of the worker goes on with the walk, begins one or ends it.
LEMMA WorkerReports ==
  ASSUME Typed, Worker
  PROVE  Reporting /\ Continuing
<1>1. events \in Seq(Event) /\ inbox \in Seq(Walk)
  BY DEF Typed, DataTyped
<1>2. ASSUME events' = events PROVE Reporting
  BY <1>2 DEF Reporting
<1>3. ASSUME NEW e \in Event, events' = Append(events, e), 
             Said(Len(events) + 1, e) \/ LastOfAll(Len(events) + 1, e)
      PROVE  Reporting
  <2>1. /\ \A i \in DOMAIN events : i \in DOMAIN events' /\ events'[i] = events[i]
        /\ \A i \in DOMAIN events' : \/ i \in DOMAIN events /\ events'[i] = events[i]
                                     \/ i = Len(events) + 1 /\ events'[i] = e
        /\ Len(events) \in Nat
    BY <1>1, <1>3, AppendedLast
  <2>2. QED
    BY <1>3, <2>1 DEF Reporting, Said, LastOfAll
<1>4. ASSUME Busy, NEW reports, EndWalk(reports),
             \/ reports = <<>>
             \/ \E r \in Event : reports = <<r>> /\ Said(Len(events) + 1, r)
      PROVE  Reporting /\ Continuing
  <2>1. inbox' = inbox /\ walk' = NoWalk /\ ~Busy'
    BY <1>4 DEF EndWalk, Busy
  <2>2. /\ EndReport \in Event
        /\ reports = <<>> => events' = Append(events, EndReport)
        /\ \A r \in Event : reports = <<r>> => events' = Append(Append(events, r), EndReport)
    BY <1>4, EndedWalk
  <2>3. \A i : Said(i, EndReport)
    BY <1>4, <2>1 DEF Said, EndReport, IsBatch
  <2>4. ASSUME reports = <<>> PROVE Reporting
    BY <1>3, <2>2, <2>3, <2>4
  <2>5. ASSUME reports # <<>> PROVE Reporting
    <3>1. PICK r \in Event : Said(Len(events) + 1, r) /\ events' = Append(Append(events, r), EndReport)
      BY <1>4, <2>2, <2>5
    <3> DEFINE first == Append(events, r)
    <3>2. /\ first \in Seq(Event) /\ Len(events) \in Nat /\ Len(first) = Len(events) + 1
          /\ \A i \in DOMAIN events : i \in DOMAIN first /\ first[i] = events[i]
          /\ \A i \in DOMAIN first : \/ i \in DOMAIN events /\ first[i] = events[i]
                                     \/ i = Len(events) + 1 /\ first[i] = r
      BY <1>1, AppendedLast
    <3> HIDE DEF first
    <3>3. /\ \A i \in DOMAIN first : i \in DOMAIN Append(first, EndReport) /\ Append(first, EndReport)[i] = first[i]
          /\ \A i \in DOMAIN Append(first, EndReport) :
               \/ i \in DOMAIN first /\ Append(first, EndReport)[i] = first[i]
               \/ i = Len(first) + 1 /\ Append(first, EndReport)[i] = EndReport
      BY <2>2, <3>2, AppendedLast
    <3>4. events' = Append(first, EndReport)
      BY <3>1 DEF first
    <3>5. \A i \in DOMAIN events' : \/ i \in DOMAIN events /\ events'[i] = events[i]
                                    \/ i > Len(events) /\ Said(i, events'[i])
      BY <2>3, <3>1, <3>2, <3>3, <3>4
    <3>6. QED
      BY <3>2, <3>3, <3>4, <3>5 DEF Reporting, Said, LastOfAll
  <2>6. Reporting
    BY <2>4, <2>5
  <2>7. QED
    BY <1>4, <2>1, <2>6 DEF Continuing
<1>5. CASE BeginWalk
  <2>1. inbox # <<>> /\ walk' = inbox[1] /\ inbox' = Tail(inbox) /\ events' = events /\ ~Busy /\ Busy'
    BY <1>5 DEF BeginWalk, Busy
  <2>2. QED
    BY <1>2, <1>5, <2>1 DEF Continuing
<1>6. CASE (\E n \in Names : ReadEntry(n)) \/ \E err \in BOOLEAN : CompleteWalk(err)
  <2>1. UNCHANGED <<inbox, walk, events>> /\ Busy /\ Busy'
    BY <1>6 DEF ReadEntry, CompleteWalk, Busy
  <2>2. QED
    BY <1>2, <2>1 DEF Continuing
<1>7. CASE PostBatch
  <2> DEFINE b == Batch(FALSE, FALSE)
  <2>1. /\ Busy /\ Busy' /\ pc = "read" /\ UNCHANGED <<inbox, walk>> /\ batch' = <<>>
        /\ events' = Append(events, b)
    BY <1>7 DEF PostBatch, Post, Busy
  <2>2. /\ b.type = "batch" /\ b.generation = walk.generation /\ b.path = walk.path /\ b.diff = walk.diff
        /\ b.entries = batch /\ b.finished = FALSE /\ b.error = FALSE
    BY DEF Batch
  <2>3. b \in Event
    BY <2>1, PostedEvents
  <2> HIDE DEF b
  <2>4. Said(Len(events) + 1, b)
    BY <1>7, <2>1, <2>2 DEF Said, IsBatch
  <2>5. QED
    BY <1>3, <2>1, <2>3, <2>4 DEF Continuing
<1>8. CASE AbandonWalk
  BY <1>4, <1>8 DEF AbandonWalk, Busy
<1>9. CASE PostFinal
  <2> DEFINE b == Batch(TRUE, failed)
  <2>1. /\ Busy /\ pc = "final" /\ failed \in BOOLEAN
        /\ \/ EndWalk(<<b>>) /\ batch' = <<>> /\ pc' = "idle" /\ ~Busy'
           \/ /\ events' = Append(events, b) /\ UNCHANGED <<inbox, walk>> /\ batch' = <<>>
              /\ pc' = "classify" /\ Busy'
    BY <1>9 DEF PostFinal, Post, EndWalk, Busy, Typed, FlagsTyped
  <2>2. /\ b.type = "batch" /\ b.generation = walk.generation /\ b.path = walk.path /\ b.diff = walk.diff
        /\ b.entries = batch /\ b.finished = TRUE /\ b.error = failed
    BY DEF Batch
  <2>3. b \in Event
    BY <2>1, PostedEvents
  <2> HIDE DEF b
  <2>4. Said(Len(events) + 1, b)
    BY <1>9, <2>1, <2>2 DEF Said, IsBatch
  <2>5. CASE EndWalk(<<b>>)
    BY <1>4, <2>1, <2>3, <2>4, <2>5
  <2>6. CASE ~EndWalk(<<b>>)
    BY <1>3, <2>1, <2>3, <2>4, <2>6 DEF Continuing
  <2>7. QED
    BY <2>5, <2>6
<1>10. CASE Classify
  <2> DEFINE r == [type |-> "classified", generation |-> walk.generation, path |-> walk.path]
  <2>1. Busy /\ EndWalk(<<r>>) /\ pc = "classify"
    BY <1>10 DEF Classify, Busy, Reported
  <2>2. r \in Event /\ Said(Len(events) + 1, r)
    BY <2>1, PostedEvents DEF Said, IsBatch
  <2> HIDE DEF r
  <2>3. QED
    BY <1>4, <2>1, <2>2
<1>11. CASE ExitThread
  <2> DEFINE e == [type |-> "threadFinished", generation |-> 0, path |-> NoPath]
  <2>1. /\ ~Busy /\ ~Busy' /\ pc' = "exited" /\ UNCHANGED <<inbox, walk>>
        /\ events' = Append(events, e)
    BY <1>11 DEF ExitThread, Post, walkVars, Busy
  <2>2. e \in Event
    BY DEF Event, ThreadEvent
  <2>3. Len(events') = Len(events) + 1
    BY <1>1, <2>1, <2>2, AppendedLast
  <2>4. LastOfAll(Len(events) + 1, e)
    BY <2>1, <2>3 DEF LastOfAll
  <2> HIDE DEF e
  <2>5. QED
    BY <1>3, <2>1, <2>2, <2>4 DEF Continuing
<1>12. QED
  BY <1>5, <1>6, <1>7, <1>8, <1>9, <1>10, <1>11 DEF Worker

\* The walk that starts is the only one of its generation.
LEMMA StartsAnew ==
  ASSUME Typed, Order, NEW w \in Walk, Starting(w)
  PROVE  /\ w.generation = generation' /\ walk.generation # generation'
         /\ \A i \in DOMAIN inbox : inbox[i].generation # generation'
         /\ \A i \in DOMAIN events : events[i].generation # generation'
         /\ \A i \in DOMAIN inbox' : \/ i \in DOMAIN inbox /\ inbox'[i] = inbox[i]
                                     \/ i = Len(inbox) + 1 /\ inbox'[i] = w
         /\ UNCHANGED <<events, pc, walk, todo, batch, succeeded, failed>>
<1>1. inbox \in Seq(Walk)
  BY DEF Typed, DataTyped
<1>2. \A i \in DOMAIN inbox' : \/ i \in DOMAIN inbox /\ inbox'[i] = inbox[i]
                               \/ i = Len(inbox) + 1 /\ inbox'[i] = w
  BY <1>1, AppendedLast DEF Starting
<1>3. w.generation = generation' /\ generation' = generation + 1
  BY DEF Starting
<1>4. walk.generation # generation'
  BY <1>3, Facts DEF Order
<1>5. \A i \in DOMAIN inbox : inbox[i].generation # generation'
  BY <1>3, Facts DEF Order
<1>6. \A i \in DOMAIN events : events[i].generation # generation'
  BY <1>3, Facts DEF Order
<1>7. QED
  BY <1>2, <1>3, <1>4, <1>5, <1>6 DEF Starting

\* What is delivered is the first event; the others move up.
LEMMA DeliveredFirst ==
  ASSUME Typed, Delivering
  PROVE  /\ 1 \in DOMAIN events /\ Head(events) = events[1] /\ events[1] \in Event
         /\ \A i \in DOMAIN events' : /\ i + 1 \in DOMAIN events /\ events'[i] = events[i + 1]
                                      /\ i \in Nat /\ 1 < i + 1
         /\ \A i \in DOMAIN events : i = 1 \/ (i - 1 \in DOMAIN events' /\ events'[i - 1] = events[i])
         /\ Len(events') = Len(events) - 1 /\ Len(events) \in Nat
         /\ UNCHANGED <<path, generation, inbox, pc, walk, todo, batch, succeeded, failed>>
<1>1. events \in Seq(Event) /\ events # <<>> /\ events' = Tail(events)
  BY DEF Typed, DataTyped, Delivering
<1>2. /\ 1 \in DOMAIN events /\ Head(events) = events[1] /\ events[1] \in Event
      /\ \A i \in DOMAIN events' : i + 1 \in DOMAIN events /\ events'[i] = events[i + 1]
      /\ \A i \in DOMAIN events : i = 1 \/ (i - 1 \in DOMAIN events' /\ events'[i - 1] = events[i])
      /\ Len(events') = Len(events) - 1 /\ Len(events) \in Nat
  BY <1>1, TakenHead
<1>3. \A i \in DOMAIN events' : i \in Nat /\ 1 < i + 1
  BY <1>1
<1>4. QED
  BY <1>2, <1>3 DEF Delivering

\* The worker begins with the first walk that waits.
LEMMA BegunFirst ==
  ASSUME Typed, Order, BeginWalk, inbox # <<>>, walk' = inbox[1], inbox' = Tail(inbox)
  PROVE  /\ 1 \in DOMAIN inbox
         /\ \A i \in DOMAIN inbox' : /\ i + 1 \in DOMAIN inbox /\ inbox'[i] = inbox[i + 1]
                                     /\ inbox[1].generation < inbox'[i].generation
         /\ \A k \in DOMAIN events : events[k].generation < walk'.generation
         /\ \A k \in DOMAIN events : events[k].generation # walk'.generation
<1>1. inbox \in Seq(Walk)
  BY DEF Typed, DataTyped
<1>2. /\ 1 \in DOMAIN inbox
      /\ \A i \in DOMAIN inbox' : i + 1 \in DOMAIN inbox /\ inbox'[i] = inbox[i + 1]
  BY <1>1, TakenHead
<1>3. \A i \in DOMAIN inbox' : 1 < i + 1
  BY <1>1
<1>4. \A i \in DOMAIN inbox' : inbox[1].generation < inbox'[i].generation
  BY <1>2, <1>3 DEF Order
<1>5. \A k \in DOMAIN events : events[k].generation < walk'.generation
  BY <1>2 DEF Order
<1>6. \A k \in DOMAIN events : events[k].generation # walk'.generation
  BY <1>2, <1>5, Facts
<1>7. QED
  BY <1>2, <1>4, <1>5, <1>6

\* The walk of the present generation keeps reading the directory on screen.
LEMMA AgreementKept ==
  ASSUME Typed, HeldForEditor, Order, Agreement, [Next]_vars
  PROVE  Agreement'
<1> USE DEF Current, IsBatch
<1>1. ASSUME NEW w \in Walk, Starting(w) PROVE Agreement'
  <2>1. w.path = path' /\ Busy' = Busy
    BY <1>1 DEF Starting, Busy
  <2>2. \A i \in DOMAIN inbox' : Current(inbox[i])' => inbox'[i].path = path'
    BY <1>1, <2>1, StartsAnew
  <2>3. QED
    BY <1>1, <2>1, <2>2, StartsAnew DEF Agreement
<1>2. CASE Delivering
  <2>1. Busy' = Busy /\ UNCHANGED <<path, generation, inbox, walk>>
    BY <1>2 DEF Delivering, Busy
  <2>2. \A i \in DOMAIN events' : i + 1 \in DOMAIN events /\ events'[i] = events[i + 1]
    BY <1>2, DeliveredFirst
  <2>3. QED
    BY <2>1, <2>2 DEF Agreement
<1>3. CASE Aside
  BY <1>3 DEF Aside, Agreement, Busy
<1>4. CASE Worker /\ UNCHANGED <<guiVars, fs>>
  <2>1. Reporting /\ Continuing /\ path' = path /\ generation' = generation
    BY <1>4, WorkerReports DEF guiVars, modelVars
  <2>2. CASE BeginWalk /\ inbox # <<>> /\ walk' = inbox[1] /\ inbox' = Tail(inbox) /\ events' = events
    BY <2>1, <2>2, BegunFirst DEF Agreement
  <2>3. CASE inbox' = inbox /\ (Busy' => Busy /\ walk' = walk)
    <3>1. \A i \in DOMAIN events' :
            \/ i \in DOMAIN events /\ events'[i] = events[i]
            \/ /\ i \notin DOMAIN events
               /\ events'[i].type # "threadFinished" =>
                    Busy /\ events'[i].generation = walk.generation /\ events'[i].path = walk.path
               /\ IsBatch(events'[i]) =>
                    Busy /\ events'[i].generation = walk.generation /\ events'[i].diff = walk.diff
      BY <2>1 DEF Reporting, Said, LastOfAll
    <3>2. \A i \in DOMAIN events' :
            events'[i].type # "threadFinished" /\ Current(events[i])' => events'[i].path = path'
      BY <2>1, <3>1 DEF Agreement
    <3>3. \A i \in DOMAIN events' :
            IsBatch(events'[i]) /\ Busy /\ events'[i].generation = walk.generation =>
              events'[i].diff = walk.diff
      BY <3>1 DEF Agreement
    <3>4. \A i, j \in DOMAIN events' :
            IsBatch(events'[i]) /\ IsBatch(events'[j]) /\ events'[i].generation = events'[j].generation =>
              events'[i].diff = events'[j].diff
      BY <3>1, <3>3 DEF Agreement
    <3>5. QED
      BY <2>1, <2>3, <3>2, <3>3, <3>4 DEF Agreement
  <2>4. QED
    BY <2>1, <2>2, <2>3 DEF Continuing
<1>5. QED
  BY <1>1, <1>2, <1>3, <1>4, StepKinds

\* What a step of the worker leaves unread.
LEMMA LeftUnread ==
  ASSUME Typed, Worker, Once(batch), NamesOf(batch) \cap todo = {}
  PROVE  /\ Once(batch') /\ NamesOf(batch') \cap todo' = {}
         /\ ~BeginWalk => Unread' \subseteq Unread
         /\ batch' = <<>> /\ ~BeginWalk => Unread' \subseteq todo
<1>1. batch \in Seq(Entry)
  BY DEF Typed, DataTyped
<1>2. ASSUME batch' = <<>>, todo' \subseteq todo
      PROVE  /\ Once(batch') /\ NamesOf(batch') \cap todo' = {}
             /\ Unread' \subseteq Unread /\ Unread' \subseteq todo
  BY <1>2, NamesOfLists DEF Once, Unread
<1>3. CASE BeginWalk
  BY <1>3, NamesOfLists DEF BeginWalk, Once
<1>4. ASSUME NEW n \in Names, ReadEntry(n)
      PROVE  /\ Once(batch') /\ NamesOf(batch') \cap todo' = {} /\ Unread' \subseteq Unread
             /\ batch' = <<>> => Unread' \subseteq todo
  <2> DEFINE e == [name |-> n, version |-> fs[walk.path][n]]
  <2>1. n \in todo /\ todo' = todo \ {n} /\ e.name = n
    BY <1>4 DEF ReadEntry
  <2>2. CASE fs[walk.path][n] = 0
    <3>1. batch' = batch
      BY <1>4, <2>2 DEF ReadEntry
    <3>2. NamesOf(batch)' = NamesOf(batch)
      BY <3>1 DEF NamesOf
    <3>3. batch' = <<>> => NamesOf(batch) = {}
      BY <3>1, NamesOfLists
    <3>4. QED
      BY <2>1, <3>1, <3>2, <3>3 DEF Once, Unread
  <2>3. CASE fs[walk.path][n] # 0
    <3>1. batch' = Append(batch, e)
      BY <1>4, <2>3 DEF ReadEntry
    <3>2. walk \in Walk /\ e \in Entry
      <4>1. walk \in Walk
        BY <1>4 DEF ReadEntry, Busy, Typed, DataTyped
      <4>2. walk.path \in Paths
        BY <4>1 DEF Walk
      <4>3. fs[walk.path][n] \in Versions
        BY <2>3, <4>2 DEF Typed, DataTyped
      <4>4. QED
        BY <4>1, <4>3 DEF Entry
    <3> HIDE DEF e
    <3>3. /\ \A i \in DOMAIN Append(batch, e) : \/ i \in DOMAIN batch /\ Append(batch, e)[i] = batch[i]
                                                \/ i = Len(batch) + 1 /\ Append(batch, e)[i] = e
          /\ \A i \in DOMAIN batch : i < Len(batch) + 1
          /\ Len(batch) + 1 \in DOMAIN Append(batch, e)
      BY <1>1, <3>2, AppendedLast
    <3>4. NamesOf(Append(batch, e)) = NamesOf(batch) \cup {n}
      BY <1>1, <2>1, <3>2, NamesOfLists
    <3>5. \A i \in DOMAIN batch : batch[i].name # n
      BY <2>1 DEF NamesOf
    <3>6. Once(Append(batch, e))
      BY <2>1, <3>3, <3>5 DEF Once
    <3>7. NamesOf(batch)' = NamesOf(Append(batch, e)) /\ batch' # <<>>
      BY <3>1, <3>3 DEF NamesOf
    <3>8. QED
      BY <2>1, <3>1, <3>4, <3>6, <3>7 DEF Unread, Once
  <2>4. QED
    BY <2>2, <2>3
<1>5. CASE PostBatch
  BY <1>2, <1>5 DEF PostBatch
<1>6. CASE \E reports : EndWalk(reports)
  BY <1>2, <1>6 DEF EndWalk
<1>7. CASE PostFinal /\ ~\E reports : EndWalk(reports)
  BY <1>2, <1>7 DEF PostFinal
<1>8. CASE (\E err \in BOOLEAN : CompleteWalk(err)) \/ ExitThread
  <2>1. UNCHANGED <<batch, todo>>
    BY <1>8 DEF CompleteWalk, ExitThread, walkVars
  <2>2. NamesOf(batch') = NamesOf(batch)
    BY <2>1
  <2>3. batch' = <<>> => NamesOf(batch) = {}
    BY <2>1, NamesOfLists
  <2>4. QED
    BY <2>1, <2>2, <2>3 DEF Once, Unread
<1>9. ~BeginWalk \/ BeginWalk
  OBVIOUS
<1>10. CASE AbandonWalk \/ Classify
  BY <1>6, <1>10 DEF AbandonWalk, Classify
<1>11. QED
  BY <1>3, <1>4, <1>5, <1>6, <1>7, <1>8, <1>10 DEF Worker

\* A walk keeps naming every entry once.
LEMMA NamedOnceKept ==
  ASSUME Typed, HeldForEditor, Order, NamedOnce, [Next]_vars
  PROVE  NamedOnce'
<1> USE DEF IsBatch
<1>1. ASSUME NEW w \in Walk, Starting(w) PROVE NamedOnce'
  BY <1>1 DEF Starting, NamedOnce, Busy, Unread
<1>2. CASE Delivering
  <2>1. Busy' = Busy /\ Unread' = Unread /\ UNCHANGED <<walk, todo, batch>>
    BY <1>2 DEF Delivering, Busy, Unread
  <2>3. \A i \in DOMAIN events' : i + 1 \in DOMAIN events /\ events'[i] = events[i + 1] /\ i \in Nat
    BY <1>2, DeliveredFirst
  <2>4. \A i, j \in DOMAIN events' : i # j => i + 1 # j + 1
    BY <2>3
  <2>5. QED
    BY <2>1, <2>3, <2>4 DEF NamedOnce
<1>3. CASE Aside
  BY <1>3 DEF Aside, NamedOnce, Busy, Unread
<1>4. CASE Worker /\ UNCHANGED <<guiVars, fs>>
  <2>1. Reporting /\ Continuing
    BY <1>4, WorkerReports
  <2>2. /\ Once(batch') /\ NamesOf(batch') \cap todo' = {}
        /\ ~BeginWalk => Unread' \subseteq Unread
        /\ batch' = <<>> /\ ~BeginWalk => Unread' \subseteq todo
        /\ Once(batch) /\ NamesOf(batch) \cap todo = {}
    BY <1>4, LeftUnread DEF NamedOnce
  <2>3. CASE BeginWalk /\ inbox # <<>> /\ walk' = inbox[1] /\ inbox' = Tail(inbox) /\ events' = events
    BY <2>2, <2>3, BegunFirst DEF NamedOnce
  <2>4. CASE ~BeginWalk /\ (Busy' => Busy /\ walk' = walk)
    <3>1. \A i \in DOMAIN events' :
            \/ i \in DOMAIN events /\ events'[i] = events[i]
            \/ /\ i \notin DOMAIN events
               /\ IsBatch(events'[i]) =>
                    /\ Busy /\ events'[i].generation = walk.generation /\ events'[i].entries = batch
                    /\ i = Len(events) + 1 /\ batch' = <<>>
      BY <2>1 DEF Reporting, Said, LastOfAll
    <3>2. \A i \in DOMAIN events' : IsBatch(events'[i]) => Once(events'[i].entries)
      BY <2>2, <3>1 DEF NamedOnce
    <3>3. \A i \in DOMAIN events' :
            IsBatch(events'[i]) /\ Busy' /\ events'[i].generation = walk'.generation =>
              NamesOf(events'[i].entries) \cap Unread' = {}
      BY <2>2, <2>4, <3>1 DEF NamedOnce
    <3>4. \A i \in DOMAIN events :
            IsBatch(events[i]) /\ Busy /\ events[i].generation = walk.generation =>
              NamesOf(events[i].entries) \cap NamesOf(batch) = {}
      BY DEF NamedOnce, Unread
    <3>5. \A i, j \in DOMAIN events' :
            IsBatch(events'[i]) /\ IsBatch(events'[j]) /\ i # j
              /\ events'[i].generation = events'[j].generation =>
                NamesOf(events'[i].entries) \cap NamesOf(events'[j].entries) = {}
      BY <3>1, <3>4 DEF NamedOnce
    <3>6. QED
      BY <2>2, <3>2, <3>3, <3>5 DEF NamedOnce
  <2>5. Continuing => \/ BeginWalk /\ inbox # <<>> /\ walk' = inbox[1] /\ inbox' = Tail(inbox) /\ events' = events
                      \/ ~BeginWalk /\ (Busy' => Busy /\ walk' = walk)
    <3>1. BeginWalk => ~Busy /\ Busy'
      BY DEF BeginWalk, Busy
    <3> HIDE DEF Busy
    <3>2. QED
      BY <3>1 DEF Continuing
  <2>6. QED
    BY <2>1, <2>3, <2>4, <2>5
<1>5. QED
  BY <1>1, <1>2, <1>3, <1>4, StepKinds

-----------------------------------------------------------------------------
(* The rows.                                                               *)

\* Where a row comes from, when entries have been applied: it is the entry of that name,
\* or as it was.
From(row, entries) ==
  IF row.name \in NamesOf(entries)
  THEN \E i \in DOMAIN entries : row = entries[i]
  ELSE row.name \in DOMAIN rowOf /\ row = rows[rowOf[row.name]]

\* A list in two parts.
LEMMA InParts ==
  ASSUME NEW s \in Seq(Entry), NEW t \in Seq(Entry)
  PROVE  /\ s \o t \in Seq(Entry)
         /\ \A r \in DOMAIN (s \o t) : \/ r \in DOMAIN s /\ (s \o t)[r] = s[r]
                                       \/ \E i \in DOMAIN t : (s \o t)[r] = t[i]
<1>1. /\ s \o t \in Seq(Entry) /\ Len(s) \in Nat /\ Len(t) \in Nat
      /\ DOMAIN (s \o t) = 1 .. Len(s) + Len(t) /\ DOMAIN s = 1 .. Len(s) /\ DOMAIN t = 1 .. Len(t)
      /\ \A r \in 1 .. Len(s) : (s \o t)[r] = s[r]
      /\ \A r \in (Len(s) + 1) .. (Len(s) + Len(t)) : (s \o t)[r] = t[r - Len(s)]
  OBVIOUS
<1>2. \A r \in (Len(s) + 1) .. (Len(s) + Len(t)) : r - Len(s) \in 1 .. Len(t)
  BY <1>1
<1>3. \A r \in 1 .. Len(s) + Len(t) : r \in 1 .. Len(s) \/ r \in (Len(s) + 1) .. (Len(s) + Len(t))
  BY <1>1
<1>4. QED
  BY <1>1, <1>2, <1>3

\* applyBatch: the rows and their identities match, with the entries of a load appended,
\* those of a refresh in their places, and after it what it has not seen gone.
LEMMA AppliedEntries ==
  ASSUME Matches(rows, rowOf), seen \subseteq DOMAIN rowOf, DOMAIN rowOf \subseteq Names,
         NEW b \in BatchEvent, Once(b.entries),
         ~b.diff => NamesOf(b.entries) \cap DOMAIN rowOf = {},
         ApplyEntries(b)
  PROVE  /\ Matches(rows', rowOf') /\ DOMAIN rowOf' \subseteq Names
         /\ \A r \in DOMAIN rows' : From(rows'[r], b.entries)
         /\ IF b.diff /\ b.finished /\ ~b.error
            THEN seen' = {} /\ DOMAIN rowOf' = seen \cup NamesOf(b.entries)
            ELSE /\ seen' = IF b.diff THEN seen \cup NamesOf(b.entries) ELSE seen
                 /\ DOMAIN rowOf' = DOMAIN rowOf \cup NamesOf(b.entries)
<1> DEFINE entries == b.entries
           added == IF b.diff THEN Additions(entries) ELSE entries
           base == IF b.diff THEN UpdatedRows(entries) ELSE rows
           all == base \o added
           nowSeen == IF b.diff THEN seen \cup NamesOf(entries) ELSE seen
<1>1. entries \in Seq(Entry) /\ rows \in Seq(Entry) /\ Once(entries)
  BY Events DEF Matches
<1>2. NamesOf(entries) \subseteq Names
  BY <1>1, NamesOfLists
<1>3. IF b.diff /\ b.finished /\ ~b.error
      THEN rows' = Kept(all, nowSeen) /\ rowOf' = Renumbered(rows') /\ seen' = {}
      ELSE rows' = all /\ rowOf' = AppendedRowOf(added) /\ seen' = nowSeen
  BY DEF ApplyEntries
<1>4. /\ added \in Seq(Entry) /\ Once(added) /\ NamesOf(added) \cap DOMAIN rowOf = {}
      /\ DOMAIN rowOf \cup NamesOf(added) = DOMAIN rowOf \cup NamesOf(entries)
      /\ \A k \in DOMAIN added : \E i \in DOMAIN entries : added[k] = entries[i]
  <2>1. CASE b.diff
    <3>1. added = Additions(entries)
      BY <2>1
    <3> HIDE DEF added, entries
    <3>2. /\ Additions(entries) \in Seq(Entry) /\ Once(Additions(entries))
          /\ NamesOf(Additions(entries)) = NamesOf(entries) \ DOMAIN rowOf
          /\ \A k \in DOMAIN Additions(entries) :
               \E i \in DOMAIN entries : Additions(entries)[k] = entries[i]
      BY <1>1, AdditionsAreNew
    <3>3. QED
      BY <3>1, <3>2
  <2>2. CASE ~b.diff
    BY <1>1, <2>2
  <2>3. QED
    BY <2>1, <2>2
<1>5. /\ Matches(base, rowOf) /\ Len(base) = Len(rows) /\ DOMAIN base = DOMAIN rows
      /\ \A r \in DOMAIN base : From(base[r], entries)
  <2>1. \A r \in DOMAIN rows : rows[r].name \in DOMAIN rowOf /\ rowOf[rows[r].name] = r
    BY DEF Matches
  <2>2. CASE b.diff
    <3>1. base = UpdatedRows(entries)
      BY <2>2
    <3> HIDE DEF base, entries
    <3>2. /\ Matches(UpdatedRows(entries), rowOf) /\ Len(UpdatedRows(entries)) = Len(rows)
          /\ \A r \in DOMAIN rows :
               IF rows[r].name \in NamesOf(entries)
               THEN \E i \in DOMAIN entries : UpdatedRows(entries)[r] = entries[i]
               ELSE UpdatedRows(entries)[r] = rows[r]
      BY <1>1, UpdatingMatches
    <3>3. DOMAIN base = DOMAIN rows
      BY <3>1, <3>2 DEF Matches
    <3>4. \A r \in DOMAIN base : base[r].name = rows[r].name
      BY <2>1, <3>1, <3>2, <3>3 DEF Matches
    <3>5. \A r \in DOMAIN base : From(base[r], entries)
      BY <2>1, <3>1, <3>2, <3>3, <3>4 DEF From
    <3>6. QED
      BY <3>1, <3>2, <3>3, <3>5
  <2>3. CASE ~b.diff
    <3>1. base = rows
      BY <2>3
    <3>2. \A n \in DOMAIN rowOf : n \notin NamesOf(entries)
      BY <2>3
    <3> HIDE DEF base, entries
    <3>3. \A r \in DOMAIN base : From(base[r], entries)
      BY <2>1, <3>1, <3>2 DEF From
    <3>4. QED
      BY <3>1, <3>3
  <2>4. QED
    BY <2>2, <2>3
<1> HIDE DEF base, added, entries
<1>6. Matches(all, AppendedRowOf(added)) /\ DOMAIN AppendedRowOf(added) = DOMAIN rowOf \cup NamesOf(added)
  BY <1>4, <1>5, AppendingMatches
<1>7. \A r \in DOMAIN all : From(all[r], entries)
  <2>1. base \in Seq(Entry)
    BY <1>5 DEF Matches
  <2>2. \A r \in DOMAIN all : \/ r \in DOMAIN base /\ all[r] = base[r]
                              \/ \E i \in DOMAIN added : all[r] = added[i]
    BY <1>4, <2>1, InParts
  <2>3. \A i \in DOMAIN entries : From(entries[i], entries)
    BY DEF From, NamesOf
  <2> HIDE DEF all
  <2>4. QED
    BY <1>4, <1>5, <2>2, <2>3
<1>8. /\ all \in Seq(Entry) /\ Once(all) /\ NamesOf(all) = DOMAIN rowOf \cup NamesOf(entries)
  <2> DEFINE index == AppendedRowOf(added)
  <2>1. Matches(all, index) /\ DOMAIN index = DOMAIN rowOf \cup NamesOf(entries)
    BY <1>4, <1>6
  <2> HIDE DEF all, index
  <2>2. all \in Seq(Entry) /\ Once(all)
    BY <2>1 DEF Matches, Once
  <2>3. \A n \in NamesOf(all) : n \in DOMAIN index
    BY <2>1 DEF Matches, NamesOf
  <2>4. ASSUME NEW n \in DOMAIN index PROVE n \in NamesOf(all)
    <3>1. index[n] \in DOMAIN all /\ all[index[n]].name = n
      BY <2>1 DEF Matches
    <3>2. QED
      BY <3>1 DEF NamesOf
  <2>5. QED
    BY <2>1, <2>2, <2>3, <2>4
<1> HIDE DEF all
<1>9. CASE b.diff /\ b.finished /\ ~b.error
  <2>1. rows' = Kept(all, nowSeen) /\ rowOf' = Renumbered(Kept(all, nowSeen)) /\ seen' = {} /\ nowSeen = seen \cup NamesOf(entries)
    BY <1>3, <1>9
  <2> HIDE DEF nowSeen
  <2>2. /\ Matches(Kept(all, nowSeen), Renumbered(Kept(all, nowSeen)))
        /\ DOMAIN Renumbered(Kept(all, nowSeen)) = NamesOf(all) \cap nowSeen
        /\ Range(Kept(all, nowSeen)) \subseteq Range(all)
    <3>1. all \in Seq(Entry) /\ Once(all)
      BY <1>8
    <3>2. /\ Matches(Kept(all, nowSeen), Renumbered(Kept(all, nowSeen)))
          /\ DOMAIN Renumbered(Kept(all, nowSeen)) = NamesOf(all) \cap nowSeen
      BY <3>1, KeptMatches
    <3>3. Range(Kept(all, nowSeen)) \subseteq Range(all)
      BY <3>1, KeptMatches
    <3>4. QED
      BY <3>2, <3>3
  <2>3. DOMAIN rowOf' = seen \cup NamesOf(entries)
    BY <1>8, <2>1, <2>2
  <2>4. \A r \in DOMAIN rows' : From(rows'[r], entries)
    <3>1. \A r \in DOMAIN rows' : rows'[r] \in Range(all)
      BY <2>1, <2>2 DEF Range
    <3>2. \A e \in Range(all) : From(e, entries)
      BY <1>7 DEF Range
    <3>3. QED
      BY <3>1, <3>2
  <2>5. DOMAIN rowOf' \subseteq Names
    BY <1>2, <2>3
  <2>6. Matches(rows', rowOf')
    BY <2>1, <2>2
  <2>7. QED
    BY <1>9, <2>1, <2>3, <2>4, <2>5, <2>6 DEF entries
<1>10. CASE ~(b.diff /\ b.finished /\ ~b.error)
  <2>1. rows' = all /\ rowOf' = AppendedRowOf(added) /\ seen' = nowSeen
    BY <1>3, <1>10
  <2>2. Matches(rows', rowOf') /\ DOMAIN rowOf' = DOMAIN rowOf \cup NamesOf(entries)
    BY <1>4, <1>6, <2>1
  <2>3. \A r \in DOMAIN rows' : From(rows'[r], entries)
    BY <1>7, <2>1
  <2>4. DOMAIN rowOf' \subseteq Names
    BY <1>2, <2>2
  <2>5. QED
    BY <1>10, <2>1, <2>2, <2>3, <2>4 DEF entries
<1>11. QED
  BY <1>9, <1>10

\* Without an editor for a new name the rows are entries, and match.
LEMMA NoPlaceholder ==
  ASSUME Listing, editing # "create"
  PROVE  Matches(rows, rowOf) /\ \A r \in DOMAIN rows : rows[r] # PlaceholderRow
<1>1. rows \in Seq(Row) /\ \A r \in DOMAIN rows : rows[r] # PlaceholderRow
  BY DEF Listing
<1>2. \A r \in DOMAIN rows : rows[r] \in Entry
  BY <1>1 DEF Row
<1>3. rows \in Seq(Entry)
  BY <1>1, <1>2
<1>4. QED
  BY <1>1, <1>3 DEF Listing, Matches

\* Rows that match are a listing.
LEMMA MatchesAreListed ==
  ASSUME NEW list, NEW index, Matches(list, index), DOMAIN index \subseteq Names
  PROVE  /\ list \in Seq(Row)
         /\ \A r \in DOMAIN list : list[r] # PlaceholderRow /\ list[r].name \in DOMAIN index
                                   /\ index[list[r].name] = r
         /\ \A n \in DOMAIN index : index[n] \in DOMAIN list /\ list[index[n]].name = n
<1>1. \A e \in Entry : e \in Row /\ e # PlaceholderRow
  BY ConstantsAssumption DEF Entry, Row, PlaceholderRow
<1>2. list \in Seq(Entry)
  BY DEF Matches
<1>3. \A r \in DOMAIN list : list[r] \in Row /\ list[r] # PlaceholderRow
  BY <1>1, <1>2
<1>4. list \in Seq(Row)
  BY <1>2, <1>3
<1>5. QED
  BY <1>3, <1>4 DEF Matches

\* What a delivered batch does to the listing.
LEMMA DeliveredBatch ==
  ASSUME Typed, HeldForEditor, NamedOnce, NewToRows, Listing,
         Delivered("batch"), OnBatch(Head(events))
  PROVE  /\ events[1] \in BatchEvent /\ IsBatch(events[1]) /\ 1 \in DOMAIN events
         /\ Head(events) = events[1] /\ events' = Tail(events)
         /\ \/ (Superseded(events[1]) \/ Withheld) /\ UNCHANGED <<rows, rowOf, seen, error, scanning>>
            \/ /\ ~Withheld /\ Current(events[1]) /\ editing = "no" /\ ApplyEntries(events[1])
               /\ Matches(rows, rowOf) /\ Once(events[1].entries)
               /\ ~events[1].diff => NamesOf(events[1].entries) \cap DOMAIN rowOf = {}
               /\ Matches(rows', rowOf') /\ DOMAIN rowOf' \subseteq Names
               /\ \A r \in DOMAIN rows' : From(rows'[r], events[1].entries)
               /\ IF events[1].diff /\ events[1].finished /\ ~events[1].error
                  THEN seen' = {} /\ DOMAIN rowOf' = seen \cup NamesOf(events[1].entries)
                  ELSE /\ seen' = IF events[1].diff THEN seen \cup NamesOf(events[1].entries) ELSE seen
                       /\ DOMAIN rowOf' = DOMAIN rowOf \cup NamesOf(events[1].entries)
               /\ error' = (error \/ events[1].error)
               /\ scanning' = (scanning /\ ~events[1].finished)
<1> DEFINE b == events[1]
<1>1. events \in Seq(Event) /\ events # <<>> /\ events' = Tail(events) /\ Head(events).type = "batch"
  BY DEF Typed, DataTyped, Delivered
<1>2. b \in Event /\ 1 \in DOMAIN events /\ Head(events) = b
  BY <1>1, TakenHead
<1>3. IsBatch(b) /\ b \in BatchEvent
  BY <1>1, <1>2, Events DEF IsBatch
<1>4. OnBatch(b)
  BY <1>2
<1> HIDE DEF b
<1>5. CASE Superseded(b) \/ Withheld
  <2>1. UNCHANGED <<rows, rowOf, seen, error, scanning>>
    BY <1>4, <1>5 DEF OnBatch
  <2>2. QED
    BY <1>1, <1>2, <1>3, <1>5, <2>1 DEF b
<1>6. CASE ~(Superseded(b) \/ Withheld)
  <2>1. /\ ApplyEntries(b) /\ error' = (error \/ b.error) /\ scanning' = (scanning /\ ~b.finished)
    BY <1>4, <1>6 DEF OnBatch
  <2>2. Current(b)
    BY <1>6 DEF Superseded, Current
  <2>3. editing = "no" /\ ~Withheld
    BY <1>6 DEF Withheld, HeldForEditor
  <2>4. Matches(rows, rowOf) /\ seen \subseteq DOMAIN rowOf /\ DOMAIN rowOf \subseteq Names
    BY <2>3, NoPlaceholder DEF Listing
  <2>5. Once(b.entries) /\ (~b.diff => NamesOf(b.entries) \cap DOMAIN rowOf = {})
    BY <1>2, <1>3, <2>2 DEF NamedOnce, NewToRows, b
  <2>6. /\ Matches(rows', rowOf') /\ DOMAIN rowOf' \subseteq Names
        /\ \A r \in DOMAIN rows' : From(rows'[r], b.entries)
        /\ IF b.diff /\ b.finished /\ ~b.error
           THEN seen' = {} /\ DOMAIN rowOf' = seen \cup NamesOf(b.entries)
           ELSE /\ seen' = IF b.diff THEN seen \cup NamesOf(b.entries) ELSE seen
                /\ DOMAIN rowOf' = DOMAIN rowOf \cup NamesOf(b.entries)
    BY <1>3, <2>1, <2>4, <2>5, AppliedEntries
  <2>7. QED
    BY <1>1, <1>2, <1>3, <2>1, <2>2, <2>3, <2>4, <2>5, <2>6 DEF b
<1>7. QED
  BY <1>5, <1>6

\* What is left of a list when its last entry is taken off.
LEMMA WithoutLast ==
  ASSUME NEW S, NEW s \in Seq(S), s # <<>>
  PROVE  /\ Len(s) \in Nat /\ Len(s) >= 1 /\ DOMAIN s = 1 .. Len(s)
         /\ Front(s) \in Seq(S) /\ Len(Front(s)) = Len(s) - 1 /\ DOMAIN Front(s) = 1 .. Len(s) - 1
         /\ \A r \in 1 .. Len(s) - 1 : Front(s)[r] = s[r] /\ r \in DOMAIN s /\ r # Len(s)
<1> DEFINE n == Len(s)
<1>1. n \in Nat /\ n >= 1 /\ DOMAIN s = 1 .. n
  OBVIOUS
<1>2. Front(s) = SubSeq(s, 1, n - 1)
  BY DEF Front
<1>3. \A i \in DOMAIN s : s[i] \in S
  OBVIOUS
<1> HIDE DEF n
<1>4. \A r \in 1 .. n - 1 : r \in 1 .. n /\ r # n /\ 1 + r - 1 = r
  BY <1>1
<1>5. \A i \in 1 .. n - 1 : s[i] \in S
  BY <1>1, <1>3, <1>4
<1>6. /\ n - 1 \in Int /\ (n - 1) - 1 + 1 = n - 1
      /\ (IF 1 <= n - 1 THEN (n - 1) - 1 + 1 ELSE 0) = n - 1
  BY <1>1
<1>7. /\ SubSeq(s, 1, n - 1) \in Seq(S)
      /\ Len(SubSeq(s, 1, n - 1)) = (IF 1 <= n - 1 THEN (n - 1) - 1 + 1 ELSE 0)
      /\ \A i \in 1 .. (n - 1) - 1 + 1 : SubSeq(s, 1, n - 1)[i] = s[1 + i - 1]
  <2>1. 1 \in Int /\ n - 1 \in Int
    BY <1>1
  <2>2. QED
    BY <1>5, <2>1, SubSeqProperties
<1>8. \A r \in 1 .. n - 1 : SubSeq(s, 1, n - 1)[r] = s[r]
  BY <1>4, <1>6, <1>7
<1>9. /\ Front(s) \in Seq(S) /\ Len(Front(s)) = n - 1
      /\ \A r \in 1 .. n - 1 : Front(s)[r] = s[r]
  BY <1>2, <1>6, <1>7, <1>8
<1>10. DOMAIN Front(s) = 1 .. n - 1
  BY <1>9
<1>11. QED
  BY <1>1, <1>4, <1>9, <1>10 DEF n

\* Every entry keeps its one row, and the placeholder its place.
LEMMA ListingKept ==
  ASSUME Typed, HeldForEditor, NamedOnce, NewToRows, Listing, [Next]_vars
  PROVE  Listing'
<1>1. ASSUME UNCHANGED <<rows, rowOf, editing>>, seen' = seen \/ seen' = {} PROVE Listing'
  BY <1>1 DEF Listing
<1>2. ASSUME Matches(rows', rowOf'), DOMAIN rowOf' \subseteq Names, seen' \subseteq DOMAIN rowOf',
             editing' # "create"
      PROVE  Listing'
  BY <1>2, MatchesAreListed DEF Listing
<1>3. ASSUME NEW p \in Paths, Load(p) PROVE Listing'
  <2>1. rows' = <<>> /\ rowOf' = <<>> /\ editing' = "no" /\ seen' = {}
    BY <1>3 DEF Load, StartWalk, ClearSeen
  <2>2. Matches(<<>>, <<>>) /\ DOMAIN <<>> = {}
    BY DEF Matches
  <2>3. QED
    BY <1>2, <2>1, <2>2
<1>4. CASE AddWatch
  BY <1>1, <1>4 DEF AddWatch, modelVars
<1>5. CASE DirectoryChanged \/ TaskFinished
  BY <1>1, <1>5 DEF DirectoryChanged, TaskFinished, Refresh, StartWalk, ClearSeen, modelVars, userVars
<1>6. CASE BeginEditing("rename")
  <2>1. editing' = "rename" /\ editing = "no" /\ UNCHANGED <<rows, rowOf, seen>>
    BY <1>6 DEF BeginEditing
  <2>2. Matches(rows', rowOf')
    BY <2>1, NoPlaceholder
  <2>3. DOMAIN rowOf' \subseteq Names /\ seen' \subseteq DOMAIN rowOf'
    BY <2>1 DEF Listing
  <2>4. QED
    BY <1>2, <2>1, <2>2, <2>3
<1>7. CASE BeginEditing("create")
  <2>1. /\ editing' = "create" /\ editing = "no" /\ UNCHANGED <<rowOf, seen>>
        /\ rows' = Append(rows, PlaceholderRow)
    BY <1>7 DEF BeginEditing
  <2>2. rows \in Seq(Row) /\ PlaceholderRow \in Row
    BY DEF Listing, Row
  <2>3. /\ rows' \in Seq(Row)
        /\ \A r \in DOMAIN rows' : \/ r \in DOMAIN rows /\ rows'[r] = rows[r]
                                   \/ r = Len(rows) + 1 /\ rows'[r] = PlaceholderRow
        /\ \A r \in DOMAIN rows : r \in DOMAIN rows' /\ rows'[r] = rows[r]
        /\ Len(rows') = Len(rows) + 1 /\ Len(rows') \in DOMAIN rows'
        /\ rows'[Len(rows')] = PlaceholderRow
    BY <2>1, <2>2, AppendedLast
  <2>4. \A r \in DOMAIN rows : rows[r] # PlaceholderRow
    BY <2>1, NoPlaceholder
  <2>5. \A r \in DOMAIN rows' :
          IF rows'[r] = PlaceholderRow THEN r = Len(rows')
          ELSE rows'[r].name \in DOMAIN rowOf /\ rowOf[rows'[r].name] = r
    BY <2>3, <2>4 DEF Listing
  <2>6. \A n \in DOMAIN rowOf : rowOf[n] \in DOMAIN rows' /\ rows'[rowOf[n]].name = n
    BY <2>3 DEF Listing
  <2>7. rows' # <<>>
    BY <2>3
  <2>8. QED
    BY <2>1, <2>3, <2>5, <2>6, <2>7 DEF Listing
<1>8. CASE EndEditing
  <2>1. /\ editing' = "no" /\ rowOf' = rowOf /\ seen' = {}
        /\ rows' = IF editing = "create" THEN Front(rows) ELSE rows
    BY <1>8 DEF EndEditing, StartWalk, ClearSeen
  <2>2. CASE editing # "create"
    BY <1>2, <2>1, <2>2, NoPlaceholder DEF Listing
  <2>3. CASE editing = "create"
    <3>1. rows \in Seq(Row) /\ rows # <<>> /\ rows[Len(rows)] = PlaceholderRow
      BY <2>3 DEF Listing
    <3>2. rows' = Front(rows)
      BY <2>1, <2>3
    <3>3. /\ Len(rows) \in Nat /\ Len(rows) > 0 /\ DOMAIN rows = 1 .. Len(rows)
          /\ DOMAIN rows' = 1 .. Len(rows) - 1 /\ Len(rows') = Len(rows) - 1
          /\ \A r \in 1 .. Len(rows) - 1 : rows'[r] = rows[r]
          /\ rows' \in Seq(Row)
      BY <3>1, <3>2, WithoutLast
    <3>4. \A r \in 1 .. Len(rows) - 1 : r \in DOMAIN rows /\ r # Len(rows)
      BY <3>1, WithoutLast
    <3>5. \A r \in DOMAIN rows' : /\ rows'[r] = rows[r] /\ rows[r] # PlaceholderRow
                                  /\ rows[r].name \in DOMAIN rowOf /\ rowOf[rows[r].name] = r
      BY <3>3, <3>4 DEF Listing
    <3>6. \A r \in DOMAIN rows' : rows'[r] \in Entry
      BY <3>3, <3>5 DEF Row
    <3>7. rows' \in Seq(Entry)
      BY <3>3, <3>6
    <3>8. ASSUME NEW n \in DOMAIN rowOf PROVE rowOf[n] \in DOMAIN rows' /\ rows'[rowOf[n]].name = n
      <4>1. rowOf[n] \in DOMAIN rows /\ rows[rowOf[n]].name = n /\ n \in Names
        BY DEF Listing
      <4>2. rowOf[n] # Len(rows)
        BY <3>1, <4>1, ConstantsAssumption DEF PlaceholderRow
      <4>3. rowOf[n] \in 1 .. Len(rows) - 1
        BY <3>3, <4>1, <4>2
      <4>4. QED
        BY <3>3, <4>1, <4>3
    <3>9. Matches(rows', rowOf')
      BY <2>1, <3>5, <3>7, <3>8 DEF Matches
    <3>10. DOMAIN rowOf' \subseteq Names
      BY <2>1 DEF Listing
    <3>11. QED
      BY <1>2, <2>1, <3>9, <3>10
  <2>4. QED
    BY <2>2, <2>3
<1>9. CASE Shutdown
  BY <1>1, <1>9 DEF Shutdown, userVars
<1>10. CASE Delivered("batch") /\ OnBatch(Head(events))
  <2>1. editing' = editing
    BY <1>10 DEF Delivered
  <2>2. CASE UNCHANGED <<rows, rowOf, seen>>
    BY <1>1, <2>1, <2>2
  <2>3. CASE ~UNCHANGED <<rows, rowOf, seen>>
    <3>1. /\ editing = "no" /\ Matches(rows', rowOf') /\ DOMAIN rowOf' \subseteq Names
          /\ \/ seen' = {}
             \/ /\ DOMAIN rowOf' = DOMAIN rowOf \cup NamesOf(events[1].entries)
                /\ seen' = IF events[1].diff THEN seen \cup NamesOf(events[1].entries) ELSE seen
      BY <1>10, <2>3, DeliveredBatch
    <3>2. seen' \subseteq DOMAIN rowOf'
      BY <3>1 DEF Listing
    <3>3. QED
      BY <1>2, <2>1, <3>1, <3>2
  <2>4. QED
    BY <2>2, <2>3
<1>11. CASE Deliver /\ ~(Delivered("batch") /\ OnBatch(Head(events)))
  BY <1>1, <1>11 DEF Deliver, Delivered, OnClassified, OnWalkFinished, OnThreadFinished, modelVars
<1>12. CASE Worker
  <2>1. UNCHANGED guiVars
    BY <1>12 DEF Worker, BeginWalk, ReadEntry, PostBatch, AbandonWalk, CompleteWalk, PostFinal,
                 Classify, ExitThread, EndWalk, WorkerStep
  <2>2. QED
    BY <1>1, <2>1 DEF guiVars, modelVars, userVars
<1>13. ASSUME NEW p, NEW n, NEW v, Change(p, n, v) PROVE Listing'
  BY <1>1, <1>13 DEF Change, modelVars
<1>14. CASE UNCHANGED vars
  BY <1>1, <1>14 DEF vars, guiVars, modelVars, userVars
<1>15. QED
  BY <1>3, <1>4, <1>5, <1>6, <1>7, <1>8, <1>9, <1>10, <1>11, <1>12, <1>13, <1>14 DEF Next, User

\* What the present load has yet to report is still not among the rows.
LEMMA NewToRowsKept ==
  ASSUME Typed, HeldForEditor, Order, NamedOnce, NewToRows, Listing, [Next]_vars
  PROVE  NewToRows'
<1> USE DEF Current, IsBatch
<1>1. ASSUME NEW w \in Walk, Starting(w) PROVE NewToRows'
  <2>1. CASE w.diff
    <3>1. \A i \in DOMAIN inbox' : Current(inbox[i])' => inbox'[i].diff
      BY <1>1, <2>1, StartsAnew
    <3>2. QED
      BY <1>1, <3>1, StartsAnew DEF NewToRows, Busy
  <2>2. CASE ~w.diff
    <3>1. DOMAIN rowOf' = {}
      BY <1>1, <2>2 DEF Starting
    <3>2. QED
      BY <3>1 DEF NewToRows
  <2>3. QED
    BY <2>1, <2>2
<1>2. CASE Aside
  BY <1>2 DEF Aside, NewToRows, Busy, Unread
<1>3. CASE Delivering
  <2>1. /\ UNCHANGED <<generation, inbox, walk>> /\ Busy' = Busy /\ Unread' = Unread
        /\ \A i \in DOMAIN events' : i + 1 \in DOMAIN events /\ events'[i] = events[i + 1]
    BY <1>3, DeliveredFirst DEF Busy, Unread
  <2>2. CASE rowOf' = rowOf
    BY <2>1, <2>2 DEF NewToRows
  <2>3. CASE rowOf' # rowOf
    <3>1. Delivered("batch") /\ OnBatch(Head(events))
      BY <1>3, <2>3 DEF Delivering, Deliver, OnClassified, OnWalkFinished, OnThreadFinished, modelVars
    <3>2. /\ IsBatch(events[1]) /\ 1 \in DOMAIN events /\ Current(events[1])
          /\ \/ DOMAIN rowOf' = seen \cup NamesOf(events[1].entries)
             \/ DOMAIN rowOf' = DOMAIN rowOf \cup NamesOf(events[1].entries)
      BY <2>3, <3>1, DeliveredBatch
    <3>3. DOMAIN rowOf' \subseteq DOMAIN rowOf \cup NamesOf(events[1].entries)
      BY <3>2 DEF Listing
    <3>4. \A i \in DOMAIN inbox : ~Current(inbox[i])
      BY <3>2, Facts DEF Order
    <3>5. Busy /\ Current(walk) => NamesOf(events[1].entries) \cap Unread = {}
      BY <3>2 DEF NamedOnce
    <3>6. \A i \in DOMAIN events' : /\ i + 1 \in DOMAIN events /\ events'[i] = events[i + 1] /\ i + 1 # 1
      BY <1>3, DeliveredFirst
    <3>7. \A i \in DOMAIN events' : IsBatch(events'[i]) /\ Current(events'[i]) =>
            NamesOf(events[1].entries) \cap NamesOf(events'[i].entries) = {}
      BY <3>2, <3>6 DEF NamedOnce
    <3>8. \A i \in DOMAIN events' :
            IsBatch(events'[i]) /\ Current(events'[i]) /\ ~events'[i].diff =>
              NamesOf(events'[i].entries) \cap DOMAIN rowOf' = {}
      BY <3>3, <3>6, <3>7 DEF NewToRows
    <3>9. Busy /\ Current(walk) /\ ~walk.diff => Unread \cap DOMAIN rowOf' = {}
      BY <3>3, <3>5 DEF NewToRows
    <3>10. QED
      BY <2>1, <3>4, <3>8, <3>9 DEF NewToRows
  <2>4. QED
    BY <2>2, <2>3
<1>4. CASE Worker /\ UNCHANGED <<guiVars, fs>>
  <2>1. Reporting /\ Continuing /\ rowOf' = rowOf /\ generation' = generation
    BY <1>4, WorkerReports DEF guiVars, modelVars
  <2>2. ~BeginWalk => Unread' \subseteq Unread
    BY <1>4, LeftUnread DEF NamedOnce
  <2>3. CASE BeginWalk /\ inbox # <<>> /\ walk' = inbox[1] /\ inbox' = Tail(inbox) /\ events' = events
    <3>1. 1 \in DOMAIN inbox /\ \A i \in DOMAIN inbox' : i + 1 \in DOMAIN inbox /\ inbox'[i] = inbox[i + 1]
      BY <2>3, BegunFirst
    <3>2. QED
      BY <2>1, <2>3, <3>1 DEF NewToRows
  <2>4. CASE ~BeginWalk /\ inbox' = inbox /\ (Busy' => Busy /\ walk' = walk)
    <3>1. \A i \in DOMAIN events' :
            \/ i \in DOMAIN events /\ events'[i] = events[i]
            \/ IsBatch(events'[i]) =>
                 /\ Busy /\ events'[i].generation = walk.generation /\ events'[i].entries = batch
                 /\ events'[i].diff = walk.diff
      BY <2>1 DEF Reporting, Said, LastOfAll
    <3>2. \A i \in DOMAIN events' :
            IsBatch(events'[i]) /\ Current(events'[i]) /\ ~events'[i].diff =>
              NamesOf(events'[i].entries) \cap DOMAIN rowOf = {}
      BY <3>1 DEF NewToRows, Unread
    <3>3. Busy' /\ Current(walk') /\ ~walk'.diff => Unread' \cap DOMAIN rowOf = {}
      BY <2>2, <2>4 DEF NewToRows
    <3>4. QED
      BY <2>1, <2>4, <3>2, <3>3 DEF NewToRows
  <2>5. Continuing => \/ BeginWalk /\ inbox # <<>> /\ walk' = inbox[1] /\ inbox' = Tail(inbox) /\ events' = events
                      \/ ~BeginWalk /\ inbox' = inbox /\ (Busy' => Busy /\ walk' = walk)
    <3>1. BeginWalk => ~Busy /\ Busy'
      BY DEF BeginWalk, Busy
    <3> HIDE DEF Busy
    <3>2. QED
      BY <3>1 DEF Continuing
  <2>6. QED
    BY <2>1, <2>3, <2>4, <2>5
<1>5. QED
  BY <1>1, <1>2, <1>3, <1>4, StepKinds

-----------------------------------------------------------------------------
(* The walks that are cancelled, come to an end, and are recorded.         *)

\* The present walk is still cancelled only while its batches are withheld.
LEMMA CancellingKept ==
  ASSUME Typed, HeldForEditor, Order, Cancelling, [Next]_vars
  PROVE  Cancelling'
<1> USE DEF Current
<1>1. generation \in Nat /\ \A g \in cancelled : g \in Nat /\ g <= generation
  BY Numbers DEF Typed, DataTyped, Cancelling
<1>2. ASSUME NEW w \in Walk, Starting(w) PROVE Cancelling'
  <2>1. /\ generation' = generation + 1 /\ \A g \in cancelled' : g \in cancelled \/ g = generation
        /\ UNCHANGED <<pc, walk, succeeded, failed>>
    BY <1>2 DEF Starting
  <2>2. \A g \in cancelled' : g <= generation' /\ g # generation'
    BY <1>1, <2>1
  <2>3. walk.generation # generation'
    BY <1>2, StartsAnew
  <2>4. pc = "final" /\ succeeded => ~walk.diff /\ ~failed
    BY DEF Cancelling
  <2>5. QED
    BY <2>1, <2>2, <2>3, <2>4 DEF Cancelling
<1>3. CASE Delivering
  BY <1>3 DEF Delivering, Cancelling, Withheld
<1>4. CASE Aside
  <2>1. CASE UNCHANGED <<scanning, suspended, stopping, cancelled>>
    BY <1>4, <2>1 DEF Aside, Cancelling, Withheld
  <2>2. CASE Withheld' /\ \A g \in cancelled' : g \in cancelled \/ g = generation
    <3>1. generation' = generation /\ UNCHANGED <<pc, walk, succeeded, failed>>
      BY <1>4 DEF Aside
    <3>2. \A g \in cancelled' : g <= generation'
      BY <1>1, <2>2, <3>1
    <3>3. pc = "final" /\ succeeded => ~walk.diff /\ ~failed
      BY DEF Cancelling
    <3>4. QED
      BY <2>2, <3>1, <3>2, <3>3 DEF Cancelling
  <2>3. QED
    BY <1>4, <2>1, <2>2 DEF Aside
<1>5. CASE Worker /\ UNCHANGED <<guiVars, fs>>
  <2>1. generation' = generation /\ Withheld' = Withheld
    BY <1>5 DEF guiVars, modelVars, Withheld
  <2>2. \A g \in cancelled' : g \in cancelled
    BY <1>5 DEF Worker, BeginWalk, ReadEntry, PostBatch, AbandonWalk, CompleteWalk, PostFinal,
                Classify, ExitThread, EndWalk, WorkerStep
  <2>3. ASSUME NEW err \in BOOLEAN, CompleteWalk(err)
        PROVE  /\ ~succeeded' /\ ~failed' /\ ~walk'.diff /\ Current(walk)' => Withheld
               /\ succeeded' => ~walk'.diff /\ ~failed'
    BY <2>1, <2>3 DEF CompleteWalk, Cancelled, Cancelling
  <2>4. CASE ~\E err \in BOOLEAN : CompleteWalk(err)
    <3>1. pc' # "final"
      BY <1>5, <2>4 DEF Worker, BeginWalk, ReadEntry, PostBatch, AbandonWalk, PostFinal,
                        Classify, ExitThread, EndWalk
    <3>2. QED
      BY <2>1, <2>2, <3>1 DEF Cancelling
  <2>5. CASE \E err \in BOOLEAN : CompleteWalk(err)
    BY <2>1, <2>2, <2>3, <2>5 DEF Cancelling
  <2>6. QED
    BY <2>4, <2>5
<1>6. QED
  BY <1>2, <1>3, <1>4, <1>5, StepKinds

\* A walk still ends with its last batch, and nothing is expected when none is scanned.
LEMMA ProgressKept ==
  ASSUME Typed, HeldForEditor, Order, NamedOnce, NewToRows, Listing, Cancelling, Progress, [Next]_vars
  PROVE  Progress'
<1> USE DEF Current, IsBatch
<1>1. \A i \in DOMAIN events : i \in Nat
  BY Facts
<1>2. ASSUME NEW w \in Walk, Starting(w) PROVE Progress'
  BY <1>2 DEF Starting, Progress, Busy
<1>3. CASE Delivering
  <2>1. /\ \A i \in DOMAIN events' : i + 1 \in DOMAIN events /\ events'[i] = events[i + 1] /\ 1 < i + 1
        /\ \A i \in DOMAIN events' : i \in Nat
        /\ UNCHANGED <<generation, inbox, walk, pc, todo, batch, failed, suspended, stopping>>
    BY <1>3, DeliveredFirst DEF Delivering
  <2>2. \A i, j \in DOMAIN events' : i < j => i + 1 < j + 1
    BY <2>1
  <2>3. Busy' = Busy /\ Withheld' = Withheld
    BY <2>1 DEF Busy, Withheld
  <2>4. CASE scanning' = scanning
    BY <2>1, <2>2, <2>3, <2>4 DEF Progress
  <2>5. CASE scanning' # scanning
    <3>1. Delivered("batch") /\ OnBatch(Head(events))
      BY <1>3, <2>5 DEF Delivering, Deliver, OnClassified, OnWalkFinished, OnThreadFinished, modelVars
    <3>2. /\ IsBatch(events[1]) /\ 1 \in DOMAIN events /\ Current(events[1]) /\ ~Withheld
          /\ scanning' = (scanning /\ ~events[1].finished) /\ events[1] \in BatchEvent
      BY <2>5, <3>1, DeliveredBatch
    <3>3. events[1].finished
      BY <2>5, <3>2 DEF Typed, FlagsTyped
    <3>4. \A i \in DOMAIN inbox : ~Current(inbox[i])
      BY <3>2, Facts DEF Order
    <3>5. pc \in {"read", "final"} => ~Current(walk)
      BY <3>2, <3>3 DEF Progress, Busy
    <3>6. \A i \in DOMAIN events' : IsBatch(events'[i]) => ~Current(events'[i])
      BY <2>1, <3>2, <3>3 DEF Progress
    <3>7. QED
      BY <2>1, <2>2, <2>3, <3>4, <3>5, <3>6 DEF Progress
  <2>6. QED
    BY <2>4, <2>5
<1>4. CASE Aside
  <2>1. UNCHANGED <<generation, inbox, events, pc, walk, todo, batch, failed>> /\ Busy' = Busy
    BY <1>4 DEF Aside, Busy
  <2>2. Withheld' \/ (Withheld' = Withheld /\ scanning' = scanning)
    BY <1>4 DEF Aside, Withheld
  <2>3. QED
    BY <2>1, <2>2 DEF Progress
<1>5. CASE Worker /\ UNCHANGED <<guiVars, fs>>
  <2>1. /\ Reporting /\ Continuing /\ generation' = generation
        /\ Withheld' = Withheld /\ scanning' = scanning
    BY <1>5, WorkerReports DEF guiVars, modelVars, Withheld
  <2>2. /\ pc' = "final" /\ ~failed' => todo' = {}
        /\ pc' = "classify" => batch' = <<>> /\ todo' = {} /\ pc = "final"
        /\ pc' \in {"read", "final"} => BeginWalk \/ (pc \in {"read", "final"} /\ walk' = walk)
    <3>1. CASE BeginWalk \/ \E n \in Names : ReadEntry(n)
      BY <3>1 DEF BeginWalk, ReadEntry
    <3>2. ASSUME NEW err \in BOOLEAN, CompleteWalk(err)
          PROVE  /\ ~failed' => todo' = {}
                 /\ pc' = "final" /\ pc = "read" /\ walk' = walk
      BY <3>2 DEF CompleteWalk
    <3>3. CASE PostBatch \/ ExitThread
      BY <3>3 DEF PostBatch, ExitThread
    <3>4. CASE \E reports : EndWalk(reports)
      BY <3>4 DEF EndWalk
    <3>5. CASE PostFinal /\ ~\E reports : EndWalk(reports)
      BY <3>5 DEF PostFinal, Progress, Cancelling
    <3>6. AbandonWalk \/ Classify => \E reports : EndWalk(reports)
      BY DEF AbandonWalk, Classify
    <3>7. QED
      BY <1>5, <3>1, <3>2, <3>3, <3>4, <3>5, <3>6 DEF Worker
  <2>3. \A i \in DOMAIN events' :
          \/ i \in DOMAIN events /\ events'[i] = events[i] /\ i <= Len(events)
          \/ /\ i > Len(events)
             /\ IsBatch(events'[i]) =>
                  /\ Busy /\ events'[i].generation = walk.generation /\ i = Len(events) + 1
                  /\ pc \in {"read", "final"}
                  /\ events'[i].finished => pc' \in {"idle", "classify"}
    <3>1. \A i \in DOMAIN events : i <= Len(events)
      BY DEF Typed, DataTyped
    <3>2. QED
      BY <2>1, <3>1 DEF Reporting, Said, LastOfAll
  <2>4. Len(events) \in Nat
    BY DEF Typed, DataTyped
  <2>5. \A i \in DOMAIN events : IsBatch(events[i]) /\ events[i].finished /\ Busy /\
                                 walk.generation = events[i].generation => pc = "classify"
    BY DEF Progress
  <2>6. \A i \in DOMAIN events' : IsBatch(events'[i]) /\ events'[i].finished =>
          \A j \in DOMAIN events' :
            i < j /\ IsBatch(events'[j]) => events'[i].generation # events'[j].generation
    BY <1>1, <2>3, <2>4, <2>5 DEF Progress
  <2>7. CASE BeginWalk /\ inbox # <<>> /\ walk' = inbox[1] /\ inbox' = Tail(inbox) /\ events' = events
    <3>1. /\ 1 \in DOMAIN inbox
          /\ \A i \in DOMAIN inbox' : i + 1 \in DOMAIN inbox /\ inbox'[i] = inbox[i + 1]
          /\ \A k \in DOMAIN events : events[k].generation # walk'.generation
      BY <2>7, BegunFirst
    <3>2. pc' = "read"
      BY <2>7 DEF BeginWalk
    <3>3. QED
      BY <2>1, <2>7, <3>1, <3>2 DEF Progress
  <2>8. CASE ~BeginWalk /\ inbox' = inbox /\ (Busy' => Busy /\ walk' = walk)
    <3>1. \A i \in DOMAIN events' : IsBatch(events'[i]) /\ events'[i].finished =>
            (Busy' /\ walk'.generation = events'[i].generation => pc' = "classify")
      <4>1. SUFFICES ASSUME NEW i \in DOMAIN events', IsBatch(events'[i]), events'[i].finished,
                            Busy', walk'.generation = events'[i].generation
                     PROVE  pc' = "classify"
        OBVIOUS
      <4>2. CASE i > Len(events)
        BY <2>3, <2>4, <4>1, <4>2 DEF Busy
      <4>3. CASE ~(i > Len(events))
        <5>1. pc = "classify"
          BY <2>3, <2>5, <2>8, <4>1, <4>3
        <5>2. pc' \notin {"read", "final"} 
          BY <2>2, <2>8, <5>1
        <5>3. QED
          BY <4>1, <5>2 DEF Busy
      <4>4. QED
        BY <4>2, <4>3
    <3>2. ~scanning /\ ~Withheld =>
            /\ pc' \in {"read", "final"} => walk'.generation # generation
            /\ \A i \in DOMAIN events' : IsBatch(events'[i]) => events'[i].generation # generation
      BY <2>2, <2>3, <2>8 DEF Progress
    <3>3. QED
      BY <2>1, <2>2, <2>6, <2>8, <3>1, <3>2 DEF Progress
  <2>9. Continuing => \/ BeginWalk /\ inbox # <<>> /\ walk' = inbox[1] /\ inbox' = Tail(inbox) /\ events' = events
                      \/ ~BeginWalk /\ inbox' = inbox /\ (Busy' => Busy /\ walk' = walk)
    <3>1. BeginWalk => ~Busy /\ Busy'
      BY DEF BeginWalk, Busy
    <3> HIDE DEF Busy
    <3>2. QED
      BY <3>1 DEF Continuing
  <2>10. QED
    BY <2>1, <2>7, <2>8, <2>9
<1>6. QED
  BY <1>2, <1>3, <1>4, <1>5, StepKinds

\* What an event may say of a walk that is not over is of that walk.
LEMMA HeadIsFirst ==
  ASSUME Typed, Order, Agreement, 1 \in DOMAIN events,
         NEW j \in DOMAIN events, j # 1, events[j].type = "classified"
  PROVE  /\ events[1].generation <= events[j].generation
         /\ events[1].type = "walkFinished" => events[1].generation # events[j].generation
         /\ Current(events[1]) => Current(events[j]) /\ events[j].path = path
<1>1. 1 < j
  BY Facts DEF Typed, DataTyped
<1>2. events[1].generation \in Nat /\ events[j].generation \in Nat /\ generation \in Nat
  BY Facts
<1>3. /\ events[1].generation <= events[j].generation /\ events[j].generation <= generation
      /\ events[1].type = "walkFinished" => events[1].generation < events[j].generation
  BY <1>1 DEF Order, InOrder
<1>4. Current(events[1]) => Current(events[j])
  BY <1>2, <1>3 DEF Current
<1>5. Current(events[j]) => events[j].path = path
  BY DEF Agreement
<1>6. QED
  BY <1>2, <1>3, <1>4, <1>5

\* Loads that were accepted stay on their way to the tracker, when an event is delivered.
LEMMA RecordingDelivered ==
  ASSUME Typed, HeldForEditor, Order, Agreement, Progress, Recording, Delivering
  PROVE  Recording'
<1> USE DEF Current, IsBatch
<1>1. /\ 1 \in DOMAIN events /\ Head(events) = events[1] /\ events[1] \in Event
      /\ \A i \in DOMAIN events' : /\ i + 1 \in DOMAIN events /\ events'[i] = events[i + 1]
                                   /\ i \in Nat /\ 1 < i + 1
      /\ \A i \in DOMAIN events : i = 1 \/ (i - 1 \in DOMAIN events' /\ events'[i - 1] = events[i])
      /\ UNCHANGED <<path, generation, inbox, pc, walk, suspended, stopping>>
  <2>1. UNCHANGED <<suspended, stopping>>
    BY DEF Delivering
  <2>2. QED
    BY <2>1, DeliveredFirst
<1>2. /\ \A i \in DOMAIN events : i \in Nat /\ events[i].generation \in Nat
      /\ generation \in Nat /\ walk.generation \in Nat
  BY Facts
<1>3. \A i \in DOMAIN events' :
        /\ IsBatch(events'[i]) /\ events'[i].finished /\ ~events'[i].diff /\ ~events'[i].error
        /\ Current(events'[i]) /\ ~Withheld'
        => \/ Classifying(generation)'
           \/ \E j \in DOMAIN events' : i < j /\ Classified(j)' /\ Current(events[j])'
  <2>1. SUFFICES ASSUME NEW i \in DOMAIN events', IsBatch(events'[i]), events'[i].finished,
                        ~events'[i].diff, ~events'[i].error, Current(events'[i]), ~Withheld',
                        ~Classifying(generation)'
                 PROVE  \E j \in DOMAIN events' : /\ i < j /\ events'[j].type = "classified"
                                                  /\ Current(events[j])'
    BY DEF Classified
  <2>2. ~Withheld /\ ~Classifying(generation)
    BY <1>1, <2>1 DEF Withheld, Classifying
  <2>3. PICK j \in DOMAIN events : i + 1 < j /\ Classified(j) /\ Current(events[j])
    <3>1. /\ i + 1 \in DOMAIN events /\ IsBatch(events[i + 1]) /\ events[i + 1].finished
          /\ ~events[i + 1].diff /\ ~events[i + 1].error /\ Current(events[i + 1])
      BY <1>1, <2>1
    <3>2. QED
      BY <2>2, <3>1 DEF Recording
  <2>4. j # 1 /\ i < j - 1
    BY <1>1, <1>2, <2>3
  <2>5. j - 1 \in DOMAIN events' /\ events'[j - 1] = events[j]
    BY <1>1, <2>4
  <2>6. QED
    BY <1>1, <2>3, <2>4, <2>5 DEF Classified
<1>4. ASSUME UNCHANGED <<accepted, lastAccepted>>,
             \/ candidate' = candidate /\ events[1].type # "classified"
             \/ candidate' = candidate
                /\ ~(events[1].generation \in accepted /\ events[1].path \in LocalPaths)
             \/ candidate' = lastAccepted
      PROVE  Recording'
  <2>1. \/ candidate' = lastAccepted
        \/ pc = "classify" /\ walk.generation \in accepted /\ walk.path \in LocalPaths
        \/ \E i \in DOMAIN events' :
             /\ events'[i].type = "classified"
             /\ events'[i].generation \in accepted /\ events'[i].path \in LocalPaths
    <3>1. SUFFICES ASSUME candidate' # lastAccepted,
                          ~(pc = "classify" /\ walk.generation \in accepted /\ walk.path \in LocalPaths)
                   PROVE  \E i \in DOMAIN events' :
                            /\ events'[i].type = "classified"
                            /\ events'[i].generation \in accepted /\ events'[i].path \in LocalPaths
      OBVIOUS
    <3>2. PICK i \in DOMAIN events : /\ events[i].type = "classified"
                                     /\ events[i].generation \in accepted /\ events[i].path \in LocalPaths
      BY <1>4, <3>1 DEF Recording, Classified
    <3>3. i # 1
      BY <1>4, <3>1, <3>2
    <3>4. QED
      BY <1>1, <3>2, <3>3
  <2>2. \A i \in DOMAIN events' :
          Classified(i)' /\ events'[i].generation \in accepted /\ events'[i].path \in LocalPaths =>
            lastAccepted = events'[i].path
    BY <1>1 DEF Recording, Classified
  <2>3. QED
    BY <1>1, <1>3, <1>4, <2>1, <2>2 DEF Recording, Classified
<1>5. CASE Delivered("batch") /\ OnBatch(Head(events))
  <2> DEFINE b == events[1]
  <2>1. OnBatch(b) /\ IsBatch(b) /\ candidate' = candidate
    BY <1>1, <1>5 DEF Delivered, OnBatch
  <2>2. CASE UNCHANGED <<accepted, lastAccepted>>
    BY <1>4, <2>1, <2>2
  <2>3. CASE b.finished /\ ~b.diff /\ ~b.error /\ b.generation = generation /\ ~Withheld
    <3>1. /\ accepted' = accepted \cup {generation}
          /\ lastAccepted' = IF path \in LocalPaths THEN path ELSE lastAccepted
      BY <2>1, <2>3 DEF OnBatch
    <3>2. \A j \in DOMAIN events : events[j].type = "classified" =>
            events[j].generation = generation /\ events[j].path = path
      BY <1>1, <2>1, <2>3, HeadIsFirst
    <3>3. pc = "classify" => walk.generation = generation /\ walk.path = path
      <4>1. pc = "classify" => walk.generation >= generation /\ walk.generation <= generation
        BY <1>1, <1>2, <2>3 DEF Order, UpTo, Busy
      <4>2. pc = "classify" => walk.generation = generation
        BY <1>2, <4>1
      <4>3. QED
        BY <4>2 DEF Agreement, Busy
    <3>4. \A g \in accepted' :
            /\ g <= generation
            /\ \A i \in DOMAIN inbox : g < inbox[i].generation
            /\ pc \in {"read", "final"} => g # walk.generation
      <4>1. \A i \in DOMAIN inbox : generation < inbox[i].generation
        BY <1>1, <2>3 DEF Order
      <4>2. pc \in {"read", "final"} => generation # walk.generation
        BY <1>1, <2>1, <2>3 DEF Progress, Busy
      <4>3. \A g \in accepted' : g \in accepted \/ g = generation
        BY <3>1
      <4>4. QED
        BY <1>2, <4>1, <4>2, <4>3 DEF Recording
    <3>5. /\ pc = "classify" /\ walk.path \in LocalPaths => lastAccepted' = walk.path
          /\ \A i \in DOMAIN events' : events'[i].type = "classified" /\ events'[i].path \in LocalPaths =>
               lastAccepted' = events'[i].path
      BY <1>1, <3>1, <3>2, <3>3
    <3>6. \/ candidate' = lastAccepted'
          \/ pc = "classify" /\ walk.generation \in accepted' /\ walk.path \in LocalPaths
          \/ \E i \in DOMAIN events' :
               /\ events'[i].type = "classified"
               /\ events'[i].generation \in accepted' /\ events'[i].path \in LocalPaths
      <4>1. CASE path \in LocalPaths
        <5>1. \/ Classifying(generation)
              \/ \E j \in DOMAIN events : Classified(j) /\ Current(events[j])
          BY <1>1, <2>1, <2>3 DEF Recording
        <5>2. CASE Classifying(generation)
          BY <3>1, <3>3, <4>1, <5>2 DEF Classifying
        <5>3. ASSUME NEW j \in DOMAIN events, events[j].type = "classified"
              PROVE  \E i \in DOMAIN events' :
                       /\ events'[i].type = "classified"
                       /\ events'[i].generation \in accepted' /\ events'[i].path \in LocalPaths
          <6>1. j # 1
            BY <2>1, <5>3
          <6>2. QED
            BY <1>1, <3>1, <3>2, <4>1, <5>3, <6>1
        <5>4. QED
          BY <5>1, <5>2, <5>3 DEF Classified
      <4>2. CASE path \notin LocalPaths
        <5>1. candidate = lastAccepted
          BY <3>2, <3>3, <4>2 DEF Recording, Classified
        <5>2. QED
          BY <2>1, <3>1, <4>2, <5>1
      <4>3. QED
        BY <4>1, <4>2
    <3>7. QED
      BY <1>1, <1>3, <3>4, <3>5, <3>6 DEF Recording, Classified
  <2>4. QED
    BY <2>1, <2>2, <2>3 DEF OnBatch
<1>6. CASE Delivered("classified") /\ OnClassified(Head(events))
  <2>1. /\ events[1].type = "classified" /\ UNCHANGED <<accepted, lastAccepted>>
        /\ candidate' = IF events[1].generation \in accepted /\ events[1].path \in LocalPaths
                        THEN events[1].path ELSE candidate
    BY <1>1, <1>6 DEF Delivered, OnClassified
  <2>2. events[1].generation \in accepted /\ events[1].path \in LocalPaths =>
          lastAccepted = events[1].path
    BY <1>1, <2>1 DEF Recording, Classified
  <2>3. QED
    BY <1>4, <2>1, <2>2
<1>7. CASE Delivered("walkFinished") /\ OnWalkFinished(Head(events))
  <2> DEFINE g == events[1].generation
  <2>1. /\ events[1].type = "walkFinished" /\ accepted' = accepted \ {g}
        /\ UNCHANGED <<candidate, lastAccepted>>
    BY <1>1, <1>7 DEF Delivered, OnWalkFinished
  <2>2. \A j \in DOMAIN events : events[j].type = "classified" => events[j].generation # g
    BY <1>1, <2>1, HeadIsFirst
  <2>3. pc = "classify" => walk.generation # g
    BY <1>1, <1>2, <2>1 DEF Order, UpTo, Busy
  <2> HIDE DEF g
  <2>4. \/ candidate' = lastAccepted'
        \/ pc = "classify" /\ walk.generation \in accepted' /\ walk.path \in LocalPaths
        \/ \E i \in DOMAIN events' :
             /\ events'[i].type = "classified"
             /\ events'[i].generation \in accepted' /\ events'[i].path \in LocalPaths
    <3>1. SUFFICES ASSUME candidate' # lastAccepted',
                          ~(pc = "classify" /\ walk.generation \in accepted' /\ walk.path \in LocalPaths)
                   PROVE  \E i \in DOMAIN events' :
                            /\ events'[i].type = "classified"
                            /\ events'[i].generation \in accepted' /\ events'[i].path \in LocalPaths
      OBVIOUS
    <3>2. PICK i \in DOMAIN events : /\ events[i].type = "classified"
                                     /\ events[i].generation \in accepted /\ events[i].path \in LocalPaths
      BY <2>1, <2>3, <3>1 DEF Recording, Classified
    <3>3. i # 1
      BY <2>1, <3>2
    <3>4. QED
      BY <1>1, <2>1, <2>2, <3>2, <3>3
  <2>5. /\ \A h \in accepted' :
            /\ h <= generation
            /\ \A i \in DOMAIN inbox : h < inbox[i].generation
            /\ pc \in {"read", "final"} => h # walk.generation
        /\ pc = "classify" /\ walk.generation \in accepted' /\ walk.path \in LocalPaths =>
             lastAccepted' = walk.path
    BY <2>1 DEF Recording
  <2>6. \A i \in DOMAIN events' :
          Classified(i)' /\ events'[i].generation \in accepted' /\ events'[i].path \in LocalPaths =>
            lastAccepted' = events'[i].path
    BY <1>1, <2>1 DEF Recording, Classified
  <2>7. QED
    BY <1>1, <1>3, <2>4, <2>5, <2>6 DEF Recording, Classified
<1>8. CASE Delivered("threadFinished") /\ OnThreadFinished
  BY <1>1, <1>4, <1>8 DEF Delivered, OnThreadFinished
<1>9. QED
  BY <1>5, <1>6, <1>7, <1>8 DEF Delivering, Deliver

\* Loads that were accepted stay on their way to the tracker, whatever else happens.
LEMMA RecordingKept ==
  ASSUME Typed, HeldForEditor, Order, Agreement, Cancelling, Progress, Recording, [Next]_vars
  PROVE  Recording'
<1> USE DEF Current, IsBatch
<1>1. CASE Delivering
  BY <1>1, RecordingDelivered
<1>2. ASSUME NEW w \in Walk, Starting(w) PROVE Recording'
  <2>1. UNCHANGED <<events, pc, walk, accepted, lastAccepted, candidate>> /\ generation' = generation + 1
    BY <1>2 DEF Starting
  <2>2. \A g \in accepted : g \in Nat /\ g <= generation /\ generation \in Nat
    BY Facts, Numbers DEF Recording, Typed, DataTyped
  <2>3. \A g \in accepted : g <= generation' /\ \A i \in DOMAIN inbox' : g < inbox'[i].generation
    <3>1. \A i \in DOMAIN inbox' :
            (i \in DOMAIN inbox /\ inbox'[i] = inbox[i]) \/ inbox'[i].generation = generation'
      BY <1>2, StartsAnew
    <3>2. QED
      BY <2>1, <2>2, <3>1 DEF Recording
  <2>4. \A i \in DOMAIN events' : ~Current(events[i])'
    BY <1>2, <2>1, StartsAnew
  <2>5. QED
    BY <2>1, <2>3, <2>4 DEF Recording, Classified
<1>3. CASE Aside
  <2>1. UNCHANGED <<generation, inbox, events, pc, walk, accepted, lastAccepted, candidate>>
    BY <1>3 DEF Aside
  <2>2. Withheld => Withheld'
    BY <1>3 DEF Aside, Withheld
  <2>3. QED
    BY <2>1, <2>2 DEF Recording, Classified, Classifying
<1>4. CASE Worker /\ UNCHANGED <<guiVars, fs>>
  <2>1. /\ Reporting /\ Continuing
        /\ UNCHANGED <<generation, accepted, lastAccepted, candidate, suspended, stopping>>
    BY <1>4, WorkerReports DEF guiVars, modelVars, userVars, histVars
  <2>2. Withheld' = Withheld
    BY <2>1 DEF Withheld
  <2>3. /\ \A i \in DOMAIN events : i \in DOMAIN events' /\ events'[i] = events[i]
        /\ \A i \in DOMAIN events' :
             \/ i \in DOMAIN events /\ events'[i] = events[i]
             \/ /\ i > Len(events)
                /\ events'[i].type = "classified" =>
                     pc = "classify" /\ events'[i].generation = walk.generation /\ events'[i].path = walk.path
                /\ IsBatch(events'[i]) =>
                     /\ events'[i].generation = walk.generation /\ events'[i].diff = walk.diff
                     /\ events'[i].finished => PostFinal /\ pc = "final"
                     /\ events'[i].finished /\ ~events'[i].error => ~failed
    BY <2>1 DEF Reporting, Said, LastOfAll
  <2>4. \A i \in DOMAIN events' :
          Classified(i)' /\ events'[i].generation \in accepted /\ events'[i].path \in LocalPaths =>
            lastAccepted = events'[i].path
    BY <2>3 DEF Recording, Classified
  <2>5. CASE BeginWalk /\ inbox # <<>> /\ walk' = inbox[1] /\ inbox' = Tail(inbox) /\ events' = events
    <3>1. /\ 1 \in DOMAIN inbox
          /\ \A i \in DOMAIN inbox' : /\ i + 1 \in DOMAIN inbox /\ inbox'[i] = inbox[i + 1]
          /\ \A g \in accepted : g \in Nat /\ inbox[1].generation \in Nat
      BY <2>5, BegunFirst, Facts, Numbers DEF Typed, DataTyped
    <3>2. pc = "idle" /\ pc' = "read"
      BY <2>5 DEF BeginWalk
    <3>3. \A g \in accepted : g < inbox[1].generation /\ \A i \in DOMAIN inbox' : g < inbox'[i].generation
      BY <3>1 DEF Recording
    <3>4. \A g \in accepted : g # walk'.generation
      BY <2>5, <3>1, <3>3
    <3>5. QED
      BY <2>1, <2>2, <2>5, <3>2, <3>3, <3>4 DEF Recording, Classified, Classifying
  <2>6. CASE ~BeginWalk /\ inbox' = inbox /\ (Busy' => Busy /\ walk' = walk)
    <3>1. \/ pc' \in {"read", "final"} /\ pc \in {"read", "final"} /\ walk' = walk
          \/ pc' = "classify" /\ pc = "final" /\ walk' = walk
          \/ pc' \in {"idle", "exited"} /\ pc # "classify"
          \/ pc' = "idle" /\ Classify
      <4>1. CASE (\E n \in Names : ReadEntry(n)) \/ PostBatch \/ ExitThread
        BY <4>1 DEF ReadEntry, PostBatch, ExitThread
      <4>2. CASE \E err \in BOOLEAN : CompleteWalk(err)
        BY <4>2 DEF CompleteWalk
      <4>3. CASE AbandonWalk \/ Classify
        BY <4>3 DEF AbandonWalk, Classify, EndWalk
      <4>4. CASE PostFinal
        BY <4>4 DEF PostFinal, EndWalk
      <4>5. QED
        BY <1>4, <2>6, <4>1, <4>2, <4>3, <4>4 DEF Worker
    <3>2. \A g \in accepted :
            /\ g <= generation /\ \A i \in DOMAIN inbox : g < inbox[i].generation
            /\ pc' \in {"read", "final"} => g # walk'.generation
      BY <3>1 DEF Recording
    <3>3. pc' = "classify" => walk'.generation \notin accepted
      BY <3>1 DEF Recording
    <3>4. CASE ~Classify
      <4>1. \/ candidate = lastAccepted
            \/ \E i \in DOMAIN events' :
                 Classified(i)' /\ events'[i].generation \in accepted /\ events'[i].path \in LocalPaths
        <5>1. pc # "classify"
          BY <3>1, <3>4
        <5>2. QED
          BY <2>3, <5>1 DEF Recording, Classified
      <4>2. \A i \in DOMAIN events' :
              /\ IsBatch(events'[i]) /\ events'[i].finished /\ ~events'[i].diff /\ ~events'[i].error
              /\ Current(events'[i]) /\ ~Withheld
              => \/ pc' = "classify" /\ walk'.generation = generation
                 \/ \E j \in DOMAIN events' : i < j /\ Classified(j)' /\ Current(events'[j])
        <5>1. SUFFICES ASSUME NEW i \in DOMAIN events', IsBatch(events'[i]), events'[i].finished,
                              ~events'[i].diff, ~events'[i].error, Current(events'[i]), ~Withheld
                       PROVE  \/ pc' = "classify" /\ walk'.generation = generation
                              \/ \E j \in DOMAIN events' : i < j /\ Classified(j)' /\ Current(events'[j])
          OBVIOUS
        <5>2. CASE i \in DOMAIN events /\ events'[i] = events[i]
          <6>1. PICK j \in DOMAIN events : i < j /\ Classified(j) /\ Current(events[j])
            BY <3>1, <3>4, <5>1, <5>2 DEF Recording, Classifying
          <6>2. QED
            BY <2>3, <6>1 DEF Classified
        <5>3. CASE ~(i \in DOMAIN events /\ events'[i] = events[i])
          <6>1. /\ PostFinal /\ pc = "final" /\ ~failed /\ ~walk.diff /\ walk.generation = generation
            BY <2>3, <5>1, <5>3
          <6>2. succeeded
            BY <5>1, <6>1 DEF Cancelling
          <6>3. pc' = "classify" /\ walk' = walk
            BY <6>1, <6>2 DEF PostFinal
          <6>4. QED
            BY <6>1, <6>3
        <5>4. QED
          BY <5>2, <5>3
      <4>3. QED
        BY <2>1, <2>2, <2>4, <2>6, <3>2, <3>3, <4>1, <4>2 DEF Recording, Classifying, Classified
    <3>5. CASE Classify
      <4> DEFINE r == [type |-> "classified", generation |-> walk.generation, path |-> walk.path]
                 k == Len(events) + 1
      <4>1. EndWalk(<<r>>) /\ pc = "classify" /\ Busy
        BY <3>5 DEF Classify, Reported, Busy
      <4>2. r \in Event /\ r.type = "classified" /\ r.generation = walk.generation /\ r.path = walk.path
        BY <4>1, PostedEvents
      <4>3. k \in DOMAIN events' /\ events'[k] = r /\ \A i \in DOMAIN events : i < k
        <5> HIDE DEF r
        <5>1. events' = Append(Append(events, r), EndReport) /\ EndReport \in Event
          BY <4>1, <4>2, EndedWalk
        <5>2. events \in Seq(Event)
          BY DEF Typed, DataTyped
        <5>3. /\ Append(events, r) \in Seq(Event) /\ k \in DOMAIN Append(events, r)
              /\ Append(events, r)[k] = r /\ \A i \in DOMAIN events : i < k
          BY <4>2, <5>2, AppendedLast
        <5>4. QED
          BY <5>1, <5>3, AppendedLast
      <4> HIDE DEF r, k
      <4>4. pc' = "idle"
        BY <4>1 DEF EndWalk
      <4>5. \/ candidate = lastAccepted
            \/ \E i \in DOMAIN events' :
                 /\ events'[i].type = "classified"
                 /\ events'[i].generation \in accepted /\ events'[i].path \in LocalPaths
        BY <2>3, <4>2, <4>3 DEF Recording, Classified
      <4>6. \A i \in DOMAIN events' :
              /\ IsBatch(events'[i]) /\ events'[i].finished /\ ~events'[i].diff /\ ~events'[i].error
              /\ Current(events'[i]) /\ ~Withheld
              => \E j \in DOMAIN events' :
                   i < j /\ events'[j].type = "classified" /\ events'[j].generation = generation
        <5>1. SUFFICES ASSUME NEW i \in DOMAIN events', IsBatch(events'[i]), events'[i].finished,
                              ~events'[i].diff, ~events'[i].error, Current(events'[i]), ~Withheld
                       PROVE  \E j \in DOMAIN events' : 
                                i < j /\ events'[j].type = "classified" /\ events'[j].generation = generation
          OBVIOUS
        <5>2. i \in DOMAIN events /\ events'[i] = events[i]
          BY <2>3, <4>1, <5>1
        <5>3. CASE walk.generation = generation
          BY <4>2, <4>3, <5>2, <5>3
        <5>4. CASE walk.generation # generation
          <6>1. PICK j \in DOMAIN events :
                  i < j /\ events[j].type = "classified" /\ events[j].generation = generation
            BY <2>1, <5>1, <5>2, <5>4 DEF Recording, Classifying, Classified
          <6>2. QED
            BY <2>3, <6>1
        <5>5. QED
          BY <5>3, <5>4
      <4>7. QED
        BY <2>1, <2>2, <2>4, <2>6, <3>2, <3>3, <4>4, <4>5, <4>6 DEF Recording, Classified
    <3>6. QED
      BY <3>4, <3>5
  <2>7. Continuing => \/ BeginWalk /\ inbox # <<>> /\ walk' = inbox[1] /\ inbox' = Tail(inbox) /\ events' = events
                      \/ ~BeginWalk /\ inbox' = inbox /\ (Busy' => Busy /\ walk' = walk)
    <3>1. BeginWalk => ~Busy /\ Busy'
      BY DEF BeginWalk, Busy
    <3> HIDE DEF Busy
    <3>2. QED
      BY <3>1 DEF Continuing
  <2>8. QED
    BY <2>1, <2>5, <2>6, <2>7
<1>5. QED
  BY <1>1, <1>2, <1>3, <1>4, StepKinds

\* The end of the thread stays the last event.
LEMMA EndingKept ==
  ASSUME Typed, HeldForEditor, Ending, [Next]_vars
  PROVE  Ending'
<1>1. ASSUME NEW w \in Walk, Starting(w) PROVE Ending'
  BY <1>1 DEF Starting, Ending
<1>2. CASE Aside
  BY <1>2 DEF Aside, Ending
<1>3. CASE Delivering
  <2>1. /\ \A i \in DOMAIN events' : i + 1 \in DOMAIN events /\ events'[i] = events[i + 1] /\ i \in Nat
        /\ Len(events') = Len(events) - 1 /\ Len(events) \in Nat /\ pc' = pc
        /\ 1 \in DOMAIN events /\ Head(events) = events[1]
    BY <1>3, DeliveredFirst
  <2>2. \A i \in DOMAIN events' :
          events'[i].type = "threadFinished" => pc' = "exited" /\ i = Len(events')
    BY <2>1 DEF Ending
  <2>3. ~closed
    BY <2>1 DEF Ending, Delivering
  <2>4. CASE closed' = closed
    BY <2>2, <2>3, <2>4 DEF Ending
  <2>5. CASE closed' # closed
    <3>1. events[1].type = "threadFinished"
      BY <1>3, <2>1, <2>5 DEF Delivering, Deliver, Delivered, OnBatch, OnClassified, OnWalkFinished
    <3>2. pc = "exited" /\ Len(events) = 1
      BY <2>1, <3>1 DEF Ending
    <3>3. events' \in Seq(Event) /\ Len(events') = 0
      <4>1. events \in Seq(Event) /\ events # <<>> /\ events' = Tail(events)
        BY <1>3 DEF Typed, DataTyped, Delivering
      <4>2. QED
        BY <2>1, <3>2, <4>1, TakenHead
    <3>4. events' = <<>>
      BY <3>3
    <3>5. QED
      BY <2>1, <2>2, <3>2, <3>4 DEF Ending
  <2>6. QED
    BY <2>4, <2>5
<1>4. CASE Worker /\ UNCHANGED <<guiVars, fs>>
  <2>1. Reporting /\ closed' = closed
    BY <1>4, WorkerReports DEF guiVars, histVars
  <2>2. pc # "exited"
    BY <1>4 DEF Worker, BeginWalk, ReadEntry, PostBatch, AbandonWalk, CompleteWalk, PostFinal,
                Classify, ExitThread
  <2>3. ~closed /\ \A i \in DOMAIN events : events[i].type # "threadFinished"
    BY <2>2 DEF Ending
  <2>4. \A i \in DOMAIN events' :
          events'[i].type = "threadFinished" => pc' = "exited" /\ i = Len(events')
    BY <2>1, <2>3 DEF Reporting, Said, LastOfAll
  <2>5. QED
    BY <2>1, <2>3, <2>4 DEF Ending
<1>5. QED
  BY <1>1, <1>2, <1>3, <1>4, StepKinds

-----------------------------------------------------------------------------
(* What the listing shows is what is there.                                *)

\* What is coming comes, while the worker goes on with the walk.
LEMMA ComingKept ==
  ASSUME Typed, Agreement, Cancelling, Progress, Worker, ~BeginWalk, ~Withheld,
         UNCHANGED <<generation, path, fs>>, NEW n \in Names, Exists(n), Coming(n)
  PROVE  Coming(n)'
<1> USE DEF Current, IsBatch
<1>1. Reporting /\ events \in Seq(Event) /\ batch \in Seq(Entry)
  BY WorkerReports DEF Typed, DataTyped
<1>2. ASSUME NEW i \in DOMAIN events, IsBatch(events[i]), Current(events[i]),
             n \in NamesOf(events[i].entries) \/ events[i].error
      PROVE  Coming(n)'
  <2>1. i \in DOMAIN events' /\ events'[i] = events[i]
    BY <1>1 DEF Reporting
  <2>2. QED
    BY <1>2, <2>1 DEF Coming
<1>3. ASSUME Busy, Current(walk), n \in Unread PROVE Coming(n)'
  <2>1. walk.path = path
    BY <1>3 DEF Agreement
  <2>2. ASSUME NEW b \in Event, IsBatch(b), Current(b), n \in NamesOf(b.entries) \/ b.error,
               NEW i \in DOMAIN events', events'[i] = b
        PROVE  Coming(n)'
    BY <2>2 DEF Coming
  <2>3. ASSUME Busy', walk' = walk, n \in Unread' PROVE Coming(n)'
    BY <1>3, <2>3 DEF Coming
  <2>4. ASSUME NEW m \in Names, ReadEntry(m) PROVE Coming(n)'
    <3>1. Busy' /\ walk' = walk /\ todo' = todo \ {m}
          /\ batch' = IF fs[walk.path][m] = 0 THEN batch
                      ELSE Append(batch, [name |-> m, version |-> fs[walk.path][m]])
      BY <2>4 DEF ReadEntry, Busy
    <3>2. CASE fs[walk.path][m] = 0
      <4>1. n # m
        BY <2>1, <3>2 DEF Exists
      <4>2. n \in todo' \cup NamesOf(batch')
        BY <1>3, <3>1, <3>2, <4>1 DEF Unread
      <4>3. QED
        BY <2>3, <3>1, <4>2 DEF Unread
    <3>3. CASE fs[walk.path][m] # 0
      <4> DEFINE e == [name |-> m, version |-> fs[walk.path][m]]
      <4>1. walk.path \in Paths
        BY <1>3, Facts
      <4>2. fs[walk.path][m] \in Versions
        BY <3>3, <4>1 DEF Typed, DataTyped
      <4>3. e \in Entry /\ e.name = m
        BY <4>2 DEF Entry
      <4>4. batch' = Append(batch, e)
        BY <3>1, <3>3
      <4> HIDE DEF e
      <4>5. NamesOf(batch') = NamesOf(batch) \cup {m}
        BY <1>1, <4>3, <4>4, NamesOfLists
      <4>6. n \in todo' \cup NamesOf(batch')
        BY <1>3, <3>1, <4>5 DEF Unread
      <4>7. QED
        BY <2>3, <3>1, <4>6 DEF Unread
    <3>4. QED
      BY <3>2, <3>3
  <2>5. CASE \E err \in BOOLEAN : CompleteWalk(err)
    <3>1. Busy' /\ UNCHANGED <<walk, todo, batch>>
      BY <2>5 DEF CompleteWalk, Busy
    <3>2. QED
      BY <1>3, <2>3, <3>1 DEF Unread
  <2>6. CASE PostBatch
    <3> DEFINE b == Batch(FALSE, FALSE)
    <3>1. Busy' /\ UNCHANGED <<walk, todo>> /\ events' = Append(events, b)
      BY <2>6 DEF PostBatch, Post, Busy
    <3>2. b \in Event
      BY <1>3, PostedEvents
    <3>3. IsBatch(b) /\ Current(b) /\ b.entries = batch
      BY <1>3 DEF Batch
    <3> HIDE DEF b
    <3>4. Len(events) + 1 \in DOMAIN events' /\ events'[Len(events) + 1] = b
      BY <1>1, <3>1, <3>2, AppendedLast
    <3>5. CASE n \in todo
      BY <2>3, <3>1, <3>5 DEF Unread
    <3>6. CASE n \in NamesOf(batch)
      BY <2>2, <3>2, <3>3, <3>4, <3>6
    <3>7. QED
      BY <1>3, <3>5, <3>6 DEF Unread
  <2>7. CASE PostFinal
    <3> DEFINE b == Batch(TRUE, failed)
    <3>1. EndWalk(<<b>>) \/ events' = Append(events, b)
      BY <2>7 DEF PostFinal, Post
    <3>2. failed \in BOOLEAN /\ pc = "final"
      BY <2>7 DEF PostFinal, Typed, FlagsTyped
    <3>3. b \in Event
      BY <1>3, <3>2, PostedEvents
    <3>4. IsBatch(b) /\ Current(b) /\ b.entries = batch /\ b.error = failed
      BY <1>3 DEF Batch
    <3> HIDE DEF b
    <3>5. Append(events, b) \in Seq(Event) /\ Len(events) + 1 \in DOMAIN Append(events, b)
          /\ Append(events, b)[Len(events) + 1] = b
      BY <1>1, <3>3, AppendedLast
    <3>6. Len(events) + 1 \in DOMAIN events' /\ events'[Len(events) + 1] = b
      <4>1. CASE EndWalk(<<b>>)
        <5>1. events' = Append(Append(events, b), EndReport) /\ EndReport \in Event
          BY <1>3, <3>3, <4>1, EndedWalk
        <5>2. QED
          BY <3>5, <5>1, AppendedLast
      <4>2. CASE events' = Append(events, b)
        BY <3>5, <4>2
      <4>3. QED
        BY <3>1, <4>1, <4>2
    <3>7. n \in NamesOf(batch) \/ failed
      BY <1>3, <3>2 DEF Progress, Unread
    <3>8. QED
      BY <2>2, <3>3, <3>4, <3>6, <3>7
  <2>8. ~AbandonWalk
    BY <1>3 DEF AbandonWalk, Cancelled, Cancelling
  <2>9. ~Classify
    BY <1>3, NamesOfLists DEF Classify, Progress, Unread
  <2>10. ~ExitThread
    BY <1>3 DEF ExitThread, Busy
  <2>11. QED
    BY <2>4, <2>5, <2>6, <2>7, <2>8, <2>9, <2>10 DEF Worker
<1>4. QED
  BY <1>2, <1>3 DEF Coming

\* A change of the directory on screen is noticed, or its entry is among the missed.
LEMMA ChangeIsNoticed ==
  ASSUME Typed, NEW p \in Paths, NEW n \in Names, NEW v \in {0} \cup Versions, Change(p, n, v), Quiet'
  PROVE  /\ path' = path /\ path \in Paths
         /\ \A m \in Names : m \notin missed' => m \notin missed /\ fs'[path][m] = fs[path][m]
<1>1. path' = path /\ generation' = generation /\ inbox' = inbox /\ fs' = [fs EXCEPT ![p][n] = v]
  BY DEF Change, modelVars
<1>2. path # NoPath /\ ~notified' /\ \A i \in DOMAIN inbox : inbox[i].generation # generation
  BY <1>1 DEF Quiet, Current
<1>3. PICK told \in BOOLEAN :
        /\ notified' = (notified \/ told)
        /\ missed' = IF /\ ~told /\ p = path
                        /\ \A i \in DOMAIN inbox : inbox[i].generation # generation
                     THEN missed \cup {n} ELSE missed
  BY DEF Change
<1>4. ~told
  BY <1>2, <1>3
<1>5. missed' = IF p = path THEN missed \cup {n} ELSE missed
  BY <1>2, <1>3, <1>4
<1>6. path \in Paths /\ fs \in [Paths -> [Names -> {0} \cup Versions]]
  BY <1>2 DEF Typed, DataTyped
<1>7. \A m \in Names : p # path \/ m # n => fs'[path][m] = fs[path][m]
  BY <1>1, <1>6
<1>8. QED
  BY <1>1, <1>5, <1>6, <1>7

\* A delivered batch brings the listing nearer to what is there.
LEMMA FreshnessDelivered ==
  ASSUME Typed, HeldForEditor, Order, Agreement, NamedOnce, NewToRows, Listing, Progress, Freshness,
         Delivering
  PROVE  Freshness'
<1> USE DEF Current, IsBatch
<1>1. /\ 1 \in DOMAIN events /\ Head(events) = events[1] /\ events[1] \in Event
      /\ \A i \in DOMAIN events' : /\ i + 1 \in DOMAIN events /\ events'[i] = events[i + 1]
                                   /\ i \in Nat /\ 1 < i + 1
      /\ \A i \in DOMAIN events : i = 1 \/ (i - 1 \in DOMAIN events' /\ events'[i - 1] = events[i])
      /\ UNCHANGED <<path, generation, inbox, pc, walk, todo, batch>>
  BY DeliveredFirst
<1>2. UNCHANGED <<suspended, stopping, watched, notified, opening, missed, fs>>
  BY DEF Delivering
<1>3. Busy' = Busy /\ Unread' = Unread /\ Withheld' = Withheld
  BY <1>1, <1>2 DEF Busy, Unread, Withheld
<1>4. path' # NoPath /\ ~opening' => watched' = path'
  BY <1>1, <1>2 DEF Freshness
<1>5. ASSUME UNCHANGED <<rows, rowOf, seen, error, scanning>>,
             ~IsBatch(events[1]) \/ ~Current(events[1]) \/ Withheld
      PROVE  Freshness'
  <2>1. Quiet' = Quiet
    BY <1>1, <1>2, <1>3, <1>5 DEF Quiet
  <2>2. ASSUME NEW n \in Names, Coming(n), Quiet PROVE Coming(n)'
    <3>1. ~(IsBatch(events[1]) /\ Current(events[1]))
      BY <1>5, <2>2 DEF Quiet
    <3>2. QED
      BY <1>1, <1>3, <2>2, <3>1 DEF Coming
  <2>3. /\ Quiet /\ DiffIsFresh => DiffIsFresh'
        /\ Quiet /\ LoadIsFresh => LoadIsFresh'
    <3>1. /\ \A n \in Names : Exists(n)' <=> Exists(n)
          /\ \A e : Fresh(e)' <=> Fresh(e)
      BY <1>1, <1>2 DEF Exists, Fresh
    <3>2. Quiet /\ DiffIsFresh => DiffIsFresh'
      BY <1>1, <1>2, <1>5, <2>2, <3>1 DEF DiffIsFresh, Fresh
    <3>3. Quiet /\ LoadIsFresh => LoadIsFresh'
      BY <1>1, <1>2, <1>5, <2>2, <3>1 DEF LoadIsFresh, Fresh
    <3>4. QED
      BY <3>2, <3>3
  <2>4. (\E i \in DOMAIN inbox' : Current(inbox[i])') => seen' = {}
    BY <1>1, <1>5 DEF Freshness
  <2>5. Quiet' /\ Busy' /\ Current(walk)' =>
          /\ \A i \in DOMAIN batch' : Fresh(batch[i])'
          /\ pc' # "classify" => IF walk'.diff THEN DiffIsFresh' ELSE LoadIsFresh'
    BY <1>1, <1>2, <1>3, <2>1, <2>3 DEF Freshness, Fresh
  <2>6. ASSUME NEW i \in DOMAIN events', Quiet', IsBatch(events'[i]), Current(events'[i])
        PROVE  /\ \A k \in DOMAIN events'[i].entries : Fresh(events[i].entries[k])'
               /\ IF events'[i].diff THEN DiffIsFresh' ELSE LoadIsFresh'
    <3>1. i + 1 \in DOMAIN events /\ events'[i] = events[i + 1]
      BY <1>1
    <3>2. /\ \A k \in DOMAIN events'[i].entries : Fresh(events'[i].entries[k])
          /\ IF events'[i].diff THEN DiffIsFresh ELSE LoadIsFresh
      BY <2>1, <2>6, <3>1 DEF Freshness
    <3>3. \A k \in DOMAIN events'[i].entries :
            Fresh(events'[i].entries[k]) => Fresh(events[i].entries[k])'
      BY <1>1, <1>2 DEF Fresh
    <3>4. QED
      BY <2>1, <2>3, <2>6, <3>2, <3>3
  <2>7. Quiet' /\ ~scanning' => LoadIsFresh'
    BY <1>5, <2>1, <2>3 DEF Freshness
  <2>8. \A i \in DOMAIN events' : Quiet' /\ IsBatch(events[i])' /\ Current(events[i])' =>
          /\ \A k \in DOMAIN events'[i].entries : Fresh(events[i].entries[k])'
          /\ IF events'[i].diff THEN DiffIsFresh' ELSE LoadIsFresh'
    BY <1>1, <2>6
  <2>9. QED
    BY <1>4, <2>4, <2>5, <2>7, <2>8 DEF Freshness
<1>6. ASSUME Delivered("batch"), OnBatch(Head(events)), ~(Superseded(events[1]) \/ Withheld)
      PROVE  Freshness'
  <2> DEFINE b == events[1]
             N == NamesOf(b.entries)
  <2>1. /\ b \in BatchEvent /\ IsBatch(b) /\ ~Withheld /\ Current(b) /\ editing = "no"
        /\ Matches(rows, rowOf) /\ Matches(rows', rowOf') /\ DOMAIN rowOf' \subseteq Names
        /\ \A r \in DOMAIN rows' : From(rows'[r], b.entries)
        /\ IF b.diff /\ b.finished /\ ~b.error
           THEN seen' = {} /\ DOMAIN rowOf' = seen \cup N
           ELSE /\ seen' = IF b.diff THEN seen \cup N ELSE seen
                /\ DOMAIN rowOf' = DOMAIN rowOf \cup N
        /\ error' = (error \/ b.error)
        /\ scanning' = (scanning /\ ~b.finished)
    BY <1>6, DeliveredBatch
  <2>2. \A i \in DOMAIN inbox : ~Current(inbox[i])
    BY <1>1, <2>1, Facts DEF Order
  <2>3. (\E i \in DOMAIN inbox' : Current(inbox[i])') => seen' = {}
    BY <1>1, <2>2
  <2>4. CASE ~Quiet'
    BY <1>4, <2>3, <2>4 DEF Freshness
  <2>5. CASE Quiet'
    <3>1. Quiet /\ ~b.error
      BY <1>1, <1>2, <1>3, <2>1, <2>2, <2>5 DEF Quiet
    <3>2. /\ \A k \in DOMAIN b.entries : Fresh(b.entries[k])
          /\ IF b.diff THEN DiffIsFresh ELSE LoadIsFresh
      BY <1>1, <2>1, <3>1 DEF Freshness
    <3>3. ASSUME NEW n \in Names, Coming(n) PROVE n \in N \/ Coming(n)'
      <4>1. CASE Busy /\ Current(walk) /\ n \in Unread
        BY <1>1, <1>3, <4>1 DEF Coming
      <4>2. ASSUME NEW i \in DOMAIN events, IsBatch(events[i]), Current(events[i]),
                   n \in NamesOf(events[i].entries) \/ events[i].error
            PROVE  n \in N \/ Coming(n)'
        BY <1>1, <3>1, <4>2 DEF Coming
      <4>3. QED
        BY <3>3, <4>1, <4>2 DEF Coming
    <3>4. ASSUME NEW r \in DOMAIN rows'
          PROVE  \/ rows'[r].name \in N /\ Fresh(rows'[r])
                 \/ /\ rows'[r].name \notin N /\ rows'[r].name \in DOMAIN rowOf
                    /\ rows'[r] = rows[rowOf[rows'[r].name]]
      BY <2>1, <3>2 DEF From
    <3>5. /\ \A n \in Names : Exists(n)' <=> Exists(n)
          /\ \A e : (e.name \in Names \ missed' => e.version = fs'[path'][e.name]) <=> Fresh(e)
      BY <1>1, <1>2 DEF Exists, Fresh
    <3>6. \A n \in DOMAIN rowOf : rowOf[n] \in DOMAIN rows
      BY <2>1 DEF Matches
    <3>7. \A n \in DOMAIN rowOf' : rowOf'[n] \in DOMAIN rows' /\ rows'[rowOf'[n]].name = n
      BY <2>1 DEF Matches
    <3>8. ASSUME ~b.diff PROVE LoadIsFresh'
      <4>1. LoadIsFresh
        BY <3>2, <3>8
      <4>2. \A r \in DOMAIN rows' : Fresh(rows'[r])
        BY <3>4, <3>6, <4>1 DEF LoadIsFresh
      <4>3. \A n \in Names : Exists(n) => n \in DOMAIN rowOf' \/ Coming(n)'
        BY <2>1, <3>3, <3>8, <4>1 DEF LoadIsFresh
      <4>4. QED
        BY <3>5, <4>2, <4>3 DEF LoadIsFresh, Fresh
    <3>9. ASSUME b.diff, ~b.finished PROVE DiffIsFresh'
      <4>1. DiffIsFresh /\ seen' = seen \cup N /\ DOMAIN rowOf' = DOMAIN rowOf \cup N
        BY <2>1, <3>2, <3>9
      <4>2. ASSUME NEW n \in seen' PROVE Fresh(rows'[rowOf'[n]])
        <5>1. n \in DOMAIN rowOf'
          BY <4>1, <4>2 DEF Listing
        <5>2. CASE n \in N
          BY <3>4, <3>7, <5>1, <5>2
        <5>3. CASE n \notin N
          <6>1. n \in seen /\ rows'[rowOf'[n]] = rows[rowOf[n]]
            BY <3>4, <3>7, <4>1, <4>2, <5>1, <5>3
          <6>2. QED
            BY <4>1, <6>1 DEF DiffIsFresh
        <5>4. QED
          BY <5>2, <5>3
      <4>3. \A n \in Names : Exists(n) => n \in seen' \/ Coming(n)'
        BY <3>3, <4>1 DEF DiffIsFresh
      <4>4. QED
        BY <3>5, <4>2, <4>3 DEF DiffIsFresh, Fresh
    <3>10. ASSUME b.diff, b.finished PROVE LoadIsFresh'
      <4>1. DiffIsFresh /\ DOMAIN rowOf' = seen \cup N
        BY <2>1, <3>1, <3>2, <3>10
      <4>2. ASSUME NEW r \in DOMAIN rows' PROVE Fresh(rows'[r])
        <5>1. rows'[r].name \in seen \cup N
          BY <2>1, <4>1, <4>2 DEF Matches
        <5>2. CASE rows'[r].name \in N
          BY <3>4, <5>2
        <5>3. CASE rows'[r].name \notin N
          BY <3>4, <4>1, <5>1, <5>3 DEF DiffIsFresh
        <5>4. QED
          BY <5>2, <5>3
      <4>3. \A n \in Names : Exists(n) => n \in DOMAIN rowOf' \/ Coming(n)'
        BY <3>3, <4>1 DEF DiffIsFresh
      <4>4. QED
        BY <3>5, <4>2, <4>3 DEF LoadIsFresh, Fresh
    <3>11. ASSUME Busy, Current(walk)
           PROVE  /\ \A i \in DOMAIN batch : Fresh(batch[i])
                  /\ pc # "classify" => IF walk.diff THEN DiffIsFresh' ELSE LoadIsFresh'
      <4>1. \A i \in DOMAIN batch : Fresh(batch[i])
        BY <3>1, <3>11 DEF Freshness
      <4>2. b.diff = walk.diff
        BY <1>1, <2>1, <3>11 DEF Agreement
      <4>3. pc # "classify" => ~b.finished
        BY <1>1, <2>1, <3>11 DEF Progress
      <4>4. QED
        BY <3>8, <3>9, <4>1, <4>2, <4>3
    <3>12. ASSUME NEW i \in DOMAIN events', IsBatch(events'[i]), Current(events'[i])
           PROVE  /\ \A k \in DOMAIN events'[i].entries : Fresh(events'[i].entries[k])
                  /\ IF events'[i].diff THEN DiffIsFresh' ELSE LoadIsFresh'
      <4>1. i + 1 \in DOMAIN events /\ events'[i] = events[i + 1] /\ 1 < i + 1
        BY <1>1
      <4>2. \A k \in DOMAIN events'[i].entries : Fresh(events'[i].entries[k])
        BY <3>1, <3>12, <4>1 DEF Freshness
      <4>3. events'[i].diff = b.diff
        BY <1>1, <2>1, <3>12, <4>1 DEF Agreement
      <4>4. ~b.finished
        BY <1>1, <2>1, <3>12, <4>1 DEF Progress
      <4>5. QED
        BY <3>8, <3>9, <4>2, <4>3, <4>4
    <3>13. ~scanning' => LoadIsFresh'
      <4>1. ~scanning => Withheld
        BY <1>1, <2>1 DEF Progress
      <4>2. ~scanning' => b.finished
        BY <2>1, <4>1
      <4>3. QED
        BY <3>8, <3>10, <4>2
    <3>14. \A i \in DOMAIN batch : Fresh(batch[i]) => Fresh(batch[i])'
      BY <1>1, <1>2 DEF Fresh
    <3>15. \A i \in DOMAIN events' : \A k \in DOMAIN events'[i].entries :
             Fresh(events'[i].entries[k]) => Fresh(events[i].entries[k])'
      BY <3>5 DEF Fresh
    <3>16. Busy' /\ Current(walk)' =>
             /\ \A i \in DOMAIN batch' : Fresh(batch[i])'
             /\ pc' # "classify" => IF walk'.diff THEN DiffIsFresh' ELSE LoadIsFresh'
      BY <1>1, <1>3, <3>11, <3>14
    <3>17. \A i \in DOMAIN events' : IsBatch(events[i])' /\ Current(events[i])' =>
             /\ \A k \in DOMAIN events'[i].entries : Fresh(events[i].entries[k])'
             /\ IF events'[i].diff THEN DiffIsFresh' ELSE LoadIsFresh'
      BY <1>1, <3>12, <3>15
    <3> HIDE DEF b, N
    <3>18. QED
      BY <1>4, <2>3, <3>13, <3>16, <3>17 DEF Freshness
  <2>6. QED
    BY <2>4, <2>5
<1>7. CASE Delivered("batch") /\ OnBatch(Head(events)) /\ (Superseded(events[1]) \/ Withheld)
  BY <1>1, <1>5, <1>7 DEF OnBatch, Superseded
<1>8. CASE ~(Delivered("batch") /\ OnBatch(Head(events)))
  <2>1. UNCHANGED <<rows, rowOf, seen, error, scanning>> /\ ~IsBatch(events[1])
    BY <1>1, <1>8 DEF Delivering, Deliver, Delivered, OnClassified, OnWalkFinished, OnThreadFinished, modelVars
  <2>2. QED
    BY <1>5, <2>1
<1>9. QED
  BY <1>6, <1>7, <1>8

\* The worker reports what is there.
LEMMA FreshnessReported ==
  ASSUME Typed, HeldForEditor, Order, Agreement, NewToRows, Listing, Cancelling, Progress, Freshness,
         Worker, UNCHANGED <<guiVars, fs>>
  PROVE  Freshness'
<1> USE DEF Current, IsBatch
<1>1. UNCHANGED <<path, generation, rows, rowOf, seen, error, scanning, suspended, stopping,
                  watched, notified, opening, missed, fs>>
  BY DEF guiVars, modelVars, userVars, histVars
<1>2. Reporting /\ Continuing /\ batch \in Seq(Entry)
  BY WorkerReports DEF Typed, DataTyped
<1>3. Withheld' = Withheld
  BY <1>1 DEF Withheld
<1>4. /\ \A n \in Names : Exists(n)' <=> Exists(n)
      /\ \A e : Fresh(e)' <=> Fresh(e)
      /\ \A e : (e.name \in Names \ missed' => e.version = fs'[path'][e.name]) <=> Fresh(e)
  BY <1>1 DEF Exists, Fresh
<1>5. path' # NoPath /\ ~opening' => watched' = path'
  BY <1>1 DEF Freshness
<1>6. ASSUME \A n \in Names : Exists(n) /\ Coming(n) => Coming(n)'
      PROVE  (DiffIsFresh => DiffIsFresh') /\ (LoadIsFresh => LoadIsFresh')
  <2>1. ASSUME DiffIsFresh PROVE DiffIsFresh'
    <3>1. \A n \in seen : Fresh(rows[rowOf[n]])
      BY <2>1 DEF DiffIsFresh
    <3>2. \A n \in Names : Exists(n) => n \in seen \/ Coming(n)'
      BY <1>6, <2>1 DEF DiffIsFresh
    <3>3. QED
      BY <1>1, <1>4, <3>1, <3>2 DEF DiffIsFresh, Fresh
  <2>2. ASSUME LoadIsFresh PROVE LoadIsFresh'
    <3>1. \A r \in DOMAIN rows : Fresh(rows[r])
      BY <2>2 DEF LoadIsFresh
    <3>2. \A n \in Names : Exists(n) => n \in DOMAIN rowOf \/ Coming(n)'
      BY <1>6, <2>2 DEF LoadIsFresh
    <3>3. QED
      BY <1>1, <1>4, <3>1, <3>2 DEF LoadIsFresh, Fresh
  <2>3. QED
    BY <2>1, <2>2
<1>7. ASSUME ~BeginWalk PROVE Freshness'
  <2>1. /\ inbox' = inbox
        /\ (walk' = walk /\ (Busy' <=> Busy)) \/ (walk' = NoWalk /\ ~Busy')
    BY <1>2, <1>7 DEF Continuing
  <2>2. Quiet' <=> Quiet
    BY <1>1, <1>3, <2>1 DEF Quiet
  <2>3. ASSUME NEW n \in Names, Quiet, Exists(n), Coming(n) PROVE Coming(n)'
    <3>1. ~Withheld /\ UNCHANGED <<generation, path, fs>>
      BY <1>1, <2>3 DEF Quiet
    <3>2. QED
      BY <1>7, <2>3, <3>1, ComingKept
  <2>4. Quiet => (DiffIsFresh => DiffIsFresh') /\ (LoadIsFresh => LoadIsFresh')
    BY <1>6, <2>3
  <2>5. (\E i \in DOMAIN inbox' : Current(inbox[i])') => seen' = {}
    BY <1>1, <2>1 DEF Freshness
  <2>6. ASSUME Quiet, Busy, Busy', Current(walk), walk' = walk
        PROVE  /\ \A i \in DOMAIN batch' : Fresh(batch'[i])
               /\ pc' # "classify" => pc # "classify"
    <3>1. \A i \in DOMAIN batch : Fresh(batch[i])
      BY <2>6 DEF Freshness
    <3>2. ASSUME NEW m \in Names, ReadEntry(m) PROVE \A i \in DOMAIN batch' : Fresh(batch'[i])
      <4> DEFINE e == [name |-> m, version |-> fs[walk.path][m]]
      <4>1. walk.path = path /\ walk.path \in Paths
        BY <2>6, Facts DEF Agreement
      <4>2. Fresh(e)
        BY <4>1 DEF Fresh
      <4>3. batch' = batch \/ (batch' = Append(batch, e) /\ fs[walk.path][m] # 0)
        BY <3>2 DEF ReadEntry
      <4>4. CASE fs[walk.path][m] = 0
        BY <3>1, <4>3, <4>4
      <4>5. CASE fs[walk.path][m] # 0
        <5>1. fs[walk.path][m] \in Versions
          BY <4>1, <4>5 DEF Typed, DataTyped
        <5>2. e \in Entry
          BY <5>1 DEF Entry
        <5> HIDE DEF e
        <5>3. \A i \in DOMAIN Append(batch, e) :
                \/ i \in DOMAIN batch /\ Append(batch, e)[i] = batch[i]
                \/ i = Len(batch) + 1 /\ Append(batch, e)[i] = e
          BY <1>2, <5>2, AppendedLast
        <5>4. QED
          BY <3>1, <4>2, <4>3, <5>3
      <4>6. QED
        BY <4>4, <4>5
    <3>3. /\ (\E m \in Names : ReadEntry(m)) => pc = "read"
          /\ (\E err \in BOOLEAN : CompleteWalk(err)) => batch' = batch /\ pc = "read"
          /\ PostBatch => batch' = <<>> /\ pc = "read"
          /\ PostFinal => batch' = <<>> /\ pc = "final"
      BY DEF ReadEntry, CompleteWalk, PostBatch, PostFinal, EndWalk
    <3>4. ~AbandonWalk /\ ~Classify /\ ~ExitThread
      BY <2>6 DEF AbandonWalk, Classify, ExitThread, EndWalk, Busy
    <3>5. CASE \E m \in Names : ReadEntry(m)
      BY <3>2, <3>3, <3>5
    <3>6. CASE (\E err \in BOOLEAN : CompleteWalk(err)) \/ PostBatch \/ PostFinal
      BY <3>1, <3>3, <3>6
    <3>7. QED
      BY <1>7, <3>4, <3>5, <3>6 DEF Worker
  <2>7. Quiet' /\ Busy' /\ Current(walk)' =>
          /\ \A i \in DOMAIN batch' : Fresh(batch[i])'
          /\ pc' # "classify" => IF walk'.diff THEN DiffIsFresh' ELSE LoadIsFresh'
    <3>1. SUFFICES ASSUME Quiet', Busy', walk'.generation = generation'
                   PROVE  /\ \A i \in DOMAIN batch' : Fresh(batch[i])'
                          /\ pc' # "classify" => IF walk'.diff THEN DiffIsFresh' ELSE LoadIsFresh'
      OBVIOUS
    <3>2. walk' = walk /\ Busy /\ Quiet /\ Current(walk)
      BY <1>1, <2>1, <2>2, <3>1
    <3>3. \A i \in DOMAIN batch' : Fresh(batch[i])'
      BY <1>4, <2>6, <3>1, <3>2 DEF Fresh
    <3>4. pc' # "classify" => IF walk.diff THEN DiffIsFresh ELSE LoadIsFresh
      BY <2>6, <3>1, <3>2 DEF Freshness
    <3>5. QED
      BY <2>4, <3>2, <3>3, <3>4
  <2>8. ASSUME NEW i \in DOMAIN events', Quiet', events'[i].type = "batch",
               events'[i].generation = generation'
        PROVE  /\ \A k \in DOMAIN events'[i].entries : Fresh(events'[i].entries[k])
               /\ IF events'[i].diff THEN DiffIsFresh' ELSE LoadIsFresh'
    <3>1. CASE i \in DOMAIN events /\ events'[i] = events[i]
      <4>1. /\ \A k \in DOMAIN events[i].entries : Fresh(events[i].entries[k])
            /\ IF events[i].diff THEN DiffIsFresh ELSE LoadIsFresh
        BY <1>1, <2>2, <2>8, <3>1 DEF Freshness
      <4>2. QED
        BY <2>2, <2>4, <2>8, <3>1, <4>1
    <3>2. CASE Said(i, events'[i])
      <4>1. /\ Busy /\ walk.generation = generation /\ events'[i].entries = batch
            /\ events'[i].diff = walk.diff /\ pc # "classify"
        BY <1>1, <2>8, <3>2 DEF Said
      <4>2. /\ \A k \in DOMAIN batch : Fresh(batch[k])
            /\ IF walk.diff THEN DiffIsFresh ELSE LoadIsFresh
        BY <2>2, <2>8, <4>1 DEF Freshness
      <4>3. QED
        BY <2>2, <2>4, <2>8, <4>1, <4>2
    <3>3. CASE LastOfAll(i, events'[i])
      BY <2>8, <3>3 DEF LastOfAll
    <3>4. QED
      BY <1>2, <3>1, <3>2, <3>3 DEF Reporting
  <2>9. \A i \in DOMAIN events' : Quiet' /\ IsBatch(events[i])' /\ Current(events[i])' =>
          /\ \A k \in DOMAIN events'[i].entries : Fresh(events[i].entries[k])'
          /\ IF events'[i].diff THEN DiffIsFresh' ELSE LoadIsFresh'
    BY <1>4, <2>8 DEF Fresh
  <2>10. Quiet' /\ ~scanning' => LoadIsFresh'
    BY <1>1, <2>2, <2>4 DEF Freshness
  <2>11. QED
    BY <1>5, <2>5, <2>7, <2>9, <2>10 DEF Freshness
<1>8. ASSUME BeginWalk PROVE Freshness'
  <2>1. /\ inbox # <<>> /\ walk' = inbox[1] /\ inbox' = Tail(inbox) /\ events' = events
        /\ ~Busy /\ Busy' /\ todo' = Names /\ batch' = <<>>
    BY <1>8, <1>2 DEF BeginWalk, Busy, Continuing
  <2>2. /\ 1 \in DOMAIN inbox
        /\ \A i \in DOMAIN inbox' : i + 1 \in DOMAIN inbox /\ inbox'[i] = inbox[i + 1]
        /\ \A k \in DOMAIN events : events[k].generation # walk'.generation
    BY <1>8, <2>1, BegunFirst
  <2>3. (\E i \in DOMAIN inbox' : Current(inbox[i])') => seen' = {}
    BY <1>1, <2>2 DEF Freshness
  <2>4. \A i \in DOMAIN batch' : Fresh(batch[i])'
    BY <2>1
  <2>5. CASE Current(inbox[1])
    <3>1. \A i \in DOMAIN events' : ~Current(events[i])'
      BY <1>1, <2>1, <2>2, <2>5
    <3>2. \A n \in Names : Coming(n)'
      <4>1. walk'.generation = generation'
        BY <1>1, <2>1, <2>5
      <4>2. \A n \in Names : n \in Unread'
        BY <2>1 DEF Unread
      <4>3. QED
        BY <2>1, <4>1, <4>2 DEF Coming
    <3>3. Quiet' => scanning'
      BY <1>1, <1>3, <2>2, <2>5 DEF Progress, Quiet
    <3>4. DiffIsFresh'
      <4>1. seen' = {}
        BY <1>1, <2>2, <2>5 DEF Freshness
      <4>2. QED
        BY <3>2, <4>1 DEF DiffIsFresh
    <3>5. ASSUME Quiet', ~walk'.diff PROVE LoadIsFresh'
      <4>1. DOMAIN rowOf = {}
        BY <2>1, <2>2, <2>5, <3>5 DEF NewToRows
      <4>2. editing # "create"
        BY <1>3, <3>5 DEF Quiet, Withheld, HeldForEditor
      <4>3. Matches(rows, rowOf)
        BY <4>2, NoPlaceholder
      <4>4. DOMAIN rows = {}
        BY <4>1, <4>3 DEF Matches
      <4>5. DOMAIN rows' = {}
        BY <1>1, <4>4
      <4>6. QED
        BY <3>2, <4>5 DEF LoadIsFresh
    <3>6. QED
      BY <1>5, <2>3, <2>4, <3>1, <3>3, <3>4, <3>5 DEF Freshness
  <2>6. CASE ~Current(inbox[1])
    <3>1. Quiet' => Quiet
      <4>1. ASSUME \A i \in DOMAIN inbox' : ~Current(inbox[i])'
            PROVE  \A i \in DOMAIN inbox : ~Current(inbox[i])
        <5>1. inbox \in Seq(Walk)
          BY DEF Typed, DataTyped
        <5>2. \A i \in DOMAIN inbox : i = 1 \/ (i - 1 \in DOMAIN inbox' /\ inbox'[i - 1] = inbox[i])
          BY <2>1, <5>1, TakenHead
        <5>3. QED
          BY <1>1, <2>6, <4>1, <5>2
      <4>2. QED
        BY <1>1, <1>3, <4>1 DEF Quiet
    <3>2. ~Current(walk)'
      BY <1>1, <2>1, <2>6
    <3>3. \A n \in Names : Coming(n) => Coming(n)'
      BY <1>1, <2>1 DEF Coming
    <3>4. (DiffIsFresh => DiffIsFresh') /\ (LoadIsFresh => LoadIsFresh')
      BY <1>6, <3>3
    <3>5. \A i \in DOMAIN events' : Quiet' /\ IsBatch(events[i])' /\ Current(events[i])' =>
            /\ \A k \in DOMAIN events'[i].entries : Fresh(events[i].entries[k])'
            /\ IF events'[i].diff THEN DiffIsFresh' ELSE LoadIsFresh'
      <4>1. ASSUME NEW i \in DOMAIN events, Quiet, events[i].type = "batch", events[i].generation = generation
            PROVE  /\ \A k \in DOMAIN events[i].entries : Fresh(events[i].entries[k])
                   /\ IF events[i].diff THEN DiffIsFresh' ELSE LoadIsFresh'
        BY <3>4, <4>1 DEF Freshness
      <4>2. QED
        BY <1>1, <1>4, <2>1, <3>1, <4>1 DEF Fresh
    <3>6. Quiet' /\ ~scanning' => LoadIsFresh'
      BY <1>1, <3>1, <3>4 DEF Freshness
    <3>7. QED
      BY <1>5, <2>3, <2>4, <3>2, <3>5, <3>6 DEF Freshness
  <2>7. QED
    BY <2>5, <2>6
<1>9. QED
  BY <1>7, <1>8

\* What the listing shows is what is there, as far as it has been told.
LEMMA FreshnessKept ==
  ASSUME Typed, HeldForEditor, Order, Agreement, NamedOnce, NewToRows, Listing, Cancelling, Progress,
         Freshness, [Next]_vars
  PROVE  Freshness'
<1> USE DEF Current, IsBatch
<1>1. ASSUME NEW w \in Walk, Starting(w) PROVE Freshness'
  <2>1. /\ seen' = {}
        /\ opening' \/ UNCHANGED <<path, watched, opening>>
        /\ inbox' = Append(inbox, w)
    BY <1>1 DEF Starting
  <2>2. path' # NoPath /\ ~opening' => watched' = path'
    BY <2>1 DEF Freshness
  <2>3. ~Quiet'
    <3>1. inbox \in Seq(Walk) /\ w.generation = generation'
      BY <1>1, StartsAnew DEF Typed, DataTyped
    <3>2. Len(inbox) + 1 \in DOMAIN inbox' /\ inbox'[Len(inbox) + 1] = w
      BY <2>1, <3>1, AppendedLast
    <3>3. QED
      BY <3>1, <3>2 DEF Quiet
  <2>4. QED
    BY <2>1, <2>2, <2>3 DEF Freshness
<1>2. CASE Worker /\ UNCHANGED <<guiVars, fs>>
  BY <1>2, FreshnessReported
<1>3. CASE Delivering
  BY <1>3, FreshnessDelivered
<1>4. ASSUME Aside PROVE Freshness'
  <2>1. /\ UNCHANGED <<path, generation, inbox, events, pc, walk, todo, batch, rowOf, seen>>
        /\ watched' = path \/ UNCHANGED <<watched, opening>>
        /\ Quiet' => Quiet /\ UNCHANGED <<rows, scanning>>
        /\ \/ UNCHANGED <<fs, missed>>
           \/ \E p \in Paths, n \in Names, v \in {0} \cup Versions : Change(p, n, v)
    BY <1>4 DEF Aside
  <2>2. path' # NoPath /\ ~opening' => watched' = path'
    BY <2>1 DEF Freshness
  <2>3. (\E i \in DOMAIN inbox' : Current(inbox[i])') => seen' = {}
    BY <2>1 DEF Freshness
  <2>4. CASE ~Quiet'
    BY <2>2, <2>3, <2>4 DEF Freshness
  <2>5. CASE Quiet'
    <3>1. \A m \in Names : m \notin missed' => m \notin missed /\ fs'[path][m] = fs[path][m]
      BY <2>1, <2>5, ChangeIsNoticed
    <3>2. Quiet /\ UNCHANGED <<rows, scanning>>
      BY <2>1, <2>5
    <3>3. \A n \in Names : (Exists(n)' => Exists(n)) /\ (Coming(n)' <=> Coming(n))
      <4>1. \A n \in Names : Exists(n)' => Exists(n)
        BY <2>1, <3>1 DEF Exists
      <4>2. \A n \in Names : Coming(n)' <=> Coming(n)
        BY <2>1 DEF Coming, Unread, Busy
      <4>3. QED
        BY <4>1, <4>2
    <3>4. \A e : Fresh(e) => (e.name \in Names \ missed' => e.version = fs'[path'][e.name])
      BY <2>1, <3>1 DEF Fresh
    <3>5. DiffIsFresh => DiffIsFresh'
      BY <2>1, <3>2, <3>3, <3>4 DEF DiffIsFresh, Fresh
    <3>6. LoadIsFresh => LoadIsFresh'
      BY <2>1, <3>2, <3>3, <3>4 DEF LoadIsFresh, Fresh
    <3>7. Busy' /\ Current(walk)' =>
            /\ \A i \in DOMAIN batch' : Fresh(batch[i])'
            /\ pc' # "classify" => IF walk'.diff THEN DiffIsFresh' ELSE LoadIsFresh'
      <4>1. Busy /\ Current(walk) =>
              /\ \A i \in DOMAIN batch : Fresh(batch[i])
              /\ pc # "classify" => IF walk.diff THEN DiffIsFresh' ELSE LoadIsFresh'
        BY <3>2, <3>5, <3>6 DEF Freshness
      <4>2. QED
        BY <2>1, <3>4, <4>1 DEF Fresh, Busy
    <3>8. \A i \in DOMAIN events' : IsBatch(events[i])' /\ Current(events[i])' =>
            /\ \A k \in DOMAIN events'[i].entries : Fresh(events[i].entries[k])'
            /\ IF events'[i].diff THEN DiffIsFresh' ELSE LoadIsFresh'
      <4>1. ASSUME NEW i \in DOMAIN events, events[i].type = "batch", events[i].generation = generation
            PROVE  /\ \A k \in DOMAIN events[i].entries : Fresh(events[i].entries[k])
                   /\ IF events[i].diff THEN DiffIsFresh' ELSE LoadIsFresh'
        BY <3>2, <3>5, <3>6, <4>1 DEF Freshness
      <4>2. QED
        BY <2>1, <3>4, <4>1 DEF Fresh
    <3>9. ~scanning' => LoadIsFresh'
      BY <3>2, <3>6 DEF Freshness
    <3>10. QED
      BY <2>2, <2>3, <3>7, <3>8, <3>9 DEF Freshness
  <2>6. QED
    BY <2>4, <2>5
<1>5. QED
  BY <1>1, <1>2, <1>3, <1>4, StepKinds

-----------------------------------------------------------------------------
(* The theorems.                                                           *)

\* Nothing listed, nothing under way.
LEMMA InitGood == Init => IInv
<1> SUFFICES ASSUME Init PROVE IInv
  OBVIOUS
<1>1. Typed
  <2>1. FlagsTyped
    BY DEF Init, FlagsTyped
  <2>2. generation \in 0 .. MaxWalks /\ inbox \in Seq(Walk) /\ events \in Seq(Event) /\ batch \in Seq(Entry)
    BY Numbers DEF Init
  <2>3. DataTyped
    BY <2>2 DEF Init, DataTyped, Busy
  <2>4. QED
    BY <2>1, <2>3 DEF Typed
<1>2. HeldForEditor
  BY DEF Init, HeldForEditor
<1>3. Order
  BY DEF Init, Order, InOrder, NoWalk, Busy
<1>4. Agreement
  BY DEF Init, Agreement, Busy
<1>5. NamedOnce
  BY DEF Init, NamedOnce, Once, NamesOf
<1>6. NewToRows
  BY DEF Init, NewToRows, Busy
<1>7. Listing
  BY DEF Init, Listing
<1>8. Cancelling
  BY DEF Init, Cancelling
<1>9. Progress
  BY DEF Init, Progress
<1>10. Recording
  BY DEF Init, Recording, Classified
<1>11. Ending
  BY DEF Init, Ending
<1>12. Freshness
  BY DEF Init, Freshness, Quiet
<1>13. QED
  BY <1>1, <1>2, <1>3, <1>4, <1>5, <1>6, <1>7, <1>8, <1>9, <1>10, <1>11, <1>12 DEF IInv

\* Every step keeps the invariant.
LEMMA NextKeeps ==
  ASSUME IInv, [Next]_vars
  PROVE  IInv'
<1>1. /\ Typed /\ HeldForEditor /\ Order /\ Agreement /\ NamedOnce /\ NewToRows /\ Listing
      /\ Cancelling /\ Progress /\ Recording /\ Ending /\ Freshness
  BY DEF IInv
<1>2. Typed'
  BY <1>1, FlagsKept, DataKept DEF Typed
<1>3. HeldForEditor' /\ Order' /\ Agreement' /\ NamedOnce'
  BY <1>1, HeldKept, OrderKept, AgreementKept, NamedOnceKept
<1>4. NewToRows' /\ Listing' /\ Cancelling' /\ Progress'
  BY <1>1, NewToRowsKept, ListingKept, CancellingKept, ProgressKept
<1>5. Recording' /\ Ending' /\ Freshness'
  BY <1>1, RecordingKept, EndingKept, FreshnessKept
<1>6. QED
  BY <1>2, <1>3, <1>4, <1>5 DEF IInv

\* The invariant of the listing, its worker and the events between them.
THEOREM IInvHolds == Spec => []IInv
<1>1. IInv /\ [Next]_vars => IInv'
  BY NextKeeps
<1>2. QED
  BY <1>1, InitGood, PTL DEF Spec

\* There is at most one row an entry, and the placeholder.
LEMMA RowsAreFew ==
  ASSUME Listing
  PROVE  Len(rows) <= Cardinality(Names) + 1
<1> DEFINE Filled == IF rows # <<>> /\ rows[Len(rows)] = PlaceholderRow THEN Len(rows) - 1 ELSE Len(rows)
           Numbered == [r \in 1 .. Filled |-> rows[r].name]
<1>1. rows \in Seq(Row) /\ Len(rows) \in Nat
  BY DEF Listing
<1>2. Filled \in Nat /\ Len(rows) <= Filled + 1 /\ \A r \in 1 .. Filled : r \in DOMAIN rows
  BY <1>1
<1>3. \A r \in 1 .. Filled : rows[r] # PlaceholderRow
  <2> SUFFICES ASSUME NEW r \in 1 .. Filled, rows[r] = PlaceholderRow PROVE FALSE
    OBVIOUS
  <2>1. r = Len(rows)
    BY <1>2 DEF Listing
  <2>2. QED
    BY <1>1, <2>1
<1> HIDE DEF Filled
<1>4. \A r \in 1 .. Filled : rows[r].name \in Names /\ rowOf[rows[r].name] = r
  BY <1>2, <1>3 DEF Listing
<1>5. Numbered \in Injection(1 .. Filled, Names)
  <2>1. Numbered \in [1 .. Filled -> Names] /\ \A r \in 1 .. Filled : Numbered[r] = rows[r].name
    BY <1>4
  <2> HIDE DEF Numbered
  <2>2. \A r, s \in 1 .. Filled : Numbered[r] = Numbered[s] => r = s
    BY <1>4, <2>1
  <2>3. QED
    BY <2>1, <2>2 DEF Injection, IsInjective
<1>6. IsFiniteSet(Names) /\ Cardinality(Names) \in Nat
  BY ConstantsAssumption, FS_CardinalityType
<1>7. Cardinality(1 .. Filled) <= Cardinality(Names)
  <2> HIDE DEF Numbered
  <2> QED BY <1>5, <1>6, FS_Injection
<1>8. Cardinality(1 .. Filled) = Filled
  BY <1>2, FS_Interval
<1>9. QED
  BY <1>1, <1>2, <1>6, <1>7, <1>8

\* Every entry has one row, which identity_to_row_ knows, and the placeholder is the
\* last row and there only while a new name is typed, whatever mix of loads, diffs,
\* cancelled walks and edits came before (appendEntries, applyDiffEntries, finishDiff).
THEOREM RowsMatch == Spec => []RowsMatchIdentities
<1>1. IInv => RowsMatchIdentities
  <2> SUFFICES ASSUME IInv PROVE RowsMatchIdentities
    OBVIOUS
  <2>1. Typed /\ Listing
    BY DEF IInv
  <2>2. TypeOK
    <3>1. Len(rows) <= Cardinality(Names) + 1
      BY <2>1, RowsAreFew
    <3>2. rows \in Seq(Row) /\ seen \subseteq Names /\ DOMAIN rowOf \subseteq Names
      BY <2>1 DEF Listing
    <3>3. \A n \in DOMAIN rowOf : rowOf[n] \in Nat
      BY <2>1, <3>2 DEF Listing
    <3>4. {error, scanning, suspended, inFlight, stopping, notified, opening, quit, succeeded,
           failed, closed} \subseteq BOOLEAN /\ missed \subseteq Names
      BY <2>1 DEF Typed, FlagsTyped
    <3>5. walk \in Walk \cup {NoWalk}
      BY <2>1 DEF Typed, DataTyped
    <3>6. QED
      BY <2>1, <3>1, <3>2, <3>3, <3>4, <3>5 DEF Typed, DataTyped, TypeOK
  <2>3. QED
    BY <2>1, <2>2 DEF Listing, RowsMatchIdentities
<1>2. QED
  BY <1>1, IInvHolds, PTL

\* A listing at rest without an error shows every entry of the directory as it is,
\* whatever walks were overtaken, cancelled or withheld on the way, but for those with a
\* change nobody has reported since the newest walk began: nothing is still to come, and
\* what has come is as it was read, with every reported change refreshed (REQ-F-007).
THEOREM SettledIsCurrent == Spec => []SettledListingIsCurrent
<1>1. IInv => SettledListingIsCurrent
  <2> SUFFICES ASSUME IInv, AtRest PROVE Told(Range(rows)) = Told(Contents(path))
    BY DEF SettledListingIsCurrent
  <2>1. Typed /\ HeldForEditor /\ Listing /\ Progress /\ Freshness
    BY DEF IInv
  <2>2. ~Withheld /\ editing = "no" /\ ~scanning /\ path \in Paths
    BY <2>1 DEF AtRest, Withheld, HeldForEditor, Typed, DataTyped
  <2>3. Quiet
    BY <2>1, <2>2 DEF AtRest, Progress, Quiet
  <2>4. LoadIsFresh
    BY <2>1, <2>2, <2>3 DEF Freshness
  <2>5. ASSUME NEW n \in Names, Coming(n) PROVE FALSE
    <3>1. CASE Busy /\ Current(walk) /\ n \in Unread
      <4>1. pc = "classify"
        BY <2>1, <2>2, <3>1 DEF Progress, Busy
      <4>2. Unread = {}
        BY <2>1, <4>1, NamesOfLists DEF Progress, Unread
      <4>3. QED
        BY <3>1, <4>2
    <3>2. CASE \E i \in DOMAIN events : IsBatch(events[i]) /\ Current(events[i])
      BY <2>1, <2>2, <3>2 DEF Progress
    <3>3. QED
      BY <2>5, <3>1, <3>2 DEF Coming
  <2>6. Matches(rows, rowOf)
    BY <2>1, <2>2, NoPlaceholder
  <2>7. ASSUME NEW r \in DOMAIN rows, rows[r].name \notin missed
        PROVE  /\ rows[r].name \in Names /\ fs[path][rows[r].name] # 0
               /\ rows[r] = [name |-> rows[r].name, version |-> fs[path][rows[r].name]]
    <3>1. rows[r] \in Entry
      BY <2>6 DEF Matches
    <3>2. rows[r].name \in Names /\ rows[r].version # 0
      BY <3>1, ConstantsAssumption DEF Entry
    <3>3. rows[r].version = fs[path][rows[r].name]
      BY <2>4, <2>7, <3>2 DEF LoadIsFresh, Fresh
    <3>4. QED
      BY <3>1, <3>2, <3>3 DEF Entry
  <2>8. ASSUME NEW n \in Names, n \notin missed, fs[path][n] # 0
        PROVE  \E r \in DOMAIN rows : rows[r] = [name |-> n, version |-> fs[path][n]]
    <3>1. n \in DOMAIN rowOf
      BY <2>4, <2>5, <2>8 DEF LoadIsFresh, Exists
    <3>2. rowOf[n] \in DOMAIN rows /\ rows[rowOf[n]].name = n
      BY <2>6, <3>1 DEF Matches
    <3>3. QED
      BY <2>7, <2>8, <3>2
  <2>9. \A e : e \in Told(Range(rows)) <=> \E r \in DOMAIN rows : rows[r] = e /\ e.name \notin missed
    BY DEF Range, Told
  <2>10. \A e : e \in Told(Contents(path)) <=>
           \E n \in Names : /\ fs[path][n] # 0 /\ n \notin missed
                           /\ e = [name |-> n, version |-> fs[path][n]]
    BY DEF Contents, Told
  <2>11. ASSUME NEW e PROVE e \in Told(Range(rows)) <=> e \in Told(Contents(path))
    BY <2>7, <2>8, <2>9, <2>10
  <2>12. QED
    BY <2>11
<1>2. QED
  BY <1>1, IInvHolds, PTL

\* When the model reports its shutdown, the tracker knows the Local directory whose
\* listing was accepted last: every acceptance reaches it before the end of the thread,
\* in the order of acceptance (REQ-F-019).
THEOREM ClosesWithLastLocation == Spec => []ClosedWithLastLocation
<1>1. IInv => ClosedWithLastLocation
  <2> SUFFICES ASSUME IInv, closed PROVE candidate = lastAccepted
    BY DEF ClosedWithLastLocation
  <2>1. pc = "exited" /\ events = <<>>
    BY DEF IInv, Ending
  <2>2. QED
    BY <2>1 DEF IInv, Recording, Classified
<1>2. QED
  BY <1>1, IInvHolds, PTL

\* No delivery, refresh or navigation moves the rows under an editor that stays open
\* (REQ-R-003: suspendUpdates, the early returns of refresh and applyBatch).
THEOREM RowsHoldStill == Spec => RowsHoldStillUnderEditor
<1> DEFINE Still == suspended /\ suspended' => rows' = rows
<1>1. ASSUME IInv, [Next]_vars PROVE Still
  <2>1. HeldForEditor
    BY <1>1 DEF IInv
  <2>2. ASSUME NEW p \in Paths, Load(p) PROVE Still
    BY <2>2 DEF Load
  <2>3. CASE DirectoryChanged \/ TaskFinished
    BY <2>3 DEF DirectoryChanged, TaskFinished, Refresh, modelVars
  <2>4. ASSUME NEW mode, BeginEditing(mode) PROVE Still
    BY <2>1, <2>4 DEF BeginEditing, HeldForEditor
  <2>5. CASE EndEditing \/ Shutdown \/ AddWatch
    BY <2>5 DEF EndEditing, Shutdown, AddWatch, modelVars
  <2>6. CASE Deliver
    BY <2>6 DEF Deliver, OnBatch, OnClassified, OnWalkFinished, OnThreadFinished, Withheld, modelVars
  <2>7. CASE Worker
    BY <2>7 DEF Worker, BeginWalk, ReadEntry, PostBatch, AbandonWalk, CompleteWalk, PostFinal,
                Classify, ExitThread, EndWalk, WorkerStep, guiVars, modelVars
  <2>8. ASSUME NEW p, NEW n, NEW v, Change(p, n, v) PROVE Still
    BY <2>8 DEF Change, modelVars
  <2>9. CASE UNCHANGED vars
    BY <2>9 DEF vars, guiVars, modelVars
  <2>10. QED
    BY <1>1, <2>2, <2>3, <2>4, <2>5, <2>6, <2>7, <2>8, <2>9 DEF Next, User
<1>2. IInv /\ [Next]_vars => [Still]_vars
  BY <1>1
<1>3. QED
  BY <1>2, IInvHolds, PTL DEF Spec, RowsHoldStillUnderEditor
===============================================================================
