------------------------------ MODULE JumpList ------------------------------
(***************************************************************************)
(* The directories the user has been in, and where among them he is:       *)
(* JumpList of apps/files/browsing/jump_list.cpp.  Visiting moves a        *)
(* directory to the end; going back and forth leaves out, and forgets, the *)
(* directories on the way that have gone.                                  *)
(***************************************************************************)
EXTENDS Compaction, SequencesExt

CONSTANTS
  Paths, Names,     \* directories, and names of entries the cursor may be on
  NoName, NoPath,
  Capacity,         \* kCapacity
  MaxCount          \* bound on the count typed before a traversal

ASSUME JumpListAssumption ==
  /\ NoName \notin Names /\ NoPath \notin Paths
  /\ Capacity \in Nat \ {0} /\ MaxCount \in Nat

VARIABLES
  entries, index,   \* the list, and the position in it, 0 before the first visit
  here, remembered  \* history: the directory on screen, and the name the user left each with

jumps == <<entries, index, here, remembered>>

JumpListInit ==
  /\ entries = <<>> /\ index = 0
  /\ here = NoPath /\ remembered = [p \in Paths |-> NoName]

-----------------------------------------------------------------------------
(* recordVisit.                                                            *)

\* The entry that is left keeps the name under the cursor.
Leave(name) ==
  [i \in DOMAIN entries |-> IF i = index THEN [entries[i] EXCEPT !.name = name] ELSE entries[i]]

Remember(name) == IF index = 0 THEN remembered ELSE [remembered EXCEPT ![here] = name]

\* Beyond the capacity the oldest goes.
Evict(list) == IF Len(list) > Capacity THEN Tail(list) ELSE list

\* The visited directory moves to the end (mutant: what is ahead goes instead, as in
\* the history of a browser).
Branched(path, name) ==
  Evict(Append(SubSeq(Leave(name), 1, index), [path |-> path, name |-> NoName]))
Visited(path, name) ==
  Evict(Append(Without(Leave(name), {i \in DOMAIN entries : entries[i].path = path}),
               [path |-> path, name |-> NoName]))

IsCurrent(path) == index # 0 /\ entries[index].path = path

Visit(path, name) ==
  /\ here' = path
  /\ IF IsCurrent(path)
     THEN UNCHANGED <<entries, index, remembered>>
     ELSE /\ entries' = Visited(path, name)
          /\ index' = Len(Visited(path, name))
          /\ remembered' = [Remember(name) EXCEPT ![path] = NoName]

-----------------------------------------------------------------------------
(* traverse.  A direction is -1 or 1.                                      *)

Wanted(count) == IF count < 1 THEN 1 ELSE count
Ahead(direction) == {i \in DOMAIN entries : direction * (i - index) > 0}
Nearer(direction, i) == {j \in Ahead(direction) : direction * (i - j) > 0}
There(missing) == {i \in DOMAIN entries : entries[i].path \notin missing}

\* The loop looks at one entry after the other until it has counted enough that
\* are there.
Examined(direction, count, missing) ==
  {i \in Ahead(direction) :
     Cardinality(Nearer(direction, i) \cap There(missing)) < Wanted(count)}
Reached(direction, count, missing) == Examined(direction, count, missing) \cap There(missing)

\* What the loop has found missing.
Dropped(direction, count, missing) == Examined(direction, count, missing) \ There(missing)

\* The furthest of them, or where the user is.
Landing(direction, count, missing) ==
  IF Reached(direction, count, missing) = {} THEN index
  ELSE CHOOSE i \in Reached(direction, count, missing) :
         Reached(direction, count, missing) \ {i} \subseteq Nearer(direction, i)

\* The compaction: what is dropped before a position shifts it down (mutant: the
\* shift is left out).
Unshifted(i, dropped) == i
Shifted(i, dropped) == Position(i, dropped)

Traverse(direction, count, name, missing) ==
  /\ index # 0
  /\ LET landing == Landing(direction, count, missing)
         dropped == Dropped(direction, count, missing) IN
     /\ entries' = Without(Leave(name), dropped)
     /\ index' = Shifted(landing, dropped)
     /\ here' = entries[landing].path
     /\ remembered' = Remember(name)

\* Which directories have gone is looked up at every traversal: any of them may
\* have, and come back.
JumpListNext ==
  \E name \in Names \cup {NoName} :
    \/ \E path \in Paths : Visit(path, name)
    \/ \E direction \in {-1, 1} :
         \E count \in 0 .. MaxCount,
            missing \in SUBSET {entries[i].path : i \in Ahead(direction)} :
           Traverse(direction, count, name, missing)

JumpListSpec == JumpListInit /\ [][JumpListNext]_jumps

-----------------------------------------------------------------------------
(* Properties.                                                             *)

Entry == [path : Paths, name : Names \cup {NoName}]

\* REQ-F-005: never more than Capacity entries, and the position is one of them.
JumpListTypeOK ==
  /\ entries \in Seq(Entry) /\ Len(entries) <= Capacity
  /\ index \in DOMAIN entries \cup {0} /\ (index = 0 => entries = <<>>)
  /\ here \in Paths \cup {NoPath}
  /\ remembered \in [Paths -> Names \cup {NoName}]

\* REQ-F-003: no directory is in the list twice.
NoPathTwice ==
  \A i, j \in DOMAIN entries : entries[i].path = entries[j].path => i = j

\* REQ-F-001: the entry at the position is the directory on screen, also when
\* entries on either side of it have been dropped.
CurrentIsHere ==
  index # 0 => index \in DOMAIN entries /\ entries[index].path = here

\* REQ-F-038: every entry has the name under the cursor when its directory was
\* left last, since it was opened last.
NamesAreKept ==
  \A i \in DOMAIN entries : entries[i].name = remembered[entries[i].path]

\* The list tells where the user has been and is, however it was compacted on the way.
EntriesAreTrue == JumpListTypeOK /\ NoPathTwice /\ CurrentIsHere /\ NamesAreKept

\* The list without positions: what is behind the user, and what is before him.
PathsOf(list) == [i \in DOMAIN list |-> list[i].path]
History == INSTANCE JumpHistory WITH
  back <- SubSeq(PathsOf(entries), 1, index - 1),
  ahead <- SubSeq(PathsOf(entries), index + 1, Len(entries))

\* The list does what JumpHistory promises.
KeepsHistory == History!Spec
=============================================================================
