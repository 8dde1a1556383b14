---------------------------- MODULE ListingOrder ----------------------------
(***************************************************************************)
(* The order of the listing, FilesDirectoryProxyModel of apps/files: the   *)
(* row of an entry that is being created stands next to its anchor, in     *)
(* either direction of the order, and stays there while it is edited.      *)
(***************************************************************************)
EXTENDS Integers

CONSTANTS
  Names,             \* of entries, numbered in the order of compareNames
  Folders, Hidden,   \* those of directories, those that begin with a dot
  Placeholder,       \* the row of the entry that is being created
  None               \* no anchor

ASSUME OrderAssumption ==
  /\ Names \subseteq Nat
  /\ Folders \subseteq Names
  /\ Placeholder \notin Names /\ None \notin Names

VARIABLES
  listed,                      \* the names in the model
  hiddenVisible, descending,
  editing,                     \* editing_
  placed, anchor, below        \* whether the placeholder is in the model; setPlaceholder

vars == <<listed, hiddenVisible, descending, editing, placed, anchor, below>>

Visible == {n \in listed : n \in Hidden => hiddenVisible}
Entries == Visible \cup (IF placed THEN {Placeholder} ELSE {})

\* The placeholder borrows its anchor's key.
NameOf(e) == IF e = Placeholder THEN anchor ELSE e
IsFolder(e) == NameOf(e) \in Folders

\* The proxy model reverses what lessThan decides.
BelowInAscending == below # descending

\* lessThan: directories first, then by name; a tie is the placeholder and its anchor
\* (mutant: is left to chance).
LessThanTied(left, right) ==
  IF IsFolder(left) # IsFolder(right) THEN IsFolder(left) ELSE NameOf(left) < NameOf(right)
LessThan(left, right) ==
  IF IsFolder(left) # IsFolder(right) THEN IsFolder(left)
  ELSE IF NameOf(left) # NameOf(right) THEN NameOf(left) < NameOf(right)
  ELSE left # right /\ (IF left = Placeholder THEN ~BelowInAscending ELSE BelowInAscending)

Above(e, f) == IF descending THEN LessThan(f, e) ELSE LessThan(e, f)

Init ==
  /\ listed = {} /\ hiddenVisible = FALSE /\ descending = FALSE
  /\ editing = FALSE /\ placed = FALSE /\ anchor = None /\ below = FALSE

\* Updates of the model, which are suspended while an editor is open.
Update(names) ==
  /\ ~editing
  /\ listed' = names
  /\ UNCHANGED <<hiddenVisible, descending, editing, placed, anchor, below>>

\* Toggles do nothing while an editor is open (mutant: they do).
AlwaysFree == TRUE
Free == ~editing

SetHiddenVisible ==
  /\ Free
  /\ hiddenVisible' = ~hiddenVisible
  /\ UNCHANGED <<listed, descending, editing, placed, anchor, below>>

SetSortDescending ==
  /\ Free
  /\ descending' = ~descending
  /\ UNCHANGED <<listed, hiddenVisible, editing, placed, anchor, below>>

BeginRename ==
  /\ ~editing /\ Visible # {}
  /\ editing' = TRUE
  /\ UNCHANGED <<listed, hiddenVisible, descending, placed, anchor, below>>

\* setEditing and setPlaceholder, then insertPlaceholderRow; the anchor is the row of
\* the cursor, and there is none in an empty listing.
BeginCreate(under, name) ==
  /\ ~editing /\ name \in (IF Visible = {} THEN {None} ELSE Visible)
  /\ editing' = TRUE /\ placed' = TRUE /\ anchor' = name /\ below' = under
  /\ UNCHANGED <<listed, hiddenVisible, descending>>

NoEditor == editing' = FALSE /\ placed' = FALSE /\ anchor' = None /\ below' = FALSE

CloseEditor ==
  /\ editing
  /\ NoEditor
  /\ UNCHANGED <<listed, hiddenVisible, descending>>

\* Another directory: its rows are yet to come, and nothing is edited.
OpenDirectory ==
  /\ listed' = {} /\ NoEditor
  /\ UNCHANGED <<hiddenVisible, descending>>

Next ==
  \/ \E names \in SUBSET Names : Update(names)
  \/ SetHiddenVisible \/ SetSortDescending
  \/ BeginRename \/ \E under \in BOOLEAN, name \in Names \cup {None} : BeginCreate(under, name)
  \/ CloseEditor \/ OpenDirectory

Spec == Init /\ [][Next]_vars

-----------------------------------------------------------------------------
(* Properties.                                                             *)

TypeOK ==
  /\ listed \subseteq Names
  /\ anchor \in IF placed /\ Visible # {} THEN Visible ELSE {None}
  /\ hiddenVisible \in BOOLEAN /\ descending \in BOOLEAN /\ editing \in BOOLEAN
  /\ placed \in BOOLEAN /\ below \in BOOLEAN

\* The rows have one order, with the placeholder and without: what lessThan decides is
\* irreflexive, transitive and total, as sorting requires.
OneOrder ==
  /\ \A e \in Entries : ~Above(e, e)
  /\ \A e, f \in Entries : e # f => Above(e, f) \/ Above(f, e)
  /\ \A e, f, g \in Entries : Above(e, f) /\ Above(f, g) => Above(e, g)

\* REQ-F-010, REQ-F-011: the placeholder stands directly below or above the row the user
\* created it from, whatever the direction of the order, as long as it is there.
NextToAnchor ==
  placed /\ Visible # {} =>
    /\ IF below THEN Above(anchor, Placeholder) ELSE Above(Placeholder, anchor)
    /\ \A e \in Visible \ {anchor} : Above(e, Placeholder) <=> Above(e, anchor)

\* The view can sort the rows, and finds the placeholder where the user asked for it.
PlaceholderFits == OneOrder /\ NextToAnchor

\* What is edited keeps its place: no row moves while an editor is open.
RowsStay ==
  [][editing /\ editing' =>
       /\ Entries' = Entries
       /\ \A e, f \in Entries : Above(e, f)' = Above(e, f)]_vars
=============================================================================
