------------------------------- MODULE Editing -------------------------------
(***************************************************************************)
(* What the user does to the listing he sees: Visual mode, inline editing  *)
(* and search, VimModeController and EditingSession of apps/files, with    *)
(* the copy register of DirectoryController.  The listing is rearranged    *)
(* under all of them by refreshes and toggles, and other programs change   *)
(* the directory itself, at any time.                                      *)
(***************************************************************************)
EXTENDS Integers, FiniteSets, SequencesExt

CONSTANTS
  Names,            \* of entries, numbers: the greater the better the match
  Queries, Match,   \* the names that match each query
  None,             \* no name, no query; the text of an editor that is no valid name
  Placeholder,      \* the row of an entry that is being created
  Modes             \* the modes that the user enters

ASSUME EditingAssumption ==
  /\ Names \subseteq Nat \ {0} /\ IsFiniteSet(Names)
  /\ None \notin Names \cup Queries \cup {Placeholder} /\ Placeholder \notin Names
  /\ Match \in [Queries -> SUBSET Names]
  /\ Modes \subseteq {"visual", "insert", "search"}

Ids == 1 .. Cardinality(Names) + 1

VARIABLES
  disk,                        \* the files of the directory, by name
  rows, cursor, suspended,     \* the listing, the row under the cursor (0: none), updates_suspended_
  mode,
  anchor, current,             \* visual_anchor_row_, visual_current_row_
  kind, self, text, row,       \* the editor: "rename" or "create", insert_self_name_, ..., editing_row_
  committing,                  \* commitInsert has found the text valid; the system call is next
  query, committed, matches, best, stale,   \* stale: listing_revision_ is not search_revision_
  preRow, preName,             \* search_pre_row_, pre_search_name_
  register,                    \* names, and whether they are to be moved
  first, origin                \* history: the entries on which Visual mode and the search began

list == <<rows, cursor, suspended>>
visual == <<anchor, current, first>>
editor == <<kind, self, text, row, committing>>
search == <<query, committed, matches, best, stale, preRow, preName, origin>>
vars == <<disk, list, mode, visual, editor, search, register>>

NoEditor == kind' = "rename" /\ self' = None /\ text' = None /\ row' = 0 /\ committing' = FALSE
NoRegister == [names |-> <<>>, cut |-> FALSE]

Init ==
  /\ disk = <<>>
  /\ rows = <<>> /\ cursor = 0 /\ suspended = FALSE /\ mode = "normal"
  /\ anchor = 0 /\ current = 0 /\ first = None
  /\ kind = "rename" /\ self = None /\ text = None /\ row = 0 /\ committing = FALSE
  /\ query = None /\ committed = None /\ matches = {} /\ best = 0 /\ stale = TRUE
  /\ preRow = 0 /\ preName = None /\ origin = None
  /\ register = NoRegister

-----------------------------------------------------------------------------
(* The listing and the cursor in it.                                       *)

NameAt(r) == IF r \in DOMAIN rows THEN rows[r] ELSE None
RowIn(now, name) == CHOOSE r \in DOMAIN now : now[r] = name

\* Never a row beyond the last.
Clamped(r, now) == IF r < 1 /\ now # <<>> THEN 1 ELSE IF r > Len(now) THEN Len(now) ELSE r

\* clampCursorRow
Reconciled(now) ==
  IF NameAt(cursor) \in ToSet(now) THEN RowIn(now, NameAt(cursor)) ELSE Clamped(cursor, now)

\* refreshSearch: the rows that match, and the best of them.
Matching(now, q) == IF q = None THEN {} ELSE {r \in DOMAIN now : now[r] \in Match[q]}
Best(now, found) ==
  IF found = {} THEN 0 ELSE CHOOSE r \in found : \A s \in found : now[s] <= now[r]

RefreshSearch(now, q) ==
  matches' = Matching(now, q) /\ best' = Best(now, matches') /\ stale' = FALSE

\* listingChanged: a search in progress follows; what was committed is found anew
\* when it is needed (mutant: is thought to hold).
ForgetNothing == UNCHANGED stale
Outdate == stale' = TRUE

\* Visual mode ends with the last row.
ModeAfter(now) == IF mode = "visual" /\ now = <<>> THEN "normal" ELSE mode

ListingChanged(now) ==
  /\ rows' = now /\ cursor' = Reconciled(now)
  /\ mode' = ModeAfter(now)
  /\ IF mode' # mode THEN anchor' = 0 /\ current' = 0 ELSE UNCHANGED <<anchor, current>>
  /\ IF mode = "search" THEN RefreshSearch(now, query) ELSE Outdate /\ UNCHANGED <<matches, best>>
  /\ UNCHANGED <<query, committed, preRow, preName, origin>>

\* Updates of the model and toggles of order and of hidden entries.
Rearrange(now) ==
  /\ ~suspended
  /\ ListingChanged(now)
  /\ UNCHANGED <<disk, suspended, first, editor, register>>

\* setCursorRow; Visual mode extends to the row (mutant: does not).
SetCursorRowOnly(r) ==
  cursor' = Clamped(r, rows) /\ mode' = ModeAfter(rows) /\ UNCHANGED current
SetCursorRow(r) ==
  /\ cursor' = Clamped(r, rows)
  /\ mode' = ModeAfter(rows)
  /\ current' = IF mode' = "visual" THEN cursor' ELSE IF mode = "visual" THEN 0 ELSE current

Move(r) ==
  /\ mode \in {"normal", "visual"} /\ r \in DOMAIN rows
  /\ SetCursorRow(r)
  /\ UNCHANGED <<disk, rows, suspended, anchor, first, editor, search, register>>

-----------------------------------------------------------------------------
(* Visual mode, and the register.                                          *)

EnterVisual ==
  /\ mode = "normal" /\ "visual" \in Modes /\ rows # <<>>
  /\ mode' = "visual" /\ anchor' = cursor /\ current' = cursor /\ first' = NameAt(cursor)
  /\ UNCHANGED <<disk, list, editor, search, register>>

ExitVisual ==
  /\ mode = "visual"
  /\ mode' = "normal" /\ anchor' = 0 /\ current' = 0

Escape == ExitVisual /\ UNCHANGED <<disk, list, first, editor, search, register>>

\* o: the cursor goes to the other end, which becomes the one that moves.
SwapVisualEnds ==
  /\ mode = "visual"
  /\ anchor' = current
  /\ SetCursorRow(anchor)
  /\ first' = NameAt(current)
  /\ UNCHANGED <<disk, rows, suspended, editor, search, register>>

\* The rows between the ends, which the listing may no longer reach to.
LowRow == IF anchor < current THEN anchor ELSE current
HighRow == IF anchor < current THEN current ELSE anchor
VisualSelection == SubSeq(rows, LowRow, IF HighRow < Len(rows) THEN HighRow ELSE Len(rows))

YankOrCut(cut) ==
  /\ mode \in {"normal", "visual"} /\ "visual" \in Modes
  /\ LET names == IF mode = "visual" THEN VisualSelection
                  ELSE IF cursor \in DOMAIN rows THEN <<rows[cursor]>> ELSE <<>> IN
       register' = IF names = <<>> THEN register ELSE [names |-> names, cut |-> cut]
  /\ IF mode = "visual" THEN ExitVisual ELSE UNCHANGED <<mode, anchor, current>>
  /\ UNCHANGED <<disk, list, first, editor, search>>

PasteRegister ==
  /\ mode = "normal" /\ register.names # <<>>
  /\ register' = IF register.cut THEN [register EXCEPT !.names = <<>>] ELSE register
  /\ UNCHANGED <<disk, list, mode, visual, editor, search>>

-----------------------------------------------------------------------------
(* Inline editing.                                                         *)

\* Updates are suspended before the editor opens (mutant: are not).
LeaveUpdates == UNCHANGED suspended
SuspendUpdates == suspended' = TRUE

BeginRename ==
  /\ mode = "normal" /\ "insert" \in Modes /\ cursor \in DOMAIN rows
  /\ SuspendUpdates
  /\ mode' = "insert" /\ kind' = "rename" /\ self' = rows[cursor] /\ text' = rows[cursor]
  /\ row' = cursor /\ committing' = FALSE
  /\ UNCHANGED <<disk, rows, cursor, visual, search, register>>

\* The placeholder's row is next to the cursor's.
BeginCreate(below) ==
  /\ mode = "normal" /\ "insert" \in Modes
  /\ SuspendUpdates
  /\ row' = IF cursor = 0 THEN 1 ELSE IF below THEN cursor + 1 ELSE cursor
  /\ rows' = InsertAt(rows, row', Placeholder) /\ cursor' = row'
  /\ mode' = "insert" /\ kind' = "create" /\ self' = None /\ text' = None /\ committing' = FALSE
  /\ Outdate
  /\ UNCHANGED <<disk, visual, query, committed, matches, best, preRow, preName, origin, register>>

UpdateInsertText(t) ==
  /\ mode = "insert" /\ ~committing
  /\ text' = t
  /\ UNCHANGED <<disk, list, mode, visual, kind, self, row, committing, search, register>>

\* commitInsert; an invalid name, or one that is taken, leaves the editor open.
Valid == text # None /\ (text = self \/ text \notin DOMAIN disk)
CommitInsert ==
  /\ mode = "insert" /\ ~committing /\ Valid
  /\ committing' = TRUE
  /\ UNCHANGED <<disk, list, mode, visual, kind, self, text, row, search, register>>

\* The system calls: utimensat; renameat2, mkdir and open, none of which replaces
\* a file that has appeared since the name was found free (mutant: all do).
Replacing == kind = "create" \/ self \in DOMAIN disk
Possible ==
  IF text = self THEN self \in DOMAIN disk
  ELSE text \notin DOMAIN disk /\ (kind = "create" \/ self \in DOMAIN disk)

Without(name) == [n \in DOMAIN disk \ {name} |-> disk[n]]
Free == CHOOSE id \in Ids : id \notin Range(disk)
With(function, name, id) == [n \in DOMAIN function \cup {name} |-> IF n = name THEN id ELSE function[n]]

Done ==
  IF text = self THEN disk
  ELSE IF kind = "rename" THEN With(Without(self), text, disk[self])
  ELSE With(disk, text, Free)

\* The row that was inserted goes, if the placeholder is still there.
RemoveActivePlaceholderIfAny ==
  rows' = IF kind = "create" /\ NameAt(row) = Placeholder THEN RemoveAt(rows, row) ELSE rows

\* ... and updates are resumed.
CloseEditor ==
  /\ RemoveActivePlaceholderIfAny
  /\ cursor' = Reconciled(rows')
  /\ suspended' = FALSE /\ mode' = "normal" /\ NoEditor
  /\ stale' = (stale \/ rows' # rows)
  /\ UNCHANGED <<visual, query, committed, matches, best, preRow, preName, origin, register>>

CommitInsertEditing(permitted) ==
  /\ committing
  /\ IF permitted /\ Possible
     THEN disk' = Done /\ CloseEditor
     ELSE /\ committing' = FALSE
          /\ UNCHANGED <<disk, list, mode, visual, kind, self, text, row, search, register>>

CancelInsertEditing == mode = "insert" /\ ~committing /\ CloseEditor /\ UNCHANGED disk

-----------------------------------------------------------------------------
(* Search.                                                                 *)

EnterSearch ==
  /\ mode = "normal" /\ "search" \in Modes
  /\ mode' = "search" /\ preRow' = cursor /\ preName' = NameAt(cursor) /\ origin' = NameAt(cursor)
  /\ query' = None /\ best' = 0 /\ matches' = {}
  /\ UNCHANGED <<disk, list, visual, editor, committed, stale, register>>

UpdateSearchQuery(q) ==
  /\ mode = "search"
  /\ query' = q /\ RefreshSearch(rows, q)
  /\ cursor' = IF best' > 0 THEN best' ELSE cursor
  /\ UNCHANGED <<disk, rows, suspended, mode, visual, editor, committed, preRow, preName, origin, register>>

CommitSearch ==
  /\ mode = "search"
  /\ mode' = "normal" /\ committed' = query /\ query' = None
  /\ UNCHANGED <<disk, list, visual, editor, matches, best, stale, preRow, preName, origin, register>>

\* Back to the entry the search began on, or to its row; the rows belonged to the
\* query that is given up.
RestoredRow == IF preName \in ToSet(rows) THEN RowIn(rows, preName) ELSE preRow

CancelSearch ==
  /\ mode = "search"
  /\ mode' = "normal" /\ query' = None /\ matches' = {} /\ best' = 0 /\ preRow' = 0
  /\ Outdate
  /\ cursor' = Clamped(RestoredRow, rows)
  /\ UNCHANGED <<disk, rows, suspended, visual, editor, committed, preName, origin, register>>

\* n and N, to the next row of the committed query, around the end.
NextRow(from, found) ==
  LET after == {r \in found : r > from} IN
  CHOOSE r \in IF after = {} THEN found ELSE after :
    \A s \in IF after = {} THEN found ELSE after : r <= s
PreviousRow(from, found) ==
  LET before == {r \in found : r < from} IN
  CHOOSE r \in IF before = {} THEN found ELSE before :
    \A s \in IF before = {} THEN found ELSE before : s <= r

\* ensureSearchCurrent and advanceSearchMatch
AdvanceSearch(forward) ==
  /\ mode = "normal" /\ "search" \in Modes
  /\ IF stale THEN RefreshSearch(rows, committed) ELSE UNCHANGED <<matches, best, stale>>
  /\ cursor' = IF matches' = {} THEN cursor
               ELSE IF forward THEN NextRow(cursor, matches') ELSE PreviousRow(cursor, matches')
  /\ UNCHANGED <<disk, rows, suspended, mode, visual, editor, query, committed, preRow, preName, origin,
                 register>>

-----------------------------------------------------------------------------
\* resetForNavigation, and the new directory.
Navigate ==
  /\ ~committing
  /\ rows' = <<>> /\ cursor' = 0 /\ suspended' = FALSE /\ mode' = "normal"
  /\ anchor' = 0 /\ current' = 0 /\ NoEditor
  /\ query' = None /\ committed' = None /\ matches' = {} /\ best' = 0 /\ preRow' = 0
  /\ preName' = None /\ Outdate
  /\ UNCHANGED <<disk, first, origin, register>>

\* Other programs, of which nothing shows until an editor is open.
Vanish(n) ==
  /\ mode = "insert" /\ n \in DOMAIN disk
  /\ disk' = Without(n)
  /\ UNCHANGED <<list, mode, visual, editor, search, register>>

Appear(n) ==
  /\ mode = "insert" /\ n \notin DOMAIN disk
  /\ disk' = With(disk, n, Free)
  /\ UNCHANGED <<list, mode, visual, editor, search, register>>

Next ==
  \/ \E now \in SetToAllKPermutations(Names) : Rearrange(now)
  \/ \E r \in DOMAIN rows : Move(r)
  \/ EnterVisual \/ Escape \/ SwapVisualEnds
  \/ \E cut \in BOOLEAN : YankOrCut(cut)
  \/ PasteRegister
  \/ BeginRename \/ \E below \in BOOLEAN : BeginCreate(below)
  \/ \E t \in Names \cup {None} : UpdateInsertText(t)
  \/ CommitInsert \/ \E permitted \in BOOLEAN : CommitInsertEditing(permitted)
  \/ CancelInsertEditing
  \/ EnterSearch \/ \E q \in Queries \cup {None} : UpdateSearchQuery(q)
  \/ CommitSearch \/ CancelSearch \/ \E forward \in BOOLEAN : AdvanceSearch(forward)
  \/ Navigate
  \/ \E n \in Names : Vanish(n) \/ Appear(n)

Spec == Init /\ [][Next]_vars

-----------------------------------------------------------------------------
(* Properties.                                                             *)

TypeOK ==
  /\ DOMAIN disk \subseteq Names /\ disk \in [DOMAIN disk -> Ids] /\ IsInjective(disk)
  /\ rows \in Seq(Names \cup {Placeholder}) /\ IsInjective(rows)
  /\ cursor \in IF rows = <<>> THEN {0} ELSE DOMAIN rows
  /\ mode \in {"normal"} \cup Modes
  /\ kind \in {"rename", "create"} /\ committing \in BOOLEAN
  /\ self \in Names \cup {None} /\ text \in Names \cup {None}
  /\ query \in Queries \cup {None} /\ committed \in Queries \cup {None} /\ stale \in BOOLEAN
  /\ register.names \in Seq(Names) /\ register.cut \in BOOLEAN

\* REQ-R-003: while the editor is open nothing takes its row from under it, and
\* the placeholder is there as long as the editor that creates an entry.
EditorStays ==
  /\ TypeOK
  /\ suspended <=> mode = "insert"
  /\ mode = "insert" => cursor = row /\ NameAt(row) = IF kind = "create" THEN Placeholder ELSE self
  /\ Placeholder \in ToSet(rows) => mode = "insert" /\ kind = "create"

\* REQ-R-001, REQ-R-002: whatever other programs have done since the name was found
\* free, a commit does what was typed, or nothing, and then keeps editor and text.
EditedOrKept ==
  [][committing /\ ~committing' =>
       \/ UNCHANGED <<disk, mode, text, rows>>
       \/ /\ mode' = "normal" /\ text \in DOMAIN disk'
          /\ kind = "rename" => disk'[text] = disk[self]
          /\ \A n \in DOMAIN disk \ {self} : n \in DOMAIN disk' /\ disk'[n] = disk[n]]_vars

\* The rows a repetition would go to are those that match the query in the listing as
\* it is.
MatchesAreCurrent == matches = Matching(rows, IF mode = "search" THEN query ELSE committed)

\* REQ-R-006: giving a search up returns to the entry it began on if that is listed,
\* wherever it now is.
SearchReturns ==
  [][mode = "search" /\ preRow # 0 /\ preRow' = 0 /\ rows' = rows =>
       (origin \in ToSet(rows) => rows[cursor'] = origin)]_vars

\* REQ-R-006: what a search has found is found in the listing as it now is or will be
\* found anew, and what it was begun on is found again.
SearchIsTrue == [](~stale => MatchesAreCurrent) /\ SearchReturns

VisualSpans ==
  first \in ToSet(rows) /\ anchor = RowIn(rows, first) /\ current = cursor

\* REQ-F-021: as long as the listing stays as it is, the rows from the entry Visual
\* mode began on to the cursor are selected, whatever moves and swaps of the ends.
SpanKept ==
  [][mode' = "visual" /\ rows' = rows /\ (mode = "visual" => VisualSpans) => VisualSpans']_vars

\* REQ-F-021: "the selection range to include entries from the original
\* first-selected entry to the current cursor position".
VisualSpansToCursor == mode = "visual" /\ first \in ToSet(rows) => VisualSpans
=============================================================================
