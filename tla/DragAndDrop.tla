------------------------------ MODULE DragAndDrop ------------------------------
(***************************************************************************)
(* Files dragged out of the listing and dropped on it: FileDropArea and    *)
(* DirectoryController of apps/files.  While a drag goes on, the listing   *)
(* is rearranged and scrolled under the pointer, directories are opened,   *)
(* prompts appear and modes change.                                        *)
(***************************************************************************)
EXTENDS Integers, Sequences

CONSTANTS
  Entries, Folders,    \* names in a directory, and those of folders
  Directories,         \* that are opened
  Offers,             \* what other programs drag: urls, local paths or not, and for what
  NotLocal,            \* a url that is no local path
  View,                \* how many rows are visible
  Blocks,              \* what may be in front of the listing
  MaxDrops

ASSUME DragAssumption ==
  /\ Folders \subseteq Entries
  /\ Blocks \subseteq {"prompt", "quick look", "finder", "error", "shutdown"}
  /\ \A offer \in Offers : offer.supported \subseteq {"copy", "move"}
  /\ View \in Nat \ {0} /\ MaxDrops \in Nat

Operations == {"copy", "move"}
Modifiers == SUBSET {"shift", "ctrl", "alt"}
NoDrag == [urls |-> {}, supported |-> {}]
NoTransfer == [paths |-> {}, destination |-> <<>>, kind |-> "ignore"]

VARIABLES
  folder, rows, scroll,                   \* the directory, its rows, how many are above the view
  mode, blocks,                         \* the mode, and what is in front of the listing
  drag,                                 \* what is dragged, NoDrag if nothing
  position, hovering, action, target,   \* FileDropArea; target 0 is the code's -1
  queued, drops,                        \* the last transfer queued, and how many there were
  asked                                 \* history: the modifiers at the last drop

listing == <<folder, rows, scroll>>
keys == <<mode, blocks>>
area == <<position, hovering, action, target>>
tasks == <<queued, drops>>
dragVars == <<listing, keys, drag, area, tasks, asked>>

-----------------------------------------------------------------------------
(* DirectoryController.                                                    *)

\* Nothing is in front of the listing.
TransfersEnabled(m, b) == m \in {"normal", "visual"} /\ b = {}

Path(entry) == <<folder, entry>>

\* dragUriList: all that is selected if the row is, otherwise the row.
DragUriList(row, selected) ==
  IF row \in selected THEN {Path(rows[r]) : r \in selected} ELSE {Path(rows[row])}

\* A folder takes what is dropped on it, anything else leaves it to the directory.
DropDestination(row) ==
  IF row \in DOMAIN rows /\ rows[row] \in Folders THEN Path(rows[row]) ELSE <<folder>>

-----------------------------------------------------------------------------
(* FileTransfer: what may be dropped, and what becomes of it.              *)

\* All of the batch or nothing.
LocalPaths(urls) == IF NotLocal \in urls THEN {} ELSE urls

Action(modifiers, supported) ==
  LET requested == IF "shift" \in modifiers THEN "move" ELSE "copy"
      refused == "alt" \in modifiers \/ {"ctrl", "shift"} \subseteq modifiers
  IN IF ~refused /\ requested \in supported THEN requested ELSE "ignore"

Allowed(modifiers) ==
  IF TransfersEnabled(mode, blocks) /\ LocalPaths(drag.urls) # {}
  THEN Action(modifiers, drag.supported) ELSE "ignore"

-----------------------------------------------------------------------------
(* FileDropArea.                                                           *)

\* indexAt, as updateTarget calls it.
RowAt(p, now, top) == IF top + p \in DOMAIN now THEN top + p ELSE 0

Clear == hovering' = FALSE /\ action' = "ignore" /\ target' = 0 /\ UNCHANGED position

\* A drag event at p: the target is computed anew before the event goes on.
Update(p, modifiers) ==
  /\ position' = p /\ hovering' = TRUE
  /\ action' = Allowed(modifiers)
  /\ target' = RowAt(p, rows, scroll)

\* The area is enabled as transfers are.
Settle(m, b) ==
  /\ mode' = m /\ blocks' = b
  /\ IF TransfersEnabled(mode, blocks) /\ ~TransfersEnabled(m, b) THEN Clear ELSE UNCHANGED area

DragInit ==
  /\ folder \in Directories /\ rows = <<>> /\ scroll = 0
  /\ mode = "normal" /\ blocks = {}
  /\ drag = NoDrag
  /\ position = 1 /\ hovering = FALSE /\ action = "ignore" /\ target = 0
  /\ queued = NoTransfer /\ drops = 0
  /\ asked = {}

\* A row is dragged, in Visual mode perhaps one of those selected, or something from
\* another program.
StartDrag(row, selected) ==
  /\ drag = NoDrag /\ drops < MaxDrops /\ TransfersEnabled(mode, blocks)
  /\ selected = {} \/ mode = "visual"
  /\ drag' = [urls |-> DragUriList(row, selected), supported |-> Operations]
  /\ UNCHANGED <<listing, keys, area, tasks, asked>>

StartForeignDrag(offer) ==
  /\ drag = NoDrag /\ drops < MaxDrops
  /\ drag' = offer
  /\ UNCHANGED <<listing, keys, area, tasks, asked>>

EndDrag ==
  /\ drag # NoDrag /\ ~hovering
  /\ drag' = NoDrag
  /\ UNCHANGED <<listing, keys, area, tasks, asked>>

\* The pointer enters or moves, or a modifier changes.  Qt may still send events to
\* an area that has been disabled.
DragMove(p, modifiers) ==
  /\ drag # NoDrag
  /\ Update(p, modifiers)
  /\ UNCHANGED <<listing, keys, drag, tasks, asked>>

DragLeave ==
  /\ drag # NoDrag
  /\ Clear
  /\ UNCHANGED <<listing, keys, drag, tasks, asked>>

\* submitDrop
Submit(row, operation) ==
  IF TransfersEnabled(mode, blocks) /\ LocalPaths(drag.urls) # {} /\ operation \in Operations
  THEN /\ queued' = [paths |-> LocalPaths(drag.urls), destination |-> DropDestination(row),
                     kind |-> operation]
       /\ drops' = drops + 1
  ELSE UNCHANGED tasks

\* (mutant: as the last event before it left the feedback)
DropAsShown(p, modifiers) ==
  /\ drag # NoDrag
  /\ Submit(target, action)
  /\ hovering' = FALSE /\ action' = "ignore" /\ target' = 0
  /\ position' = p /\ asked' = modifiers /\ drag' = NoDrag
  /\ UNCHANGED <<listing, keys>>
Drop(p, modifiers) ==
  /\ drag # NoDrag
  /\ Submit(RowAt(p, rows, scroll), Allowed(modifiers))
  /\ hovering' = FALSE /\ action' = "ignore" /\ target' = 0
  /\ position' = p /\ asked' = modifiers /\ drag' = NoDrag
  /\ UNCHANGED <<listing, keys>>

\* The timer scrolls close to the edges of the view, where a pointer in the row at an
\* edge may be or not, and looks again what is under the pointer.
Scrolled ==
  {scroll} \cup (IF position = 1 /\ scroll > 0 THEN {scroll - 1} ELSE {})
    \cup (IF position = View /\ scroll + View < Len(rows) THEN {scroll + 1} ELSE {})
Tick ==
  /\ hovering /\ TransfersEnabled(mode, blocks)
  /\ scroll' \in Scrolled
  /\ target' = RowAt(position, rows, scroll')
  /\ UNCHANGED <<folder, rows, keys, drag, position, hovering, action, tasks, asked>>

-----------------------------------------------------------------------------
(* What goes on meanwhile.                                                 *)

Tops(now) == 0 .. (IF Len(now) > View THEN Len(now) - View ELSE 0)

\* Refreshes and toggles, but not under an editor; the view keeps within the rows,
\* and Visual mode ends with the last of them.
Rearrange(now, top) ==
  /\ mode # "insert" /\ top \in Tops(now)
  /\ rows' = now /\ scroll' = top
  /\ Settle(IF mode = "visual" /\ now = <<>> THEN "normal" ELSE mode, blocks)
  /\ UNCHANGED <<folder, drag, tasks, asked>>

\* Another directory ends every mode and Quick Look, and the last error.
Navigate(directory) ==
  /\ "shutdown" \notin blocks
  /\ folder' = directory /\ rows' = <<>> /\ scroll' = 0
  /\ Settle("normal", blocks \ {"quick look", "error"})
  /\ UNCHANGED <<drag, tasks, asked>>

ChangeMode(m) ==
  /\ m = "visual" => rows # <<>>
  /\ Settle(m, blocks)
  /\ UNCHANGED <<listing, drag, tasks, asked>>

Block(b) ==
  /\ Settle(mode, blocks \cup {b})
  /\ UNCHANGED <<listing, drag, tasks, asked>>

Unblock(b) ==
  /\ b \in blocks /\ b # "shutdown"
  /\ Settle(mode, blocks \ {b})
  /\ UNCHANGED <<listing, drag, tasks, asked>>

Listings ==
  UNION {{now \in [1 .. n -> Entries] : \A i, j \in 1 .. n : now[i] = now[j] => i = j} :
           n \in 0 .. View + 1}

DragNext ==
  \/ \E row \in DOMAIN rows, selected \in SUBSET DOMAIN rows : StartDrag(row, selected)
  \/ \E offer \in Offers : StartForeignDrag(offer)
  \/ EndDrag
  \/ \E p \in 1 .. View, modifiers \in Modifiers : DragMove(p, modifiers) \/ Drop(p, modifiers)
  \/ DragLeave
  \/ Tick
  \/ \E now \in Listings, top \in 0 .. 1 : Rearrange(now, top)
  \/ \E directory \in Directories : Navigate(directory)
  \/ \E m \in {"normal", "visual", "insert", "search"} : ChangeMode(m)
  \/ \E b \in Blocks : Block(b) \/ Unblock(b)

DragSpec == DragInit /\ [][DragNext]_dragVars

-----------------------------------------------------------------------------
(* Properties.                                                             *)

\* The types of the variables; the view shows rows.
DragTypeOK ==
  /\ folder \in Directories /\ rows \in Listings /\ scroll \in Tops(rows)
  /\ mode \in {"normal", "visual", "insert", "search"} /\ blocks \subseteq Blocks
  /\ drag.supported \subseteq Operations
  /\ position \in 1 .. View /\ hovering \in BOOLEAN
  /\ action \in Operations \cup {"ignore"} /\ target \in 0 .. View + 1
  /\ queued.kind \in Operations \cup {"ignore"} /\ drops \in 0 .. MaxDrops
  /\ asked \in Modifiers

\* What is dropped goes into the folder under the pointer at that moment, whatever was
\* there when the pointer last moved, and else into the directory on screen
\* (dropEvent's update, then dropDestination).
DropsUnderPointer ==
  [][ drops' # drops => queued'.destination = DropDestination(RowAt(position', rows, scroll)) ]_dragVars

\* A transfer is one the source offers and the user asks for when he lets go, and
\* of all that was dragged (FileTransfer::action and localPaths).
DropsAsOffered ==
  [][ drops' # drops =>
        /\ queued'.kind \in drag.supported /\ "alt" \notin asked'
        /\ queued'.kind = "move" <=> "shift" \in asked'
        /\ queued'.paths = drag.urls /\ NotLocal \notin drag.urls ]_dragVars

\* Nothing is dropped behind a prompt, Quick Look, the finder or an editor, even if
\* it appeared while the pointer was over the listing (transfersEnabled).
NothingDroppedBehind ==
  [][ drops' # drops => blocks = {} /\ mode \notin {"insert", "search"} ]_dragVars

\* The area says "copy" or "move" only where a drop would do it (update, and clear
\* when the area is disabled).
FeedbackIsHonest ==
  action # "ignore" => hovering /\ blocks = {} /\ mode \notin {"insert", "search"}

\* A drop does what the pointer, the source, the modifiers and the mode say at that
\* moment, and what the area showed before was never more than that.
DropsAreMeant ==
  /\ [](DragTypeOK /\ FeedbackIsHonest)
  /\ DropsUnderPointer /\ DropsAsOffered /\ NothingDroppedBehind
=============================================================================
