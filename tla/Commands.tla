------------------------------- MODULE Commands -------------------------------
(***************************************************************************)
(* The keys and the listing they act on: handleKey and execute of          *)
(* DirectoryController put FileCommandRouter in front of the order of the  *)
(* rows.  The sidebar toggles without a key, the worker's updates and its  *)
(* prompts come in between, and directories are opened behind it all.      *)
(***************************************************************************)
EXTENDS ListingOrder

CONSTANTS Keys, Timeout

ASSUME CommandsAssumption == Timeout \in Nat

VARIABLES pending, age, mode, prompt, quickLook, command, last, since

routing == <<pending, age, mode, prompt, quickLook, last, since>>
all == <<vars, routing, command>>

Router == INSTANCE FileCommandRouter

CommandsInit == Init /\ Router!Init

-----------------------------------------------------------------------------
(* execute, for the commands that the order of the listing depends on.     *)

Orders == {"ToggleHidden", "ToggleSort", "RenamePrepend", "RenameAppend", "CreateBelow", "CreateAbove"}

HasRows == Visible # {}

ExecuteOrder(kind) ==
  \/ kind = "ToggleHidden" /\ SetHiddenVisible
  \/ kind = "ToggleSort" /\ SetSortDescending
  \/ kind \in {"RenamePrepend", "RenameAppend"} /\ BeginRename
  \/ kind \in {"CreateBelow", "CreateAbove"}
       /\ \E name \in Names \cup {None} : BeginCreate(kind = "CreateBelow", name)
  \/ kind \in {"RenamePrepend", "RenameAppend"} /\ ~HasRows /\ UNCHANGED vars
  \/ kind \notin Orders /\ UNCHANGED vars

\* handleKey.  What there is to act on are the rows; a confirmation may have to wait.
HandleKey(k, canPreview, rows) ==
  /\ Router!Key(k, canPreview, rows)
  /\ rows => HasRows
  /\ command'.kind # "Trash" => (HasRows => rows)
  /\ ExecuteOrder(command'.kind)

-----------------------------------------------------------------------------
(* What happens without a key.                                             *)

NoCommand == command' = Router!Nothing

\* listingChanged ends Visual mode with the last row.
ListingChanged ==
  \/ mode = "visual" /\ Visible' = {} /\ Router!RowsGone
  \/ ~(mode = "visual" /\ Visible' = {}) /\ NoCommand /\ UNCHANGED routing

UpdateListing(names) == Update(names) /\ ListingChanged
ToggleInSidebar == (SetHiddenVisible \/ SetSortDescending) /\ ListingChanged

CloseField ==
  /\ Router!EditorCloses
  /\ IF mode = "insert" THEN CloseEditor ELSE UNCHANGED vars

Navigate == Router!Navigate /\ OpenDirectory

Interruption == (Router!Tick \/ Router!PromptAppears \/ Router!PromptGoes) /\ UNCHANGED vars

CommandsNext ==
  \/ \E k \in Keys, canPreview, rows \in BOOLEAN : HandleKey(k, canPreview, rows)
  \/ \E names \in SUBSET Names : UpdateListing(names)
  \/ ToggleInSidebar \/ CloseField \/ Navigate \/ Interruption

CommandsSpec == CommandsInit /\ [][CommandsNext]_all

-----------------------------------------------------------------------------
(* Properties.                                                             *)

\* A pair of keys acts if and only if it was typed, in time and with nothing between
\* its keys; nothing is edited or asked behind Quick Look; and keys go to the editor
\* exactly while the listing is held still for it (handleKey, beginRename, beginCreate).
KeysAreMeant ==
  /\ Router!PairsAreTyped
  /\ [](TypeOK /\ Router!TypeOK /\ Router!OnePair /\ Router!QuickLookAlone)
  /\ [](editing <=> mode = "insert")
===============================================================================
