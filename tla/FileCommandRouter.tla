-------------------------- MODULE FileCommandRouter --------------------------
(***************************************************************************)
(* What a key does: FileCommandRouter of apps/files, with the modes,       *)
(* prompts and Quick Look that decide which keys it hears and that its     *)
(* commands change.  Prompts come and go while the user types, on behalf   *)
(* of the worker; pairs of keys have to be typed within Timeout.           *)
(***************************************************************************)
EXTENDS Integers, Functions

CONSTANTS
  Keys,      \* the keys that are pressed
  Timeout    \* kPendingGTimeoutMs, in steps of the clock

Firsts == {"y", "d", "f", "c"}
Modes == {"normal", "visual", "insert", "search"}
Prompts == {"none", "conflict", "trash"}
Late == Timeout + 1

VARIABLES
  pending, age,              \* pending_y_, ..., pending_c_ and their timers
  mode, prompt, quickLook,   \* of the controller: what decides who hears a key
  command,                   \* command_, with the key; no key: the step was none
  last, since                \* history: the key typed last in Normal mode, and the time since

vars == <<pending, age, mode, prompt, quickLook, command, last, since>>

Nothing == [key |-> "", kind |-> "None", visual |-> FALSE, consumed |-> TRUE]
Unconsumed == [Nothing EXCEPT !.consumed = FALSE]
Of(kind) == [Nothing EXCEPT !.kind = kind]
OfSelection(kind) == [Nothing EXCEPT !.kind = kind, !.visual = TRUE]

Init ==
  /\ pending = {} /\ age = [k \in Firsts |-> 0]
  /\ mode = "normal" /\ prompt = "none" /\ quickLook = FALSE
  /\ command = Nothing /\ last = "" /\ since = 0

-----------------------------------------------------------------------------
(* The pairs: yy, dd, ff and cd.                                           *)

\* expirePendingCommands (mutant: nothing expires).
Remembered == pending
Live == {k \in pending : age[k] <= Timeout}

Toggled(k) == IF k \in Live THEN {} ELSE {k}

IsFinderKey(k) == mode = "normal" /\ (k \in {"f", "c"} \/ (k = "d" /\ "c" \in Live))
IsFileOperationKey(k) == k \in {"y", "d", "D"} \/ (mode = "normal" /\ k = "p")

\* What stays pending when a key is typed: any other key discards.
Kept(k) == Live \cap {k}

PendingAfter(k) ==
  IF IsFinderKey(k)
  THEN CASE k = "f" -> Toggled(k)
         [] k = "c" -> {"c"}
         [] k = "d" -> Live \ {"c"}
  ELSE IF mode = "normal" /\ k \in {"y", "d"} THEN (IF k \in Kept(k) THEN {} ELSE Kept(k) \cup {k})
  ELSE Kept(k)

FinderCommand(k) ==
  IF k = "f" /\ k \in Live THEN Of("FindFile") ELSE IF k = "d" THEN Of("ChangeDirectory") ELSE Nothing

FileOperationCommand(k) ==
  IF mode = "normal"
  THEN CASE k = "D" -> Of("Trash")
         [] k = "p" -> Of("Paste")
         [] k \in {"y", "d"} -> IF k \notin Live THEN Nothing ELSE Of(IF k = "y" THEN "Yank" ELSE "Cut")
  ELSE OfSelection(CASE k = "y" -> "Yank" [] k = "d" -> "Cut" [] k = "D" -> "Trash")

-----------------------------------------------------------------------------
(* All other keys.                                                         *)

\* Keys of the navigation interpreter; those that leave the listing are for
\* Normal mode alone.
Motions == [j |-> "Move", k |-> "Move", G |-> "Last"]
Browsing ==
  [k \in {"h", "l", "."} |->
     CASE k = "h" -> "Parent" [] k = "l" -> "Open" [] k = "." -> "ToggleHidden"]
IsMovement(k) == k \in DOMAIN Motions \cup DOMAIN Browsing

MovementCommand(k) ==
  CASE k \in DOMAIN Motions -> Of(Motions[k])
    [] k \in DOMAIN Browsing -> IF mode = "normal" THEN Of(Browsing[k]) ELSE Nothing

NormalCommands ==
  [s |-> "ToggleSort", Return |-> "Open", v |-> "Visual", i |-> "RenamePrepend", a |-> "RenameAppend",
   o |-> "CreateBelow", O |-> "CreateAbove", n |-> "NextMatch", N |-> "PreviousMatch"]

\* Escape is the window's when there is nothing to leave.
OtherCommand(k, canPreview) ==
  CASE mode = "visual" /\ k = "o" -> Of("SwapVisualEnd")
    [] mode = "visual" /\ k = "Escape" -> Of("ExitVisual")
    [] mode = "visual" /\ k \notin {"o", "Escape"} -> Nothing
    [] mode = "normal" /\ k = " " -> IF canPreview THEN Of("ToggleQuickLook") ELSE Nothing
    [] mode = "normal" /\ k = "/" -> Of("Search")
    [] mode = "normal" /\ k = ":" -> Nothing
    [] mode = "normal" /\ k \in DOMAIN NormalCommands -> Of(NormalCommands[k])
    [] OTHER -> Unconsumed

QuickLookCommand(k) ==
  CASE k = " " -> Of("ToggleQuickLook")
    [] k = "Escape" -> Of("CloseQuickLook")
    [] k \in {"j", "k"} -> Of("MoveQuickLookLine")
    [] OTHER -> Nothing

ConflictAnswers == [s |-> "Skip", o |-> "Overwrite", r |-> "AutoRename", c |-> "CancelConflict"]

PromptCommand(k) ==
  IF prompt = "trash" THEN Of(IF k = "y" THEN "ConfirmTrash" ELSE "DeclineTrash")
  ELSE IF k \in DOMAIN ConflictAnswers THEN Of(ConflictAnswers[k]) ELSE Nothing

-----------------------------------------------------------------------------
(* handleKey and execute.                                                  *)

\* Who hears the key, in this order.
Hears ==
  IF prompt # "none" THEN "prompt"
  ELSE IF mode \in {"insert", "search"} THEN "editor"
  ELSE IF quickLook THEN "overlay" ELSE "listing"

ListingCommand(k, canPreview) ==
  IF IsFinderKey(k) THEN FinderCommand(k)
  ELSE IF IsFileOperationKey(k) THEN FileOperationCommand(k)
  ELSE IF IsMovement(k) THEN MovementCommand(k) ELSE OtherCommand(k, canPreview)

Command(k, canPreview) ==
  CASE Hears = "prompt" -> PromptCommand(k)
    [] Hears = "editor" -> Unconsumed
    [] Hears = "overlay" -> QuickLookCommand(k)
    [] Hears = "listing" -> ListingCommand(k, canPreview)

\* A key that others hear resets the pairs.
Pending(k) == IF Hears # "listing" THEN {} ELSE PendingAfter(k)

\* Modes, prompt and overlay after the command; with rows there is something to act on.
Execute(c, rows) ==
  /\ mode' = IF c.kind = "ExitVisual" \/ c.visual THEN "normal"
             ELSE CASE c.kind = "Visual" /\ rows -> "visual"
                    [] c.kind \in {"RenamePrepend", "RenameAppend"} /\ rows -> "insert"
                    [] c.kind \in {"CreateBelow", "CreateAbove"} -> "insert"
                    [] c.kind = "Search" -> "search"
                    [] OTHER -> mode
  /\ prompt' = CASE c.kind \in {"Skip", "Overwrite", "AutoRename", "CancelConflict", "ConfirmTrash", "DeclineTrash"} -> "none"
                 [] c.kind = "Trash" /\ rows -> "trash"
                 [] OTHER -> prompt
  /\ quickLook' = CASE c.kind = "ToggleQuickLook" -> ~quickLook
                    [] c.kind = "CloseQuickLook" -> FALSE
                    [] OTHER -> quickLook

Pairs ==
  [pair \in {<<"y", "y">>, <<"d", "d">>, <<"f", "f">>, <<"c", "d">>} |->
     CASE pair = <<"y", "y">> -> "Yank"
       [] pair = <<"d", "d">> -> "Cut"
       [] pair = <<"f", "f">> -> "FindFile"
       [] pair = <<"c", "d">> -> "ChangeDirectory"]

Key(k, canPreview, rows) ==
  /\ command' = [Command(k, canPreview) EXCEPT !.key = k]
  /\ pending' = Pending(k)
  /\ age' = [p \in Firsts |-> IF p \in pending' \ {k} THEN age[p] ELSE 0]
  /\ Execute(command', rows)
  /\ last' = IF Hears # "listing" \/ mode # "normal" \/ command'.kind \in Range(Pairs) THEN "" ELSE k
  /\ since' = 0

\* The clock.
Tick ==
  /\ since < Late
  /\ since' = since + 1 /\ age' = [p \in Firsts |-> IF p \in pending THEN age[p] + 1 ELSE 0]
  /\ command' = Nothing
  /\ UNCHANGED <<pending, mode, prompt, quickLook, last>>

Reset == pending' = {} /\ age' = [k \in Firsts |-> 0] /\ last' = ""

\* The worker asks, which ends what was begun; or asks no more, also when Ctrl+C
\* cancels the task.
PromptAppears ==
  /\ prompt = "none"
  /\ prompt' \in {"conflict", "trash"} /\ quickLook' = FALSE /\ Reset
  /\ command' = Nothing
  /\ UNCHANGED <<mode, since>>

PromptGoes ==
  /\ prompt # "none"
  /\ prompt' = "none" /\ command' = Nothing
  /\ UNCHANGED <<pending, age, mode, quickLook, last, since>>

\* The editor and the search field are committed or cancelled.
EditorCloses ==
  /\ mode \in {"insert", "search"}
  /\ mode' = "normal" /\ command' = Nothing
  /\ UNCHANGED <<pending, age, prompt, quickLook, last, since>>

\* Visual mode ends with the last row.
RowsGone ==
  /\ mode = "visual"
  /\ mode' = "normal" /\ command' = Nothing
  /\ UNCHANGED <<pending, age, prompt, quickLook, last, since>>

\* resetForNavigation, on behalf of a key or of anything else.
Navigate ==
  /\ Reset /\ mode' = "normal" /\ quickLook' = FALSE
  /\ command' = Nothing
  /\ UNCHANGED <<prompt, since>>

Next ==
  \/ \E k \in Keys, canPreview, rows \in BOOLEAN : Key(k, canPreview, rows)
  \/ Tick
  \/ PromptAppears \/ PromptGoes \/ EditorCloses \/ RowsGone \/ Navigate

Spec == Init /\ [][Next]_vars

-----------------------------------------------------------------------------
(* Properties.                                                             *)

TypeOK ==
  /\ pending \subseteq Firsts /\ age \in [Firsts -> 0 .. Late]
  /\ mode \in Modes /\ prompt \in Prompts /\ quickLook \in BOOLEAN
  /\ command.key \in Keys \cup {""} /\ last \in Keys \cup {""} /\ since \in 0 .. Late

\* Of the four flags and timers one at most is in use: no key can complete two pairs.
OnePair == \A p, q \in pending : p = q

\* A pair acts if and only if its two keys are typed one directly after the other and
\* in time: no prompt, no key for an editor or the overlay, no other mode and no
\* navigation comes between.
PairsAreTyped ==
  [][command'.key # "" /\ Hears = "listing" /\ mode = "normal" =>
       LET pair == <<last, command'.key>> IN
       IF pair \in DOMAIN Pairs /\ since <= Timeout THEN command'.kind = Pairs[pair]
       ELSE command'.kind \notin Range(Pairs)]_vars

\* Nothing is edited, selected, searched or asked behind the Quick Look overlay,
\* whatever is typed and the worker does while it is open.
QuickLookAlone == quickLook => mode = "normal" /\ prompt = "none"
=============================================================================
