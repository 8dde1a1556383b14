-------------------------- MODULE PresentationProofs --------------------------
(***************************************************************************)
(* What TLAPS proves of what the user sees.  Of ListingOrder, for any      *)
(* names, directories and hidden names: LessThan compares keys that are    *)
(* folders first and then numbers; the only tie is the placeholder with    *)
(* its anchor, and while there is a placeholder neither the entries nor    *)
(* the direction change.  Of Commands, which puts keys and prompts in      *)
(* front of it: that it implements ListingOrder, and that its keys do what *)
(* was typed.  Of QuickLookPresentation, for any services, sizes and       *)
(* measures: that the card fits and is that of the service of now.         *)
(***************************************************************************)
EXTENDS Commands, QuickLookPresentation, TLAPS

\* The names are whole numbers, and neither the placeholder nor the missing anchor
\* is a name.
LEMMA ConstantsMakeSense ==
  /\ \A n \in Names : n \in Int /\ n # Placeholder /\ n # None
  /\ \A n \in Folders : n \in Names
BY OrderAssumption

\* The placeholder has the key of an anchor that is there, or of none.
IInv ==
  /\ TypeOK
  /\ placed => editing

\* The types, the anchor of the placeholder among them, are kept by every step.
LEMMA IInvInductive == Spec => []IInv
<1>1. Init => IInv
  BY DEF Init, IInv, TypeOK, Visible
<1>2. IInv /\ [Next]_vars => IInv'
  <2> SUFFICES ASSUME IInv, [Next]_vars PROVE IInv'
    OBVIOUS
  <2> USE DEF IInv, TypeOK, Visible
  <2>1. ASSUME NEW names \in SUBSET Names, Update(names) PROVE IInv'
    BY <2>1 DEF Update
  <2>2. CASE SetHiddenVisible
    BY <2>2 DEF SetHiddenVisible, Free
  <2>3. CASE SetSortDescending
    BY <2>3 DEF SetSortDescending
  <2>4. CASE BeginRename
    BY <2>4 DEF BeginRename
  <2>5. ASSUME NEW under \in BOOLEAN, NEW name \in Names \cup {None}, BeginCreate(under, name)
        PROVE IInv'
    BY <2>5 DEF BeginCreate
  <2>6. CASE CloseEditor
    BY <2>6 DEF CloseEditor, NoEditor
  <2>7. CASE OpenDirectory
    BY <2>7 DEF OpenDirectory, NoEditor
  <2>8. CASE UNCHANGED vars
    BY <2>8 DEF vars
  <2> QED
    BY <2>1, <2>2, <2>3, <2>4, <2>5, <2>6, <2>7, <2>8 DEF Next
<1> QED
  BY <1>1, <1>2, PTL DEF Spec

\* Every type, and an anchor that is visible as long as anything is.
THEOREM TypesHold == Spec => []TypeOK
<1>1. IInv => TypeOK
  BY DEF IInv
<1> QED
  BY <1>1, IInvInductive, PTL

\* The name that stands for an entry is a number, but for a placeholder alone.
LEMMA KeysAreNumbers ==
  ASSUME TypeOK, NEW e \in Entries, NEW f \in Entries, e # f
  PROVE  NameOf(e) \in Int /\ NameOf(f) \in Int
BY ConstantsMakeSense DEF TypeOK, Entries, Visible, NameOf

\* No name stands for two entries, but the anchor's for the placeholder.
LEMMA TiesAreWithTheAnchor ==
  ASSUME TypeOK, NEW e \in Entries, NEW f \in Entries, e # f, NameOf(e) = NameOf(f)
  PROVE  e = Placeholder \/ f = Placeholder
BY DEF NameOf

\* LessThan is a strict order of the entries, each before or after each other.
LEMMA LessThanIsOrder ==
  ASSUME TypeOK
  PROVE  /\ \A e \in Entries : ~LessThan(e, e)
         /\ \A e, f \in Entries : e # f => LessThan(e, f) \/ LessThan(f, e)
         /\ \A e, f, g \in Entries : LessThan(e, f) /\ LessThan(f, g) => LessThan(e, g)
<1>1. ASSUME NEW e \in Entries PROVE ~LessThan(e, e)
  BY DEF LessThan
<1>2. ASSUME NEW e \in Entries, NEW f \in Entries, e # f
      PROVE  LessThan(e, f) \/ LessThan(f, e)
  <2>1. NameOf(e) \in Int /\ NameOf(f) \in Int
    BY <1>2, KeysAreNumbers
  <2>2. CASE NameOf(e) = NameOf(f)
    BY <1>2, <2>2, TiesAreWithTheAnchor DEF LessThan, IsFolder
  <2>3. CASE NameOf(e) # NameOf(f)
    BY <2>1, <2>3 DEF LessThan, IsFolder
  <2> QED
    BY <2>2, <2>3
<1>3. ASSUME NEW e \in Entries, NEW f \in Entries, NEW g \in Entries,
             LessThan(e, f), LessThan(f, g)
      PROVE  LessThan(e, g)
  <2>1. e # f /\ f # g
    BY <1>1, <1>3
  <2>2. NameOf(e) \in Int /\ NameOf(f) \in Int /\ NameOf(g) \in Int
    BY <2>1, KeysAreNumbers
  <2>3. CASE NameOf(e) = NameOf(f)
    <3>1. CASE NameOf(f) = NameOf(g)
      BY <1>3, <2>1, <2>3, <3>1, TiesAreWithTheAnchor DEF LessThan, IsFolder
    <3>2. CASE NameOf(f) # NameOf(g)
      BY <1>3, <2>3, <3>2 DEF LessThan, IsFolder
    <3> QED
      BY <3>1, <3>2
  <2>4. CASE NameOf(e) # NameOf(f) /\ NameOf(f) = NameOf(g)
    BY <1>3, <2>4 DEF LessThan, IsFolder
  <2>5. CASE NameOf(e) # NameOf(f) /\ NameOf(f) # NameOf(g)
    BY <1>3, <2>2, <2>5 DEF LessThan, IsFolder
  <2> QED
    BY <2>3, <2>4, <2>5
<1> QED
  BY <1>1, <1>2, <1>3

\* The rows have one order in both directions, for every listing and placeholder.
LEMMA OrderIsOne == Spec => []OneOrder
<1>1. IInv => OneOrder
  BY LessThanIsOrder DEF IInv, OneOrder, Above
<1> QED
  BY <1>1, IInvInductive, PTL

\* The placeholder is next to its anchor in both directions.
LEMMA PlaceholderNextToAnchor == Spec => []NextToAnchor
<1>1. IInv => NextToAnchor
  <2> SUFFICES ASSUME IInv, placed, Visible # {} PROVE
        /\ IF below THEN Above(anchor, Placeholder) ELSE Above(Placeholder, anchor)
        /\ \A e \in Visible \ {anchor} : Above(e, Placeholder) <=> Above(e, anchor)
    BY DEF NextToAnchor
  <2>1. anchor \in Names /\ anchor # Placeholder /\ Visible \subseteq Names
    BY ConstantsMakeSense DEF IInv, TypeOK, Visible
  <2>2. NameOf(anchor) = anchor /\ NameOf(Placeholder) = anchor
    BY <2>1 DEF NameOf
  <2>3. IF below THEN Above(anchor, Placeholder) ELSE Above(Placeholder, anchor)
    BY <2>1, <2>2 DEF Above, LessThan, IsFolder, BelowInAscending, IInv, TypeOK
  <2>4. ASSUME NEW e \in Visible \ {anchor} PROVE Above(e, Placeholder) <=> Above(e, anchor)
    <3>1. NameOf(e) = e /\ e # anchor
      BY <2>1, <2>4, ConstantsMakeSense DEF NameOf
    <3> QED
      BY <2>2, <3>1 DEF Above, LessThan, IsFolder
  <2> QED
    BY <2>3, <2>4
<1> QED
  BY <1>1, IInvInductive, PTL

\* For every listing the view can sort the rows, and the placeholder is where the user
\* asked for it.
THEOREM PlaceholderIsInPlace == Spec => []PlaceholderFits
BY OrderIsOne, PlaceholderNextToAnchor, PTL DEF PlaceholderFits

\* No step moves a row while an editor is open.
THEOREM NoRowMoves == Spec => RowsStay
<1>1. [Next]_vars => (editing /\ editing' => UNCHANGED vars)
  BY DEF Next, Update, SetHiddenVisible, SetSortDescending, BeginRename, BeginCreate, CloseEditor,
         OpenDirectory, NoEditor, Free, vars
<1>2. UNCHANGED vars => Entries' = Entries
  BY DEF vars, Entries, Visible
<1>3. ASSUME UNCHANGED vars, NEW e, NEW f PROVE Above(e, f)' = Above(e, f)
  BY <1>3 DEF vars, Above, LessThan, IsFolder, NameOf, BelowInAscending
<1>4. [Next]_vars => [editing /\ editing' =>
         /\ Entries' = Entries
         /\ \A e, f \in Entries : Above(e, f)' = Above(e, f)]_vars
  BY <1>1, <1>2, <1>3
<1> QED
  BY <1>4, PTL DEF Spec, RowsStay

\* Whatever is typed, listed and asked, the rows keep to ListingOrder: every key, update,
\* prompt and navigation is a step of it or leaves the rows alone.
THEOREM CommandsImplementListingOrder == CommandsSpec => Spec
<1>1. CommandsInit => Init
  BY DEF CommandsInit
<1>2. [CommandsNext]_all => [Next]_vars
  <2> SUFFICES ASSUME [CommandsNext]_all PROVE [Next]_vars
    OBVIOUS
  <2>1. ASSUME NEW k \in Keys, NEW canPreview \in BOOLEAN, NEW rows \in BOOLEAN,
               HandleKey(k, canPreview, rows)
        PROVE  [Next]_vars
    <3>1. ExecuteOrder(command'.kind)
      BY <2>1 DEF HandleKey
    <3>2. (command'.kind = "CreateBelow") \in BOOLEAN
      OBVIOUS
    <3> QED
      BY <3>1, <3>2 DEF ExecuteOrder, Next
  <2>2. ASSUME NEW names \in SUBSET Names, UpdateListing(names) PROVE [Next]_vars
    BY <2>2 DEF UpdateListing, Next
  <2>3. CASE ToggleInSidebar
    BY <2>3 DEF ToggleInSidebar, Next
  <2>4. CASE CloseField
    BY <2>4 DEF CloseField, Next
  <2>5. CASE Navigate
    BY <2>5 DEF Navigate, Next
  <2>6. CASE Interruption
    BY <2>6 DEF Interruption
  <2>7. CASE UNCHANGED all
    BY <2>7 DEF all
  <2> QED
    BY <2>1, <2>2, <2>3, <2>4, <2>5, <2>6, <2>7 DEF CommandsNext
<1> QED
  BY <1>1, <1>2, PTL DEF CommandsSpec, Spec

-----------------------------------------------------------------------------
(* The keys in front of the rows.  A pair is pending exactly while its      *)
(* first key is the one typed last, so that none can be completed that was *)
(* not typed.                                                               *)

\* Of a first key typed last its pair is pending, for as long as it is ago; Visual
\* mode, editors and searches begin without any.
PairInv ==
  /\ pending = {last} \cap Router!Firsts
  /\ \A p \in pending : age[p] = since
  /\ mode # "normal" => last \notin Router!Firsts

KeysInv ==
  /\ Router!TypeOK
  /\ PairInv
  /\ Router!QuickLookAlone
  /\ editing <=> mode = "insert"

PairKinds == {"Yank", "Cut", "FindFile", "ChangeDirectory"}
AnswerKinds == {"Skip", "Overwrite", "AutoRename", "CancelConflict", "ConfirmTrash", "DeclineTrash"}
RowKinds ==
  {"Visual", "RenamePrepend", "RenameAppend", "CreateBelow", "CreateAbove", "Search", "ExitVisual",
   "Trash"}
OverlayKinds == {"ToggleQuickLook", "CloseQuickLook", "MoveQuickLookLine", "None"}
OtherKinds == {"Move", "Last", "Parent", "Open", "ToggleHidden", "ToggleSort", "NextMatch",
               "PreviousMatch", "SwapVisualEnd", "Paste", "None"}

\* The tables of keys and pairs, as sets of commands.
LEMMA TablesOfKeys ==
  /\ \A k \in DOMAIN Router!Motions : Router!Motions[k] \in OtherKinds
  /\ \A k \in DOMAIN Router!Browsing : Router!Browsing[k] \in OtherKinds
  /\ \A k \in DOMAIN Router!NormalCommands :
       Router!NormalCommands[k] \in RowKinds \cup OtherKinds
<1>1. \A k \in DOMAIN Router!Motions : Router!Motions[k] \in OtherKinds
  BY DEF Router!Motions, OtherKinds
<1>2. \A k \in DOMAIN Router!Browsing : Router!Browsing[k] \in OtherKinds
  BY DEF Router!Browsing, OtherKinds
<1>3. \A k \in DOMAIN Router!NormalCommands :
        Router!NormalCommands[k] \in RowKinds \cup OtherKinds
  BY DEF Router!NormalCommands, OtherKinds, RowKinds
<1> QED
  BY <1>1, <1>2, <1>3

LEMMA TableOfPairs ==
  /\ DOMAIN Router!Pairs = {<<"y", "y">>, <<"d", "d">>, <<"f", "f">>, <<"c", "d">>}
  /\ Router!Pairs[<<"y", "y">>] = "Yank" /\ Router!Pairs[<<"d", "d">>] = "Cut"
  /\ Router!Pairs[<<"f", "f">>] = "FindFile" /\ Router!Pairs[<<"c", "d">>] = "ChangeDirectory"
  /\ Router!Range(Router!Pairs) = PairKinds
<1>1. /\ DOMAIN Router!Pairs = {<<"y", "y">>, <<"d", "d">>, <<"f", "f">>, <<"c", "d">>}
      /\ Router!Pairs[<<"y", "y">>] = "Yank" /\ Router!Pairs[<<"d", "d">>] = "Cut"
      /\ Router!Pairs[<<"f", "f">>] = "FindFile" /\ Router!Pairs[<<"c", "d">>] = "ChangeDirectory"
  BY DEF Router!Pairs
<1>2. Router!Range(Router!Pairs) = PairKinds
  BY <1>1 DEF Router!Range, PairKinds
<1> QED
  BY <1>1, <1>2

\* What a command can be, by who hears the key.
LEMMA PromptKinds ==
  ASSUME NEW k, Router!Hears = "prompt", NEW canPreview
  PROVE  /\ Router!Command(k, canPreview).kind \in AnswerKinds \cup {"None"}
         /\ Router!Command(k, canPreview).visual = FALSE
BY DEF Router!Command, Router!PromptCommand, Router!Of, Router!Nothing, Router!ConflictAnswers,
       AnswerKinds

LEMMA EditorKinds ==
  ASSUME NEW k, Router!Hears = "editor", NEW canPreview
  PROVE  /\ Router!Command(k, canPreview).kind = "None"
         /\ Router!Command(k, canPreview).visual = FALSE
BY DEF Router!Command, Router!Unconsumed, Router!Nothing

LEMMA KindsOfOverlay ==
  ASSUME NEW k, Router!Hears = "overlay", NEW canPreview
  PROVE  /\ Router!Command(k, canPreview).kind \in OverlayKinds
         /\ Router!Command(k, canPreview).visual = FALSE
BY DEF Router!Command, Router!QuickLookCommand, Router!Of, Router!Nothing, OverlayKinds

\* In Normal mode the kinds of pairs come from the keys of pairs alone.
LEMMA NormalKinds ==
  ASSUME NEW k, Router!Hears = "listing", mode = "normal", NEW canPreview \in BOOLEAN
  PROVE  /\ Router!Command(k, canPreview).visual = FALSE
         /\ k = "f" => Router!Command(k, canPreview).kind =
                         IF "f" \in Router!Live THEN "FindFile" ELSE "None"
         /\ k = "c" => Router!Command(k, canPreview).kind = "None"
         /\ k = "d" => Router!Command(k, canPreview).kind =
                         IF "c" \in Router!Live THEN "ChangeDirectory"
                         ELSE IF "d" \in Router!Live THEN "Cut" ELSE "None"
         /\ k = "y" => Router!Command(k, canPreview).kind =
                         IF "y" \in Router!Live THEN "Yank" ELSE "None"
         /\ k \notin Router!Firsts =>
              Router!Command(k, canPreview).kind \in RowKinds \cup OtherKinds \cup {"ToggleQuickLook"}
<1> USE DEF Router!Firsts
<1> DEFINE c == Router!Command(k, canPreview)
<1>0. /\ \A what : Router!Of(what).kind = what /\ Router!Of(what).visual = FALSE
      /\ Router!Nothing.kind = "None" /\ Router!Nothing.visual = FALSE
      /\ Router!Unconsumed.kind = "None" /\ Router!Unconsumed.visual = FALSE
  BY DEF Router!Nothing, Router!Of, Router!Unconsumed
<1>1. CASE Router!IsFinderKey(k)
  <2>1. c = Router!FinderCommand(k)
    BY <1>1 DEF Router!Command, Router!ListingCommand
  <2>2. k \in {"f", "c"} \/ (k = "d" /\ "c" \in Router!Live)
    BY <1>1 DEF Router!IsFinderKey
  <2>3. CASE k = "f" /\ "f" \in Router!Live
    BY <1>0, <2>1, <2>3 DEF Router!FinderCommand
  <2>4. CASE k = "f" /\ "f" \notin Router!Live
    BY <1>0, <2>1, <2>4 DEF Router!FinderCommand
  <2>5. CASE k = "c"
    BY <1>0, <2>1, <2>5 DEF Router!FinderCommand
  <2>6. CASE k = "d" /\ "c" \in Router!Live
    BY <1>0, <2>1, <2>6 DEF Router!FinderCommand
  <2> QED
    BY <2>2, <2>3, <2>4, <2>5, <2>6
<1>2. CASE ~Router!IsFinderKey(k) /\ Router!IsFileOperationKey(k)
  <2>1. c = Router!FileOperationCommand(k)
    BY <1>2 DEF Router!Command, Router!ListingCommand
  <2>2. k \in {"y", "d", "D", "p"} /\ k # "f" /\ k # "c" /\ ~(k = "d" /\ "c" \in Router!Live)
    BY <1>2 DEF Router!IsFileOperationKey, Router!IsFinderKey
  <2>3. CASE k = "D"
    BY <1>0, <2>1, <2>3 DEF Router!FileOperationCommand, RowKinds
  <2>4. CASE k = "p"
    BY <1>0, <2>1, <2>4 DEF Router!FileOperationCommand, OtherKinds
  <2>5. CASE k \in {"y", "d"} /\ k \in Router!Live
    BY <1>0, <2>1, <2>2, <2>5 DEF Router!FileOperationCommand
  <2>6. CASE k \in {"y", "d"} /\ k \notin Router!Live
    BY <1>0, <2>1, <2>2, <2>6 DEF Router!FileOperationCommand
  <2> QED
    BY <2>2, <2>3, <2>4, <2>5, <2>6
<1>3. CASE ~Router!IsFinderKey(k) /\ ~Router!IsFileOperationKey(k) /\ Router!IsMovement(k)
  <2>1. c = Router!MovementCommand(k)
    BY <1>3 DEF Router!Command, Router!ListingCommand
  <2>2. k \notin Router!Firsts
    BY <1>3 DEF Router!IsFileOperationKey, Router!IsFinderKey
  <2>3. c.visual = FALSE /\ c.kind \in OtherKinds
    BY <1>0, <1>3, <2>1, TablesOfKeys DEF Router!MovementCommand, Router!IsMovement, OtherKinds
  <2> QED
    BY <2>2, <2>3
<1>4. CASE ~Router!IsFinderKey(k) /\ ~Router!IsFileOperationKey(k) /\ ~Router!IsMovement(k)
  <2>1. c = Router!OtherCommand(k, canPreview)
    BY <1>4 DEF Router!Command, Router!ListingCommand
  <2>2. k \notin Router!Firsts
    BY <1>4 DEF Router!IsFileOperationKey, Router!IsFinderKey
  <2>3. c.visual = FALSE /\ c.kind \in RowKinds \cup OtherKinds \cup {"ToggleQuickLook"}
    <3>1. CASE k \in DOMAIN Router!NormalCommands /\ k # " " /\ k # "/" /\ k # ":"
      <4>1. c = Router!Of(Router!NormalCommands[k])
        BY <2>1, <3>1 DEF Router!OtherCommand
      <4> QED
        BY <1>0, <3>1, <4>1, TablesOfKeys
    <3>2. CASE k = " " \/ k = "/" \/ k = ":"
      <4>1. k \notin DOMAIN Router!NormalCommands
        BY <3>2 DEF Router!NormalCommands
      <4> QED
        BY <1>0, <2>1, <3>2, <4>1 DEF Router!OtherCommand, OtherKinds, RowKinds
    <3>3. CASE k \notin DOMAIN Router!NormalCommands /\ k # " " /\ k # "/" /\ k # ":"
      BY <1>0, <2>1, <3>3 DEF Router!OtherCommand, OtherKinds
    <3> QED
      BY <3>1, <3>2, <3>3
  <2> QED
    BY <2>2, <2>3
<1> QED
  BY <1>1, <1>2, <1>3, <1>4

LEMMA NormalIsSingle ==
  ASSUME NEW k, Router!Hears = "listing", mode = "normal", NEW canPreview \in BOOLEAN
  PROVE  Router!Command(k, canPreview).visual = FALSE
<1>1. Router!Command(k, canPreview).visual = FALSE /\ TRUE
  BY NormalKinds DEF Router!Firsts
<1> QED
  BY <1>1

\* In Visual mode nothing is edited, and Quick Look stays closed.
LEMMA VisualKinds ==
  ASSUME NEW k, Router!Hears = "listing", mode = "visual", NEW canPreview \in BOOLEAN
  PROVE  Router!Command(k, canPreview).kind \in
           {"Move", "Last", "None", "SwapVisualEnd", "ExitVisual", "Yank", "Cut", "Trash"}
<1> USE DEF Router!Nothing, Router!Of, Router!OfSelection
<1> DEFINE c == Router!Command(k, canPreview)
<1>1. ~Router!IsFinderKey(k)
  BY DEF Router!IsFinderKey
<1>2. CASE Router!IsFileOperationKey(k)
  BY <1>1, <1>2 DEF Router!Command, Router!ListingCommand, Router!IsFileOperationKey, Router!FileOperationCommand
<1>3. CASE ~Router!IsFileOperationKey(k) /\ Router!IsMovement(k)
  BY <1>1, <1>3 DEF Router!Command, Router!ListingCommand, Router!IsMovement, Router!MovementCommand, Router!Motions
<1>4. CASE ~Router!IsFileOperationKey(k) /\ ~Router!IsMovement(k)
  BY <1>1, <1>4 DEF Router!Command, Router!ListingCommand, Router!OtherCommand
<1> QED
  BY <1>2, <1>3, <1>4

\* Who hears a key.
LEMMA WhoHears ==
  ASSUME mode \in Router!Modes
  PROVE  /\ Router!Hears \in {"prompt", "editor", "overlay", "listing"}
         /\ Router!Hears = "prompt" <=> prompt # "none"
         /\ Router!Hears = "editor" => prompt = "none" /\ mode \in {"insert", "search"}
         /\ Router!Hears = "overlay" => prompt = "none" /\ quickLook /\ mode \in {"normal", "visual"}
         /\ Router!Hears = "listing" => prompt = "none" /\ ~quickLook /\ mode \in {"normal", "visual"}
BY DEF Router!Hears, Router!Modes

Fields == {"key", "kind", "visual", "consumed"}

\* A command has the fields of FileCommand.
LEMMA CommandsAreRecords ==
  ASSUME mode \in Router!Modes, NEW k, NEW canPreview \in BOOLEAN
  PROVE  DOMAIN Router!Command(k, canPreview) = Fields
<1>1. /\ \A what : DOMAIN Router!Of(what) = Fields /\ DOMAIN Router!OfSelection(what) = Fields
      /\ DOMAIN Router!Nothing = Fields /\ DOMAIN Router!Unconsumed = Fields
  BY DEF Router!Of, Router!OfSelection, Router!Nothing, Router!Unconsumed, Fields
<1>2. CASE Router!Hears = "prompt"
  BY <1>1, <1>2 DEF Router!Command, Router!PromptCommand
<1>3. CASE Router!Hears = "editor"
  BY <1>1, <1>3 DEF Router!Command
<1>4. CASE Router!Hears = "overlay"
  BY <1>1, <1>4 DEF Router!Command, Router!QuickLookCommand
<1>5. CASE Router!Hears = "listing"
  <2>0. Router!Command(k, canPreview) = Router!ListingCommand(k, canPreview)
    BY <1>5 DEF Router!Command
  <2>1. DOMAIN Router!FinderCommand(k) = Fields
    BY <1>1 DEF Router!FinderCommand
  <2>2. ASSUME Router!IsFileOperationKey(k) PROVE DOMAIN Router!FileOperationCommand(k) = Fields
    BY <1>1, <2>2 DEF Router!FileOperationCommand, Router!IsFileOperationKey
  <2>3. ASSUME Router!IsMovement(k) PROVE DOMAIN Router!MovementCommand(k) = Fields
    BY <1>1, <2>3 DEF Router!MovementCommand, Router!IsMovement
  <2>4. DOMAIN Router!OtherCommand(k, canPreview) = Fields
    BY <1>1 DEF Router!OtherCommand
  <2> QED
    BY <2>0, <2>1, <2>2, <2>3, <2>4 DEF Router!ListingCommand
<1> QED
  BY <1>2, <1>3, <1>4, <1>5, WhoHears

\* The command of a key, with the key in it.
LEMMA CommandOfKey ==
  ASSUME mode \in Router!Modes, NEW k \in Keys, NEW canPreview \in BOOLEAN, NEW rows \in BOOLEAN,
         Router!Key(k, canPreview, rows)
  PROVE  /\ command'.key = k
         /\ command'.kind = Router!Command(k, canPreview).kind
         /\ command'.visual = Router!Command(k, canPreview).visual
<1>1. DOMAIN Router!Command(k, canPreview) = Fields
  BY CommandsAreRecords
<1>2. command' = [Router!Command(k, canPreview) EXCEPT !.key = k]
  BY DEF Router!Key
<1> QED
  BY <1>1, <1>2 DEF Fields

\* The first keys still pending after a key: itself, if it is one and completes no pair.
LEMMA PendingIs ==
  ASSUME KeysInv, NEW k \in Keys, NEW canPreview \in BOOLEAN
  PROVE  Router!Pending(k) =
           IF Router!Hears = "listing" /\ mode = "normal"
              /\ Router!Command(k, canPreview).kind \notin PairKinds
           THEN {k} \cap Router!Firsts ELSE {}
<1>1. mode \in Router!Modes /\ pending = {last} \cap Router!Firsts
  BY DEF KeysInv, PairInv, Router!TypeOK
<1>2. Router!Live \subseteq pending
  BY DEF Router!Live
<1>3. CASE Router!Hears # "listing"
  BY <1>3 DEF Router!Pending
<1>4. CASE Router!Hears = "listing" /\ mode # "normal"
  <2>1. Router!Live = {}
    BY <1>2, <1>4 DEF KeysInv, PairInv
  <2>2. ~Router!IsFinderKey(k)
    BY <1>4 DEF Router!IsFinderKey
  <2>3. Router!Pending(k) = Router!Kept(k)
    BY <1>4, <2>2 DEF Router!Pending, Router!PendingAfter
  <2> QED
    BY <1>4, <2>1, <2>3 DEF Router!Kept
<1>5. CASE Router!Hears = "listing" /\ mode = "normal"
  <2>0. Router!Pending(k) = Router!PendingAfter(k)
    BY <1>5 DEF Router!Pending
  <2>1. CASE k = "f"
    <3>1. Router!PendingAfter(k) = Router!Toggled(k)
      BY <1>5, <2>1 DEF Router!PendingAfter, Router!IsFinderKey
    <3>2. Router!Command(k, canPreview).kind \in PairKinds <=> "f" \in Router!Live
      BY <1>5, <2>1, NormalKinds DEF PairKinds
    <3> QED
      BY <1>5, <2>0, <2>1, <3>1, <3>2 DEF Router!Toggled, Router!Firsts
  <2>2. CASE k = "c"
    <3>1. Router!PendingAfter(k) = {"c"}
      BY <1>5, <2>2 DEF Router!PendingAfter, Router!IsFinderKey
    <3>2. Router!Command(k, canPreview).kind \notin PairKinds
      BY <1>5, <2>2, NormalKinds DEF PairKinds
    <3> QED
      BY <1>5, <2>0, <2>2, <3>1, <3>2 DEF Router!Firsts
  <2>3. CASE k = "d" /\ "c" \in Router!Live
    <3>1. Router!PendingAfter(k) = Router!Live \ {"c"}
      BY <1>5, <2>3 DEF Router!PendingAfter, Router!IsFinderKey
    <3>2. Router!Command(k, canPreview).kind \in PairKinds
      BY <1>5, <2>3, NormalKinds DEF PairKinds
    <3>3. Router!Live \ {"c"} = {}
      BY <1>1, <1>2, <2>3
    <3> QED
      BY <1>5, <2>0, <3>1, <3>2, <3>3
  <2>4. CASE (k = "d" /\ "c" \notin Router!Live) \/ k = "y"
    <3>1. Router!PendingAfter(k) = IF k \in Router!Kept(k) THEN {} ELSE Router!Kept(k) \cup {k}
      BY <1>5, <2>4 DEF Router!PendingAfter, Router!IsFinderKey
    <3>2. Router!Kept(k) \subseteq {k} /\ (k \in Router!Kept(k) <=> k \in Router!Live)
      BY DEF Router!Kept
    <3>3. Router!Command(k, canPreview).kind \in PairKinds <=> k \in Router!Live
      BY <1>5, <2>4, NormalKinds DEF PairKinds
    <3>4. k \in Router!Firsts
      BY <2>4 DEF Router!Firsts
    <3> QED
      BY <1>5, <2>0, <3>1, <3>2, <3>3, <3>4
  <2>5. CASE k \notin Router!Firsts
    <3>1. Router!PendingAfter(k) = Router!Kept(k)
      BY <2>5 DEF Router!PendingAfter, Router!IsFinderKey, Router!Firsts
    <3>2. Router!Kept(k) = {}
      BY <1>1, <1>2, <2>5 DEF Router!Kept
    <3>3. {k} \cap Router!Firsts = {}
      BY <2>5
    <3> QED
      BY <2>0, <3>1, <3>2, <3>3
  <2> QED
    BY <2>1, <2>2, <2>3, <2>4, <2>5 DEF Router!Firsts
<1> QED
  BY <1>3, <1>4, <1>5

\* Modes, prompt and Quick Look after a key.
LEMMA KeyChangesModes ==
  ASSUME KeysInv, NEW k \in Keys, NEW canPreview \in BOOLEAN, NEW rows \in BOOLEAN,
         Router!Key(k, canPreview, rows)
  PROVE  /\ mode' \in Router!Modes /\ prompt' \in Router!Prompts /\ quickLook' \in BOOLEAN
         /\ Router!QuickLookAlone'
         /\ Router!Hears = "listing" /\ mode' # "normal" => k \notin Router!Firsts \/ mode = "visual"
         /\ mode' = "insert" =>
              \/ mode = "insert"
              \/ command'.kind \in {"RenamePrepend", "RenameAppend"} /\ rows
              \/ command'.kind \in {"CreateBelow", "CreateAbove"}
         /\ command'.kind \in {"RenamePrepend", "RenameAppend"} =>
              mode = "normal" /\ (rows => mode' = "insert")
         /\ command'.kind \in {"CreateBelow", "CreateAbove"} => mode = "normal" /\ mode' = "insert"
         /\ mode = "insert" => mode' = "insert" /\ command'.kind \in AnswerKinds \cup {"None"}
<1> DEFINE c == Router!Command(k, canPreview)
<1>1. mode \in Router!Modes /\ prompt \in Router!Prompts /\ quickLook \in BOOLEAN
  BY DEF KeysInv, Router!TypeOK
<1>2. quickLook => mode = "normal" /\ prompt = "none"
  BY DEF KeysInv, Router!QuickLookAlone
<1>3. command'.kind = c.kind /\ command'.visual = c.visual
  BY <1>1, CommandOfKey
<1>4. Router!Execute(command', rows)
  BY DEF Router!Key
<1> USE DEF Router!Modes, Router!Prompts
<1>5. CASE Router!Hears = "prompt"
  <2>1. c.kind \in AnswerKinds \cup {"None"} /\ c.visual = FALSE
    BY <1>5, PromptKinds
  <2>2. mode' = mode /\ quickLook' = quickLook /\ prompt' \in {"none", prompt}
    BY <1>3, <1>4, <2>1 DEF Router!Execute, AnswerKinds
  <2> QED
    BY <1>1, <1>2, <1>3, <1>5, <2>1, <2>2 DEF AnswerKinds, Router!QuickLookAlone
<1>6. CASE Router!Hears = "editor"
  <2>1. c.kind = "None" /\ c.visual = FALSE
    BY <1>6, EditorKinds
  <2>2. mode' = mode /\ quickLook' = quickLook /\ prompt' = prompt
    BY <1>3, <1>4, <2>1 DEF Router!Execute
  <2> QED
    BY <1>1, <1>2, <1>3, <1>6, <2>1, <2>2 DEF Router!QuickLookAlone
<1>7. CASE Router!Hears = "overlay"
  <2>1. c.kind \in OverlayKinds /\ c.visual = FALSE
    BY <1>7, KindsOfOverlay
  <2>2. mode' = mode /\ quickLook' \in BOOLEAN /\ prompt' = prompt
    BY <1>1, <1>3, <1>4, <2>1 DEF Router!Execute, OverlayKinds
  <2>3. quickLook /\ mode = "normal" /\ prompt = "none"
    BY <1>1, <1>2, <1>7, WhoHears
  <2> QED
    BY <1>1, <1>3, <1>7, <2>1, <2>2, <2>3 DEF Router!QuickLookAlone, OverlayKinds
<1>8. CASE Router!Hears = "listing"
  <2>1. prompt = "none" /\ ~quickLook /\ mode \in {"normal", "visual"}
    BY <1>1, <1>8, WhoHears
  <2>2. CASE mode = "normal"
    <3>1. c.visual = FALSE
      BY <1>8, <2>2, NormalIsSingle
    <3>7. k \in Router!Firsts => c.kind \in PairKinds \cup {"None"}
      BY <1>8, <2>2, NormalKinds DEF Router!Firsts, PairKinds
    <3>12. k \notin Router!Firsts => c.kind \in RowKinds \cup OtherKinds \cup {"ToggleQuickLook"}
      BY <1>8, <2>2, NormalKinds, Zenon
    <3>2. c.kind \in RowKinds \cup OtherKinds \cup PairKinds \cup {"ToggleQuickLook"}
      BY <3>7, <3>12 DEF OtherKinds
    <3>3. mode' \in Router!Modes
      BY <1>3, <1>4, <2>2, <3>1, <3>2 DEF Router!Execute
    <3>4. prompt' \in {"none", "trash"} /\ quickLook' \in BOOLEAN
      <4>1. prompt' \in {"none", "trash"}
        BY <1>3, <1>4, <2>1, <3>2 DEF Router!Execute, RowKinds, OtherKinds, PairKinds
      <4>2. CASE command'.kind = "ToggleQuickLook"
        <5>1. quickLook' = ~quickLook
          BY <1>4, <4>2 DEF Router!Execute
        <5> QED
          BY <4>1, <5>1
      <4>3. CASE command'.kind = "CloseQuickLook"
        <5>1. quickLook' = FALSE
          BY <1>4, <4>3 DEF Router!Execute
        <5> QED
          BY <4>1, <5>1
      <4>4. CASE command'.kind \notin {"ToggleQuickLook", "CloseQuickLook"}
        <5>1. quickLook' = quickLook
          BY <1>4, <4>4 DEF Router!Execute
        <5> QED
          BY <1>1, <4>1, <5>1
      <4> QED
        BY <4>2, <4>3, <4>4
    <3>5. quickLook' => c.kind = "ToggleQuickLook"
      BY <1>3, <1>4, <2>1 DEF Router!Execute
    <3>6. c.kind = "ToggleQuickLook" => mode' = "normal" /\ prompt' = "none"
      BY <1>3, <1>4, <2>1, <2>2, <3>1 DEF Router!Execute
    <3>8. c.kind \in PairKinds \cup {"None"} => mode' = "normal"
      BY <1>3, <1>4, <2>2, <3>1 DEF Router!Execute, PairKinds
    <3>9. mode' = "insert" =>
              \/ command'.kind \in {"RenamePrepend", "RenameAppend"} /\ rows
              \/ command'.kind \in {"CreateBelow", "CreateAbove"}
      BY <1>3, <1>4, <2>2, <3>1 DEF Router!Execute
    <3>10. command'.kind \in {"RenamePrepend", "RenameAppend"} => (rows => mode' = "insert")
      BY <1>3, <1>4, <2>2, <3>1 DEF Router!Execute
    <3>11. command'.kind \in {"CreateBelow", "CreateAbove"} => mode' = "insert"
      BY <1>3, <1>4, <2>2, <3>1 DEF Router!Execute
    <3> QED
      BY <2>2, <3>3, <3>4, <3>5, <3>6, <3>7, <3>8, <3>9, <3>10, <3>11 DEF Router!QuickLookAlone
  <2>3. CASE mode = "visual"
    <3>1. c.kind \in {"Move", "Last", "None", "SwapVisualEnd", "ExitVisual", "Yank", "Cut", "Trash"}
      BY <1>8, <2>3, VisualKinds
    <3>2. mode' \in {"normal", "visual"} /\ quickLook' = quickLook /\ prompt' \in {"none", "trash"}
      BY <1>3, <1>4, <2>1, <2>3, <3>1 DEF Router!Execute
    <3> QED
      BY <1>1, <1>3, <2>1, <2>3, <3>1, <3>2 DEF Router!QuickLookAlone
  <2> QED
    BY <2>1, <2>2, <2>3
<1> QED
  BY <1>1, <1>5, <1>6, <1>7, <1>8, WhoHears

\* Which key is remembered, and which are pending.
LEMMA KeyKeepsPairs ==
  ASSUME KeysInv, NEW k \in Keys, NEW canPreview \in BOOLEAN, NEW rows \in BOOLEAN,
         Router!Key(k, canPreview, rows)
  PROVE  PairInv' /\ Router!TypeOK'
<1> DEFINE c == Router!Command(k, canPreview)
<1>1. mode \in Router!Modes /\ Timeout \in Nat
  BY CommandsAssumption DEF KeysInv, Router!TypeOK
<1>2. command'.key = k /\ command'.kind = c.kind
  BY <1>1, CommandOfKey
<1>3. pending' = IF Router!Hears = "listing" /\ mode = "normal" /\ c.kind \notin PairKinds
                 THEN {k} \cap Router!Firsts ELSE {}
  BY PendingIs DEF Router!Key
<1>4. last' = IF Router!Hears = "listing" /\ mode = "normal" /\ c.kind \notin PairKinds
              THEN k ELSE ""
  BY <1>2, TableOfPairs DEF Router!Key
<1>5. pending' = {last'} \cap Router!Firsts
  BY <1>3, <1>4 DEF Router!Firsts
<1>6. since' = 0 /\ age' = [p \in Router!Firsts |-> 0]
  <2>1. pending' \ {k} = {}
    BY <1>3
  <2> QED
    BY <2>1 DEF Router!Key
<1>7. \A p \in pending' : age'[p] = since'
  BY <1>5, <1>6
<1>8. mode' # "normal" => last' \notin Router!Firsts
  BY <1>4, KeyChangesModes DEF Router!Firsts
<1>9. PairInv'
  BY <1>5, <1>7, <1>8 DEF PairInv, Router!Firsts
<1>10. Router!Late \in Nat
  BY <1>1 DEF Router!Late
<1>11. Router!TypeOK'
  <2>1. mode' \in Router!Modes /\ prompt' \in Router!Prompts /\ quickLook' \in BOOLEAN
    BY KeyChangesModes
  <2>2. pending' \subseteq Router!Firsts
    BY <1>5
  <2>3. age' \in [Router!Firsts -> 0 .. Router!Late] /\ since' \in 0 .. Router!Late
    BY <1>6, <1>10
  <2>4. command'.key \in Keys \cup {""} /\ last' \in Keys \cup {""}
    BY <1>2, <1>4
  <2> QED
    BY <2>1, <2>2, <2>3, <2>4 DEF Router!TypeOK, Router!Modes, Router!Prompts, Router!Firsts,
       Router!Late
<1> QED
  BY <1>9, <1>11

\* What a key does to the rows fits what it does to the mode.
LEMMA KeyKeepsEditor ==
  ASSUME KeysInv, NEW k \in Keys, NEW canPreview \in BOOLEAN, NEW rows \in BOOLEAN,
         HandleKey(k, canPreview, rows)
  PROVE  editing' <=> mode' = "insert"
<1>1. Router!Key(k, canPreview, rows) /\ ExecuteOrder(command'.kind)
  BY DEF HandleKey
<1>2. editing <=> mode = "insert"
  BY DEF KeysInv
<1>3. CASE mode = "insert"
  <2>1. mode' = "insert" /\ command'.kind \in AnswerKinds \cup {"None"}
    BY <1>1, <1>3, KeyChangesModes
  <2>2. UNCHANGED vars
    BY <1>1, <2>1 DEF ExecuteOrder, AnswerKinds, Orders
  <2> QED
    BY <1>2, <1>3, <2>1, <2>2 DEF vars
<1>4. CASE mode # "insert" /\ command'.kind \in {"RenamePrepend", "RenameAppend"}
  <2>1. mode' = "insert" <=> rows
    BY <1>1, <1>4, KeyChangesModes
  <2>2. rows <=> HasRows
    BY <1>4 DEF HandleKey
  <2>3. \/ BeginRename
        \/ ~HasRows /\ UNCHANGED vars
    BY <1>1, <1>4 DEF ExecuteOrder, Orders
  <2>4. CASE BeginRename
    BY <2>1, <2>2, <2>4 DEF BeginRename, HasRows
  <2>5. CASE ~HasRows /\ UNCHANGED vars
    BY <1>2, <1>4, <2>1, <2>2, <2>5 DEF vars
  <2> QED
    BY <2>3, <2>4, <2>5
<1>5. CASE mode # "insert" /\ command'.kind \in {"CreateBelow", "CreateAbove"}
  <2>1. mode' = "insert"
    BY <1>1, <1>5, KeyChangesModes
  <2>2. PICK name \in Names \cup {None} : BeginCreate(command'.kind = "CreateBelow", name)
    BY <1>1, <1>5 DEF ExecuteOrder, Orders
  <2> QED
    BY <2>1, <2>2 DEF BeginCreate
<1>6. CASE /\ mode # "insert"
           /\ command'.kind \notin {"RenamePrepend", "RenameAppend", "CreateBelow", "CreateAbove"}
  <2>1. mode' # "insert"
    BY <1>1, <1>6, KeyChangesModes
  <2>2. SetHiddenVisible \/ SetSortDescending \/ UNCHANGED vars
    BY <1>1, <1>6 DEF ExecuteOrder, Orders
  <2>3. editing' = editing
    BY <2>2 DEF SetHiddenVisible, SetSortDescending, vars
  <2> QED
    BY <1>2, <1>6, <2>1, <2>3
<1> QED
  BY <1>3, <1>4, <1>5, <1>6

\* What happens without a key.
LEMMA OthersKeepKeys ==
  ASSUME KeysInv
  PROVE  /\ Router!Tick => PairInv' /\ Router!TypeOK' /\ Router!QuickLookAlone' /\ mode' = mode
         /\ Router!PromptAppears =>
              PairInv' /\ Router!TypeOK' /\ Router!QuickLookAlone' /\ mode' = mode
         /\ Router!PromptGoes =>
              PairInv' /\ Router!TypeOK' /\ Router!QuickLookAlone' /\ mode' = mode
         /\ Router!EditorCloses => PairInv' /\ Router!TypeOK' /\ Router!QuickLookAlone'
         /\ Router!RowsGone => PairInv' /\ Router!TypeOK' /\ Router!QuickLookAlone'
         /\ Router!Navigate => PairInv' /\ Router!TypeOK' /\ Router!QuickLookAlone'
<1>0. /\ PairInv /\ Router!QuickLookAlone /\ Router!TypeOK
  BY DEF KeysInv
<1>10. Router!Late \in Nat
  BY CommandsAssumption DEF Router!Late
<1>11. Router!Nothing.key = ""
  BY DEF Router!Nothing
<1>12. since \in 0 .. Router!Late /\ last \in Keys \cup {""} /\ pending = {last} \cap Router!Firsts
  BY <1>0 DEF PairInv, Router!TypeOK
<1> USE DEF PairInv, Router!QuickLookAlone, Router!TypeOK
<1>1. ASSUME Router!Tick
      PROVE  PairInv' /\ Router!TypeOK' /\ Router!QuickLookAlone' /\ mode' = mode
  <2>1. UNCHANGED <<pending, mode, prompt, quickLook, last>> /\ command' = Router!Nothing
    BY <1>1 DEF Router!Tick
  <2>2. since < Router!Late /\ since' = since + 1 /\ since \in 0 .. Router!Late
    BY <1>1, <1>12 DEF Router!Tick
  <2>3. since' \in 0 .. Router!Late /\ 0 \in 0 .. Router!Late
    BY <1>10, <2>2
  <2>4. age' = [p \in Router!Firsts |-> IF p \in pending THEN since' ELSE 0]
    <3>1. age' = [p \in Router!Firsts |-> IF p \in pending THEN age[p] + 1 ELSE 0]
      BY <1>1 DEF Router!Tick
    <3>2. \A p \in pending : age[p] = since
      BY <1>0
    <3> QED
      BY <3>1, <3>2, <2>2
  <2>5. \A p \in pending' : age'[p] = since'
    BY <1>12, <2>1, <2>4
  <2>6. age' \in [Router!Firsts -> 0 .. Router!Late]
    BY <2>3, <2>4
  <2> QED
    BY <1>0, <1>11, <2>1, <2>3, <2>5, <2>6 DEF Router!Firsts, Router!Late, Router!Modes, Router!Prompts
<1>2. ASSUME Router!Reset, since' = since
      PROVE  /\ pending' = {last'} \cap Router!Firsts /\ last' = ""
             /\ \A p \in pending' : age'[p] = since'
             /\ age' \in [Router!Firsts -> 0 .. Router!Late]
  <2>1. pending' = {} /\ last' = "" /\ age' = [p \in Router!Firsts |-> 0]
    BY <1>2 DEF Router!Reset
  <2>2. {last'} \cap Router!Firsts = {}
    BY <2>1 DEF Router!Firsts
  <2>3. 0 \in 0 .. Router!Late
    BY <1>10
  <2> QED
    BY <2>1, <2>2, <2>3
<1>3. ASSUME Router!PromptAppears
      PROVE  PairInv' /\ Router!TypeOK' /\ Router!QuickLookAlone' /\ mode' = mode
  <2>1. prompt' \in Router!Prompts /\ ~quickLook' /\ command' = Router!Nothing /\ mode' = mode
    BY <1>3 DEF Router!PromptAppears, Router!Prompts
  <2>2. Router!Reset /\ since' = since
    BY <1>3 DEF Router!PromptAppears
  <2>3. quickLook' \in BOOLEAN
    BY <1>3 DEF Router!PromptAppears
  <2> QED
    BY <1>0, <1>2, <1>11, <1>12, <2>1, <2>2, <2>3
       DEF Router!Firsts, Router!Late, Router!Modes, Router!Prompts
<1>4. ASSUME Router!PromptGoes
      PROVE  PairInv' /\ Router!TypeOK' /\ Router!QuickLookAlone' /\ mode' = mode
  BY <1>0, <1>11, <1>4 DEF Router!PromptGoes, Router!Firsts, Router!Late, Router!Modes, Router!Prompts
<1>5. ASSUME Router!EditorCloses PROVE PairInv' /\ Router!TypeOK' /\ Router!QuickLookAlone'
  BY <1>0, <1>11, <1>5 DEF Router!EditorCloses, Router!Firsts, Router!Late, Router!Modes, Router!Prompts
<1>6. ASSUME Router!RowsGone PROVE PairInv' /\ Router!TypeOK' /\ Router!QuickLookAlone'
  BY <1>0, <1>11, <1>6 DEF Router!RowsGone, Router!Firsts, Router!Late, Router!Modes, Router!Prompts
<1>7. ASSUME Router!Navigate PROVE PairInv' /\ Router!TypeOK' /\ Router!QuickLookAlone'
  <2>1. prompt' = prompt /\ ~quickLook' /\ command' = Router!Nothing /\ mode' = "normal"
    BY <1>7 DEF Router!Navigate
  <2>2. Router!Reset /\ since' = since
    BY <1>7 DEF Router!Navigate
  <2>3. quickLook' \in BOOLEAN
    BY <1>7 DEF Router!Navigate
  <2> QED
    BY <1>0, <1>2, <1>11, <1>12, <2>1, <2>2, <2>3
       DEF Router!Firsts, Router!Late, Router!Modes, Router!Prompts
<1> QED
  BY <1>1, <1>3, <1>4, <1>5, <1>6, <1>7

\* Every step of the program keeps the keys meant.
LEMMA KeysInvKept ==
  ASSUME KeysInv, [CommandsNext]_all
  PROVE  KeysInv'
<1>1. editing <=> mode = "insert"
  BY DEF KeysInv
<1>2. ASSUME NEW k \in Keys, NEW canPreview \in BOOLEAN, NEW rows \in BOOLEAN,
             HandleKey(k, canPreview, rows)
      PROVE  KeysInv'
  <2>1. Router!Key(k, canPreview, rows)
    BY <1>2 DEF HandleKey
  <2>2. PairInv' /\ Router!TypeOK'
    BY <1>2, <2>1, KeyKeepsPairs
  <2>3. Router!QuickLookAlone'
    BY <1>2, <2>1, KeyChangesModes
  <2>4. editing' <=> mode' = "insert"
    BY <1>2, KeyKeepsEditor
  <2> QED
    BY <2>2, <2>3, <2>4 DEF KeysInv
<1>3. ASSUME UNCHANGED routing, command' = Router!Nothing
      PROVE  PairInv' /\ Router!TypeOK' /\ Router!QuickLookAlone' /\ mode' = mode
  BY <1>3 DEF routing, KeysInv, PairInv, Router!TypeOK, Router!QuickLookAlone, Router!Nothing,
     Router!Modes, Router!Prompts, Router!Firsts, Router!Late
<1>4. ASSUME ListingChanged, editing' = editing PROVE KeysInv'
  <2>1. CASE mode = "visual" /\ Router!RowsGone
    <3>1. mode' = "normal"
      BY <2>1 DEF Router!RowsGone
    <3> QED
      BY <1>1, <1>4, <2>1, <3>1, OthersKeepKeys DEF KeysInv
  <2>2. CASE NoCommand /\ UNCHANGED routing
    BY <1>1, <1>3, <1>4, <2>2 DEF KeysInv, NoCommand
  <2> QED
    BY <1>4, <2>1, <2>2 DEF ListingChanged
<1>5. ASSUME NEW names \in SUBSET Names, UpdateListing(names) PROVE KeysInv'
  BY <1>4, <1>5 DEF UpdateListing, Update
<1>6. CASE ToggleInSidebar
  BY <1>4, <1>6 DEF ToggleInSidebar, SetHiddenVisible, SetSortDescending
<1>7. CASE CloseField
  <2>1. Router!EditorCloses /\ mode \in {"insert", "search"} /\ mode' = "normal"
    BY <1>7 DEF CloseField, Router!EditorCloses
  <2>2. ~editing'
    BY <1>1, <1>7, <2>1 DEF CloseField, CloseEditor, NoEditor, vars
  <2> QED
    BY <2>1, <2>2, OthersKeepKeys DEF KeysInv
<1>8. CASE Navigate
  <2>1. Router!Navigate /\ mode' = "normal" /\ ~editing'
    BY <1>8 DEF Navigate, OpenDirectory, NoEditor, Router!Navigate
  <2> QED
    BY <2>1, OthersKeepKeys DEF KeysInv
<1>9. CASE Interruption
  <2>1. editing' = editing
    BY <1>9 DEF Interruption, vars
  <2>2. PairInv' /\ Router!TypeOK' /\ Router!QuickLookAlone' /\ mode' = mode
    BY <1>9, OthersKeepKeys DEF Interruption
  <2> QED
    BY <1>1, <2>1, <2>2 DEF KeysInv
<1>10. CASE UNCHANGED all
  BY <1>10 DEF all, vars, routing, KeysInv, PairInv, Router!TypeOK, Router!QuickLookAlone,
     Router!Modes, Router!Prompts, Router!Firsts, Router!Late
<1> QED
  BY <1>2, <1>5, <1>6, <1>7, <1>8, <1>9, <1>10 DEF CommandsNext

LEMMA KeysInvHolds == CommandsSpec => []KeysInv
<1>1. CommandsInit => KeysInv
  <2> SUFFICES ASSUME CommandsInit PROVE KeysInv
    OBVIOUS
  <2>1. Init /\ Router!Init
    BY DEF CommandsInit
  <2>2. Router!Late \in Nat
    BY CommandsAssumption DEF Router!Late
  <2>3. Router!TypeOK
    <3>1. 0 \in 0 .. Router!Late /\ Router!Nothing.key = ""
      BY <2>2 DEF Router!Nothing
    <3> QED
      BY <2>1, <3>1 DEF Router!Init, Router!TypeOK, Router!Modes, Router!Prompts, Router!Firsts,
         Router!Late
  <2>4. PairInv
    BY <2>1 DEF Router!Init, PairInv, Router!Firsts
  <2>5. Router!QuickLookAlone
    BY <2>1 DEF Router!Init, Router!QuickLookAlone
  <2>6. editing <=> mode = "insert"
    BY <2>1 DEF Router!Init, Init
  <2> QED
    BY <2>3, <2>4, <2>5, <2>6 DEF KeysInv
<1> QED
  BY <1>1, KeysInvKept, PTL DEF CommandsSpec

\* A key that completes a pair was typed next after its first, in time; and one that does
\* does act.
LEMMA PairsActAsTyped ==
  ASSUME KeysInv, NEW k \in Keys, NEW canPreview \in BOOLEAN, NEW rows \in BOOLEAN,
         Router!Key(k, canPreview, rows), Router!Hears = "listing", mode = "normal"
  PROVE  IF <<last, k>> \in DOMAIN Router!Pairs /\ since <= Timeout
         THEN command'.kind = Router!Pairs[<<last, k>>]
         ELSE command'.kind \notin Router!Range(Router!Pairs)
<1> DEFINE c == Router!Command(k, canPreview)
<1>1. command'.kind = c.kind
  BY CommandOfKey DEF KeysInv, Router!TypeOK
<1>2. \A p \in Router!Firsts : p \in Router!Live <=> p = last /\ since <= Timeout
  BY DEF KeysInv, PairInv, Router!Live
<1>3. CASE k = "f"
  <2>1. c.kind = IF "f" \in Router!Live THEN "FindFile" ELSE "None"
    BY <1>3, NormalKinds
  <2>2. <<last, k>> \in DOMAIN Router!Pairs <=> last = "f"
    BY <1>3, TableOfPairs
  <2> QED
    BY <1>1, <1>2, <1>3, <2>1, <2>2, TableOfPairs DEF Router!Firsts, PairKinds
<1>4. CASE k = "c"
  <2>1. c.kind = "None"
    BY <1>4, NormalKinds
  <2>2. <<last, k>> \notin DOMAIN Router!Pairs
    BY <1>4, TableOfPairs
  <2> QED
    BY <1>1, <2>1, <2>2, TableOfPairs DEF PairKinds
<1>5. CASE k = "d"
  <2>1. c.kind = IF "c" \in Router!Live THEN "ChangeDirectory"
                 ELSE IF "d" \in Router!Live THEN "Cut" ELSE "None"
    BY <1>5, NormalKinds
  <2>2. <<last, k>> \in DOMAIN Router!Pairs <=> last \in {"c", "d"}
    BY <1>5, TableOfPairs
  <2>3. CASE last = "c"
    BY <1>1, <1>2, <1>5, <2>1, <2>2, <2>3, TableOfPairs DEF Router!Firsts, PairKinds
  <2>4. CASE last = "d"
    BY <1>1, <1>2, <1>5, <2>1, <2>2, <2>4, TableOfPairs DEF Router!Firsts, PairKinds
  <2>5. CASE last \notin {"c", "d"}
    BY <1>1, <1>2, <1>5, <2>1, <2>2, <2>5, TableOfPairs DEF Router!Firsts, PairKinds
  <2> QED
    BY <2>3, <2>4, <2>5
<1>6. CASE k = "y"
  <2>1. c.kind = IF "y" \in Router!Live THEN "Yank" ELSE "None"
    BY <1>6, NormalKinds
  <2>2. <<last, k>> \in DOMAIN Router!Pairs <=> last = "y"
    BY <1>6, TableOfPairs
  <2> QED
    BY <1>1, <1>2, <1>6, <2>1, <2>2, TableOfPairs DEF Router!Firsts, PairKinds
<1>7. CASE k \notin Router!Firsts
  <2>1. c.kind \in RowKinds \cup OtherKinds \cup {"ToggleQuickLook"}
    BY <1>7, NormalKinds, Zenon
  <2>2. <<last, k>> \notin DOMAIN Router!Pairs
    BY <1>7, TableOfPairs DEF Router!Firsts
  <2> QED
    BY <1>1, <2>1, <2>2, TableOfPairs DEF RowKinds, OtherKinds, PairKinds
<1> QED
  BY <1>3, <1>4, <1>5, <1>6, <1>7 DEF Router!Firsts

\* Keys mean what was typed: a pair acts if and only if its two keys were typed one directly
\* after the other and in time, nothing is edited or asked behind Quick Look, and the editor
\* has the keys exactly while the rows are held for it; whatever is listed and asked between
\* them, for any names, keys and timeout.
THEOREM KeysMeanWhatWasTyped == CommandsSpec => KeysAreMeant
<1> DEFINE Typed ==
      command'.key # "" /\ Router!Hears = "listing" /\ mode = "normal" =>
        LET pair == <<last, command'.key>> IN
        IF pair \in DOMAIN Router!Pairs /\ since <= Timeout THEN command'.kind = Router!Pairs[pair]
        ELSE command'.kind \notin Router!Range(Router!Pairs)
<1>1. KeysInv /\ [CommandsNext]_all => [Typed]_(Router!vars)
  <2> SUFFICES ASSUME KeysInv, CommandsNext, command'.key # "", Router!Hears = "listing",
                      mode = "normal", Router!vars' # Router!vars
               PROVE  Typed
    BY DEF all, routing, Router!vars
  <2>0. Router!Nothing.key = ""
    BY DEF Router!Nothing
  <2>1. ASSUME NEW k \in Keys, NEW canPreview \in BOOLEAN, NEW rows \in BOOLEAN,
               HandleKey(k, canPreview, rows)
        PROVE  Typed
    <3>1. Router!Key(k, canPreview, rows)
      BY <2>1 DEF HandleKey
    <3>2. command'.key = k
      BY <2>1, <3>1, CommandOfKey DEF KeysInv, Router!TypeOK
    <3>3. IF <<last, k>> \in DOMAIN Router!Pairs /\ since <= Timeout
          THEN command'.kind = Router!Pairs[<<last, k>>]
          ELSE command'.kind \notin Router!Range(Router!Pairs)
      BY <2>1, <3>1, PairsActAsTyped
    <3> QED
      BY <3>2, <3>3
  <2>2. ASSUME command' = Router!Nothing PROVE FALSE
    BY <2>0, <2>2
  <2>3. ASSUME NEW names \in SUBSET Names, UpdateListing(names) PROVE FALSE
    BY <2>2, <2>3 DEF UpdateListing, ListingChanged, NoCommand, Router!RowsGone
  <2>4. CASE ToggleInSidebar
    BY <2>2, <2>4 DEF ToggleInSidebar, ListingChanged, NoCommand, Router!RowsGone
  <2>5. CASE CloseField
    BY <2>2, <2>5 DEF CloseField, Router!EditorCloses
  <2>6. CASE Navigate
    BY <2>2, <2>6 DEF Navigate, Router!Navigate
  <2>7. CASE Interruption
    BY <2>2, <2>7 DEF Interruption, Router!Tick, Router!PromptAppears, Router!PromptGoes
  <2> QED
    BY <2>1, <2>3, <2>4, <2>5, <2>6, <2>7 DEF CommandsNext
<1>2. KeysInv => Router!TypeOK /\ Router!OnePair /\ Router!QuickLookAlone /\ (editing <=> mode = "insert")
  <2> SUFFICES ASSUME KeysInv PROVE Router!OnePair
    BY DEF KeysInv
  <2>1. pending = {} \/ pending = {last}
    BY DEF KeysInv, PairInv
  <2> QED
    BY <2>1 DEF Router!OnePair
<1>3. CommandsSpec => []TypeOK
  BY CommandsImplementListingOrder, TypesHold, PTL
<1> QED
  BY <1>1, <1>2, <1>3, KeysInvHolds, PTL DEF CommandsSpec, KeysAreMeant, Router!PairsAreTyped

-----------------------------------------------------------------------------
(* The Quick Look card.  Card and frame are always those of the layout     *)
(* kept and the measures of now, and the size asked for last is the one    *)
(* the service attached was asked for.                                     *)

MeasuresOK(m) ==
  /\ DOMAIN m = Measures /\ m["window"] \in Sizes /\ m["dpr"] \in Nat \ {0}
  /\ \A l \in Lengths : m[l] \in Nat

Layouts == [kind : {"Image", "Text", "Markdown", "Compact"}, size : Sizes]

\* A quotient is the largest number that many times fits.
LEMMA Quotient ==
  ASSUME NEW a \in Nat, NEW b \in Nat, b > 0
  PROVE  a \div b \in Nat /\ b * (a \div b) <= a /\ a < b * (a \div b) + b
OBVIOUS

\* A picture scaled to bounds fits into them (QSizeF::scaled).
LEMMA ScaledFits ==
  ASSUME NEW s \in Nat, NEW t \in Nat, s > 0, t > 0, NEW b \in Nat, NEW c \in Nat
  PROVE  LET d == Scaled(<<s, t>>, <<b, c>>) IN
         /\ d \in Sizes /\ d[1] <= b /\ d[2] <= c
<1> DEFINE w == (c * s) \div t
           h == (b * t) \div s
<1>1. c * s \in Nat /\ b * t \in Nat
  OBVIOUS
<1>2. w \in Nat /\ t * w <= c * s
  <2>1. \A x \in Nat : x \div t \in Nat /\ t * (x \div t) <= x
    BY Quotient
  <2> QED
    BY <1>1, <2>1
<1>3. h \in Nat /\ s * h <= b * t
  <2>1. \A x \in Nat : x \div s \in Nat /\ s * (x \div s) <= x
    BY Quotient
  <2> QED
    BY <1>1, <2>1
<1> HIDE DEF w, h
<1>4. w > b => h <= c
  <2> SUFFICES ASSUME w > b, h > c PROVE FALSE
    BY <1>3
  <2>1. w >= b + 1 /\ h >= c + 1
    BY <1>2, <1>3
  <2>2. t * (b + 1) <= t * w /\ s * (c + 1) <= s * h
    BY <1>2, <1>3, <2>1
  <2>3. t * (b + 1) = t * b + t /\ s * (c + 1) = s * c + s /\ t * b = b * t /\ s * c = c * s
    OBVIOUS
  <2> QED
    BY <1>1, <1>2, <1>3, <2>2, <2>3
<1>5. Scaled(<<s, t>>, <<b, c>>) = IF w <= b THEN <<w, c>> ELSE <<b, h>>
  BY DEF Scaled, w, h
<1> QED
  BY <1>2, <1>3, <1>4, <1>5 DEF Sizes

\* What there is room for.
LEMMA RoomForPreview ==
  ASSUME NEW m, MeasuresOK(m)
  PROVE  /\ m["window"][1] \in Nat /\ m["window"][2] \in Nat
         /\ Bounds(m)[1] = 92 * m["window"][1] /\ Bounds(m)[2] = 92 * m["window"][2]
         /\ Margins(m)[1] \in Nat /\ Margins(m)[2] \in Nat
         /\ PreviewBounds(m)[1] \in Nat /\ PreviewBounds(m)[2] \in Nat
         /\ PreviewBounds(m)[1] > 0 => PreviewBounds(m)[1] = Bounds(m)[1] - 100 * Margins(m)[1]
         /\ PreviewBounds(m)[2] > 0 => PreviewBounds(m)[2] = Bounds(m)[2] - 100 * Margins(m)[2]
<1>1. m["window"][1] \in Nat /\ m["window"][2] \in Nat
  BY DEF MeasuresOK, Sizes
<1>2. Bounds(m)[1] = 92 * m["window"][1] /\ Bounds(m)[2] = 92 * m["window"][2]
  BY DEF Bounds
<1>3. m["padding"] \in Nat /\ m["gap"] \in Nat /\ m["reserve"] \in Nat
  BY DEF MeasuresOK, Lengths
<1>4. Margins(m)[1] = 2 * m["padding"] /\ Margins(m)[2] = 2 * m["padding"] + m["gap"] + m["reserve"]
  BY DEF Margins
<1>5. /\ PreviewBounds(m)[1] = Larger(0, Bounds(m)[1] - 100 * Margins(m)[1])
      /\ PreviewBounds(m)[2] = Larger(0, Bounds(m)[2] - 100 * Margins(m)[2])
  BY DEF PreviewBounds
<1> QED
  BY <1>1, <1>2, <1>3, <1>4, <1>5 DEF Larger

\* The frame, and that it fits into the room.
LEMMA FrameFits ==
  ASSUME NEW m, MeasuresOK(m), NEW layout \in Layouts
  PROVE  /\ Frame(layout, m) \in Sizes
         /\ layout.kind # "Compact" => /\ 100 * Frame(layout, m)[1] <= PreviewBounds(m)[1]
                                       /\ 100 * Frame(layout, m)[2] <= PreviewBounds(m)[2]
<1> DEFINE b == PreviewBounds(m)
           sized == layout.kind = "Image" /\ layout.size[1] > 0 /\ layout.size[2] > 0
           fitted == IF ~sized THEN b
                     ELSE IF b[1] = 0 \/ b[2] = 0 THEN NoSize
                     ELSE Scaled(layout.size, b)
<1>1. b[1] \in Nat /\ b[2] \in Nat
  BY RoomForPreview
<1>2. m["icon"] \in Nat
  BY DEF MeasuresOK, Lengths
<1>3. layout.size \in Sizes /\ layout.size[1] \in Nat /\ layout.size[2] \in Nat
  BY DEF Layouts, Sizes
<1>4. fitted[1] \in Nat /\ fitted[2] \in Nat /\ fitted[1] <= b[1] /\ fitted[2] <= b[2]
  <2>1. CASE ~sized
    BY <1>1, <2>1
  <2>2. CASE sized /\ (b[1] = 0 \/ b[2] = 0)
    <3>1. fitted = <<0, 0>>
      BY <2>2 DEF NoSize
    <3> HIDE DEF fitted
    <3> QED
      BY <1>1, <3>1
  <2>3. CASE sized /\ ~(b[1] = 0 \/ b[2] = 0)
    <3>1. fitted = Scaled(layout.size, b)
      BY <2>3
    <3>2. Scaled(layout.size, b) = Scaled(<<layout.size[1], layout.size[2]>>, <<b[1], b[2]>>)
      BY DEF Scaled
    <3>3. layout.size[1] > 0 /\ layout.size[2] > 0
      BY <2>3
    <3> HIDE DEF fitted, b
    <3> QED
      BY <1>1, <1>3, <3>1, <3>2, <3>3, ScaledFits DEF Sizes
  <2> QED
    BY <2>1, <2>2, <2>3
<1>5. Frame(layout, m) = IF layout.kind = "Compact" THEN <<m["icon"], m["icon"]>> ELSE <<Floor(fitted[1]), Floor(fitted[2])>>
  BY DEF Frame
<1> HIDE DEF fitted, b
<1>6. \A x \in Nat : Floor(x) \in Nat /\ 100 * Floor(x) <= x
  BY DEF Floor
<1> QED
  BY <1>1, <1>2, <1>4, <1>5, <1>6 DEF Sizes, b

\* The card keeps within the window, and holds the frame with its margins.
LEMMA CardFits ==
  ASSUME NEW m, MeasuresOK(m), NEW layout \in Layouts
  PROVE  /\ Card(layout, m) \in Sizes
         /\ 100 * Card(layout, m)[1] <= 92 * m["window"][1]
         /\ 100 * Card(layout, m)[2] <= 92 * m["window"][2]
         /\ layout.kind # "Compact" =>
              /\ Frame(layout, m)[1] > 0 => Frame(layout, m)[1] + Margins(m)[1] <= Card(layout, m)[1]
              /\ Frame(layout, m)[2] > 0 => Frame(layout, m)[2] + Margins(m)[2] <= Card(layout, m)[2]
<1> DEFINE f == Frame(layout, m)
           hint == IF layout.kind = "Compact" THEN m["hint"] + 2 * m["padding"] ELSE 0
           width == Larger(Larger(m["minimum"], hint), f[1] + Margins(m)[1])
           height == f[2] + Margins(m)[2]
<1>1. /\ m["window"][1] \in Nat /\ m["window"][2] \in Nat
      /\ Bounds(m)[1] = 92 * m["window"][1] /\ Bounds(m)[2] = 92 * m["window"][2]
      /\ Margins(m)[1] \in Nat /\ Margins(m)[2] \in Nat
      /\ PreviewBounds(m)[1] \in Nat /\ PreviewBounds(m)[2] \in Nat
      /\ PreviewBounds(m)[1] > 0 => PreviewBounds(m)[1] = Bounds(m)[1] - 100 * Margins(m)[1]
      /\ PreviewBounds(m)[2] > 0 => PreviewBounds(m)[2] = Bounds(m)[2] - 100 * Margins(m)[2]
  BY RoomForPreview
<1>2. /\ f[1] \in Nat /\ f[2] \in Nat
      /\ layout.kind # "Compact" => 100 * f[1] <= PreviewBounds(m)[1] /\ 100 * f[2] <= PreviewBounds(m)[2]
  BY FrameFits DEF Sizes
<1>3. hint \in Nat /\ m["minimum"] \in Nat
  BY DEF MeasuresOK, Lengths
<1>4. Card(layout, m) = <<Floor(Smaller(Bounds(m)[1], 100 * width)), Floor(Smaller(Bounds(m)[2], 100 * height))>>
  BY DEF Card
<1> HIDE DEF f, hint
<1>5. width \in Nat /\ width >= f[1] + Margins(m)[1] /\ height \in Nat
  BY <1>1, <1>2, <1>3 DEF Larger
<1>6. ASSUME NEW x \in Nat, NEW y \in Nat, NEW z \in Nat, z <= y, 100 * z <= x
      PROVE  z <= Floor(Smaller(x, 100 * y))
  BY <1>6 DEF Floor, Smaller
<1>7. ASSUME NEW x \in Nat, NEW y \in Nat
      PROVE  Floor(Smaller(x, 100 * y)) \in Nat /\ 100 * Floor(Smaller(x, 100 * y)) <= x
  BY DEF Floor, Smaller
<1> HIDE DEF width
<1>8. Bounds(m)[1] \in Nat /\ Bounds(m)[2] \in Nat
  BY <1>1
<1>9. /\ Card(layout, m)[1] = Floor(Smaller(Bounds(m)[1], 100 * width))
      /\ Card(layout, m)[2] = Floor(Smaller(Bounds(m)[2], 100 * height))
  BY <1>4
<1>10. /\ Card(layout, m) \in Sizes
       /\ 100 * Card(layout, m)[1] <= Bounds(m)[1] /\ 100 * Card(layout, m)[2] <= Bounds(m)[2]
  BY <1>4, <1>5, <1>7, <1>8 DEF Sizes
<1>11. ASSUME layout.kind # "Compact", f[1] > 0 PROVE f[1] + Margins(m)[1] <= Card(layout, m)[1]
  <2>1. 100 * (f[1] + Margins(m)[1]) <= Bounds(m)[1] /\ f[1] + Margins(m)[1] \in Nat
    BY <1>1, <1>2, <1>11
  <2> QED
    BY <1>5, <1>6, <1>8, <1>9, <2>1
<1>12. ASSUME layout.kind # "Compact", f[2] > 0 PROVE f[2] + Margins(m)[2] <= Card(layout, m)[2]
  <2>1. 100 * height <= Bounds(m)[2]
    BY <1>1, <1>2, <1>12
  <2>2. height <= height
    BY <1>5
  <2> QED
    BY <1>5, <1>6, <1>8, <1>9, <2>1, <2>2
<1> QED
  BY <1>1, <1>10, <1>11, <1>12 DEF f

\* Card and frame are those of the layout kept, and this is the one of the last that was
\* settled; the size asked for last, if any, is the one the service attached was asked for.
CardInv ==
  /\ CardTypeOK
  /\ kind = Shown(facts)
  /\ Settles(facts) => settled /\ retained = [kind |-> Shown(facts), size |-> facts.size]
  /\ frame = Frame(retained, measure) /\ card = Card(retained, measure)
  /\ preview # NoService /\ lastRequested # NoSize => requested[preview] = lastRequested
  /\ RequestIsCurrent /\ CompactUntilSettled

\* The kinds of layout.
LEMMA KindsOfCards ==
  ASSUME NEW f \in Facts
  PROVE  /\ Shown(f) \in {"None", "Pending", "Image", "Text", "Markdown", "Compact"}
         /\ f.size \in Sizes
         /\ Settles(f) => [kind |-> Shown(f), size |-> f.size] \in Layouts
<1>1. /\ f.entry \in BOOLEAN /\ f.busy \in BOOLEAN /\ f.text \in BOOLEAN
      /\ f.error \in BOOLEAN /\ f.markdown \in BOOLEAN
      /\ f.mime \in {"", "image", "other"} /\ f.size \in Nat \X Nat
  BY PresentationAssumption
<1>2. Classify(f) \in {"None", "Pending", "Image", "Text", "Compact"}
  <2>1. CASE ~f.entry
    BY <2>1 DEF Classify
  <2>2. CASE f.entry /\ f.error
    BY <2>2 DEF Classify
  <2>3. CASE f.entry /\ ~f.error /\ f.mime = ""
    BY <2>3 DEF Classify
  <2>4. CASE f.entry /\ ~f.error /\ f.mime = "image"
    BY <2>4 DEF Classify
  <2>5. CASE f.entry /\ ~f.error /\ f.mime = "other"
    BY <2>5 DEF Classify
  <2> QED
    BY <1>1, <2>1, <2>2, <2>3, <2>4, <2>5
<1>3. Shown(f) \in {"None", "Pending", "Image", "Text", "Markdown", "Compact"}
  BY <1>2 DEF Shown
<1> QED
  BY <1>1, <1>3 DEF Settles, Sizes, Layouts

\* The nothing there is without a service.
LEMMA NothingIsNone ==
  Nothing \in Facts /\ Shown(Nothing) = "None" /\ ~Settles(Nothing)
<1>1. Nothing \in Facts /\ ~Nothing.entry /\ ~Nothing.markdown
  BY PresentationAssumption
<1>2. Classify(Nothing) = "None"
  BY <1>1 DEF Classify
<1> QED
  BY <1>1, <1>2 DEF Shown, Settles

\* After updateGeometry, the layout that was kept or the new one.
LEMMA GeometryIsOfNow ==
  ASSUME NEW before \in Layouts, NEW f \in Facts, NEW m, MeasuresOK(m),
         UpdateGeometry(before, f, m)
  PROVE  /\ kind' = Shown(f) /\ kind' \in {"None", "Pending", "Image", "Text", "Markdown", "Compact"}
         /\ Settles(f) => retained' = [kind |-> Shown(f), size |-> f.size]
         /\ ~Settles(f) => retained' = before
         /\ retained' \in Layouts
         /\ frame' = Frame(retained', m) /\ card' = Card(retained', m)
         /\ frame' \in Sizes /\ card' \in Sizes
<1>1. /\ Shown(f) \in {"None", "Pending", "Image", "Text", "Markdown", "Compact"}
      /\ Settles(f) => [kind |-> Shown(f), size |-> f.size] \in Layouts
  BY KindsOfCards
<1>2. kind' = Shown(f) /\ retained' = Retained(before, f) /\ frame' = Frame(retained', m) /\ card' = Card(retained', m)
  BY DEF UpdateGeometry
<1>3. /\ Settles(f) => retained' = [kind |-> Shown(f), size |-> f.size]
      /\ ~Settles(f) => retained' = before
  BY <1>2 DEF Retained, Settles
<1>4. retained' \in Layouts
  BY <1>1, <1>3
<1>5. Frame(retained', m) \in Sizes /\ Card(retained', m) \in Sizes
  BY <1>4, FrameFits, CardFits
<1> QED
  BY <1>1, <1>2, <1>3, <1>4, <1>5

\* The size to decode is a size.
LEMMA PixelsAreSizes ==
  ASSUME NEW m, MeasuresOK(m)
  PROVE  Pixels(m)[1] \in Nat /\ Pixels(m)[2] \in Nat
<1>1. PreviewBounds(m)[1] \in Nat /\ PreviewBounds(m)[2] \in Nat
  BY RoomForPreview
<1>2. m["dpr"] \in Nat
  BY DEF MeasuresOK
<1>3. ASSUME NEW x \in Nat PROVE (x * m["dpr"] + 5000) \div 10000 \in Nat
  <2>1. x * m["dpr"] \in Nat
    BY <1>2
  <2> QED
    BY <2>1
<1> QED
  BY <1>1, <1>3 DEF Pixels

\* And a pair.
LEMMA PixelsArePairs == ASSUME NEW m, MeasuresOK(m) PROVE Pixels(m) \in Sizes
<1>1. Pixels(m)[1] \in Nat /\ Pixels(m)[2] \in Nat
  BY PixelsAreSizes
<1>2. Pixels(m) = <<Pixels(m)[1], Pixels(m)[2]>>
  <2>1. Pixels(m) = [i \in 1 .. 2 |-> (PreviewBounds(m)[i] * m["dpr"] + 5000) \div 10000]
    BY DEF Pixels
  <2> QED
    BY <2>1
<1> QED
  BY <1>1, <1>2 DEF Sizes

\* After reportRequestedSize, if the size reported last was the service's.
LEMMA ReportIsOfNow ==
  ASSUME NEW ready \in BOOLEAN, NEW service \in Services \cup {NoService}, NEW m, MeasuresOK(m),
         NEW latest \in Sizes, requested \in [Services -> Sizes],
         service # NoService /\ latest # NoSize => requested[service] = latest,
         ReportRequestedSize(ready, service, m, latest)
  PROVE  /\ lastRequested' \in Sizes /\ requested' \in [Services -> Sizes]
         /\ service # NoService /\ lastRequested' # NoSize => requested'[service] = lastRequested'
         /\ ready /\ service # NoService /\ Pixels(m)[1] > 0 /\ Pixels(m)[2] > 0
              => requested'[service] = Pixels(m)
<1> DEFINE asks == /\ ready /\ service # NoService
                   /\ Pixels(m)[1] > 0 /\ Pixels(m)[2] > 0 /\ Pixels(m) # latest
<1>1. Pixels(m) \in Sizes
  BY PixelsArePairs
<1>2. CASE asks
  <2>1. lastRequested' = Pixels(m) /\ requested' = [requested EXCEPT ![service] = Pixels(m)] /\ service \in Services
    BY <1>2 DEF ReportRequestedSize
  <2> QED
    BY <1>1, <2>1
<1>3. CASE ~asks
  <2>1. lastRequested' = latest /\ requested' = requested
    BY <1>3 DEF ReportRequestedSize
  <2>2. Pixels(m)[1] > 0 /\ Pixels(m)[2] > 0 => Pixels(m) # NoSize
    BY DEF NoSize
  <2> QED
    BY <1>3, <2>1, <2>2
<1> QED
  BY <1>2, <1>3

\* What a setter takes is a measure.
LEMMA SettersCorrect ==
  ASSUME MeasuresOK(measure), NEW l \in Measures, NEW value \in Values[l]
  PROVE  MeasuresOK([measure EXCEPT ![l] = Normal(l, value)])
<1>1. CASE l = "window"
  <2>1. value \in Int \X Int
    BY <1>1, PresentationAssumption
  <2>2. Normal(l, value) = <<Larger(0, value[1]), Larger(0, value[2])>>
    BY <1>1 DEF Normal
  <2>3. Normal(l, value) \in Sizes
    BY <2>1, <2>2 DEF Larger, Sizes
  <2> QED
    BY <1>1, <2>3 DEF MeasuresOK, Measures, Lengths
<1>2. CASE l = "dpr"
  <2>1. value \in Int
    BY <1>2, PresentationAssumption
  <2>2. Normal(l, value) = IF value > 0 THEN value ELSE 100
    BY <1>2 DEF Normal
  <2>3. Normal(l, value) \in Nat \ {0}
    BY <2>1, <2>2
  <2> QED
    BY <1>2, <2>3 DEF MeasuresOK, Measures, Lengths
<1>3. CASE l \in Lengths
  <2>1. value \in Int /\ l # "window" /\ l # "dpr"
    BY <1>3, PresentationAssumption DEF Measures, Lengths
  <2>2. Normal(l, value) = Larger(0, value)
    BY <2>1 DEF Normal
  <2>3. Normal(l, value) \in Nat
    BY <2>1, <2>2 DEF Larger
  <2> QED
    BY <1>3, <2>1, <2>3 DEF MeasuresOK, Measures
<1> QED
  BY <1>1, <1>2, <1>3 DEF Measures

\* The same, of the variables.
LEMMA TypesOfCards ==
  ASSUME CardTypeOK
  PROVE  MeasuresOK(measure) /\ retained \in Layouts
  BY DEF CardTypeOK, MeasuresOK, Layouts

\* The card before any service.
LEMMA CardStarts == ASSUME CardInit PROVE CardInv
<1>1. /\ preview = NoService /\ facts = Nothing /\ turns = 0 /\ settled = FALSE /\ complete \in BOOLEAN
      /\ kind = "None" /\ retained = CompactLayout /\ card = <<0, 0>> /\ frame = <<0, 0>>
      /\ lastRequested = NoSize /\ requested = [s \in Services |-> NoSize]
  BY DEF CardInit, NoSize
<1>2. /\ DOMAIN measure = Measures /\ measure["window"] = <<0, 0>> /\ measure["dpr"] = 100
      /\ \A l \in Lengths : measure[l] = 0
  BY DEF CardInit, Measures, Lengths, NoSize
<1>3. MeasuresOK(measure)
  BY <1>2 DEF MeasuresOK, Sizes
<1>4. NoSize \in Sizes /\ <<0, 0>> \in Sizes /\ CompactLayout \in Layouts
  BY DEF NoSize, Sizes, CompactLayout, Layouts
<1>5. frame = Frame(retained, measure)
  BY <1>1, <1>2 DEF Frame, CompactLayout, Lengths
<1>6. card = Card(retained, measure)
  <2>1. Card(retained, measure) \in Sizes /\ 100 * Card(retained, measure)[1] <= 0 /\ 100 * Card(retained, measure)[2] <= 0
    BY <1>1, <1>2, <1>3, <1>4, CardFits
  <2>2. Card(retained, measure) = <<Card(retained, measure)[1], Card(retained, measure)[2]>>
    BY DEF Card
  <2>3. Card(retained, measure)[1] = 0 /\ Card(retained, measure)[2] = 0
    BY <2>1 DEF Sizes
  <2> QED
    BY <1>1, <2>2, <2>3
<1>7. Nothing \in Facts /\ Shown(Nothing) = "None" /\ ~Settles(Nothing)
  BY NothingIsNone
<1>8. turns \in 0 .. MaxMeasures
  <2>1. MaxMeasures \in Nat
    BY PresentationAssumption
  <2> QED
    BY <1>1, <2>1
<1>9. CardTypeOK
  BY <1>1, <1>2, <1>3, <1>4, <1>7, <1>8 DEF CardTypeOK, MeasuresOK, Layouts
<1> QED
  BY <1>1, <1>5, <1>6, <1>7, <1>9 DEF CardInv, RequestIsCurrent, CompactUntilSettled

\* What a step leaves, if it computed the geometry of now and reported the size.
LEMMA StepLeaves ==
  ASSUME NEW before \in Layouts,
         complete' \in BOOLEAN, settled' \in BOOLEAN, preview' \in Services \cup {NoService}, facts' \in Facts,
         preview' = NoService => facts' = Nothing,
         MeasuresOK(measure'), turns' \in 0 .. MaxMeasures,
         UpdateGeometry(before, facts', measure'),
         Settles(facts') => settled', ~settled' => before = CompactLayout,
         lastRequested' \in Sizes, requested' \in [Services -> Sizes],
         preview' # NoService /\ lastRequested' # NoSize => requested'[preview'] = lastRequested',
         complete' /\ preview' # NoService /\ Pixels(measure')[1] > 0 /\ Pixels(measure')[2] > 0
           => requested'[preview'] = Pixels(measure')
  PROVE  CardInv'
<1>1. /\ kind' = Shown(facts') /\ kind' \in {"None", "Pending", "Image", "Text", "Markdown", "Compact"}
      /\ Settles(facts') => retained' = [kind |-> Shown(facts'), size |-> facts'.size]
      /\ ~Settles(facts') => retained' = before
      /\ retained' \in Layouts
      /\ frame' = Frame(retained', measure') /\ card' = Card(retained', measure')
      /\ frame' \in Sizes /\ card' \in Sizes
  BY GeometryIsOfNow
<1>2. preview' = NoService => kind' = "None"
  BY <1>1, NothingIsNone
<1>3. CardTypeOK'
  BY <1>1, <1>2 DEF CardTypeOK, MeasuresOK, Layouts
<1>4. kind' = Shown(facts') /\ (Settles(facts') => settled')
  BY <1>1
<1>5. RequestIsCurrent'
  BY DEF RequestIsCurrent
<1>6. CompactUntilSettled'
  BY <1>1 DEF CompactUntilSettled
<1>7. (preview # NoService /\ lastRequested # NoSize => requested[preview] = lastRequested)'
  OBVIOUS
<1> QED
  BY <1>1, <1>3, <1>4, <1>5, <1>6, <1>7 DEF CardInv

\* Every setter, answer and new service keeps the card that of now.
LEMMA CardInvKept == ASSUME CardInv, [CardNext]_cardVars PROVE CardInv'
<1>1. /\ complete \in BOOLEAN /\ settled \in BOOLEAN
      /\ preview \in Services \cup {NoService} /\ facts \in Facts /\ (preview = NoService => facts = Nothing)
      /\ turns \in 0 .. MaxMeasures /\ lastRequested \in Sizes /\ requested \in [Services -> Sizes]
      /\ MeasuresOK(measure) /\ retained \in Layouts
  BY TypesOfCards DEF CardInv, CardTypeOK
<1>2. /\ Settles(facts) => settled
      /\ ~settled => retained = CompactLayout
      /\ preview # NoService /\ lastRequested # NoSize => requested[preview] = lastRequested
      /\ complete /\ preview # NoService /\ Pixels(measure)[1] > 0 /\ Pixels(measure)[2] > 0
           => requested[preview] = Pixels(measure)
  BY DEF CardInv, CompactUntilSettled, RequestIsCurrent
<1>3. NoSize \in Sizes /\ CompactLayout \in Layouts
  BY DEF NoSize, Sizes, CompactLayout, Layouts
<1>4. CASE UNCHANGED cardVars
  <2>1. UNCHANGED <<complete, preview, facts, measure, turns, kind, retained, card, frame, lastRequested, requested, settled>>
    BY <1>4 DEF cardVars, outputs, requests
  <2> QED
    BY <2>1 DEF CardInv, CardTypeOK, RequestIsCurrent, CompactUntilSettled
<1>5. CASE ComponentComplete
  <2>1. /\ complete' = TRUE /\ UNCHANGED <<preview, facts, measure, turns, settled>>
        /\ UpdateGeometry(retained, facts', measure')
        /\ ReportRequestedSize(TRUE, preview, measure, lastRequested)
    BY <1>5 DEF ComponentComplete
  <2>2. /\ lastRequested' \in Sizes /\ requested' \in [Services -> Sizes]
        /\ preview # NoService /\ lastRequested' # NoSize => requested'[preview] = lastRequested'
        /\ preview # NoService /\ Pixels(measure)[1] > 0 /\ Pixels(measure)[2] > 0
             => requested'[preview] = Pixels(measure)
    BY <1>1, <1>2, <2>1, ReportIsOfNow
  <2> QED
    BY <1>1, <1>2, <2>1, <2>2, StepLeaves
<1>6. CASE PreviewDestroyed
  <2>1. /\ preview' = NoService /\ facts' = Nothing /\ settled' = FALSE /\ preview \in Services
        /\ UpdateGeometry(CompactLayout, facts', measure')
        /\ lastRequested' = NoSize /\ requested' = [requested EXCEPT ![preview] = NoSize]
        /\ UNCHANGED <<complete, measure, turns>>
    BY <1>1, <1>6 DEF PreviewDestroyed
  <2>2. requested' \in [Services -> Sizes]
    BY <1>1, <1>3, <2>1
  <2>3. Nothing \in Facts /\ ~Settles(Nothing)
    BY NothingIsNone
  <2> QED
    BY <1>1, <1>3, <2>1, <2>2, <2>3, StepLeaves
<1>7. ASSUME NEW s \in Services \cup {NoService}, NEW f \in Facts, SetPreview(s, f) PROVE CardInv'
  <2>1. /\ preview' = s /\ facts' = f /\ settled' = Settles(f) /\ (s = NoService => f = Nothing)
        /\ UpdateGeometry(CompactLayout, facts', measure')
        /\ ReportRequestedSize(complete, s, measure, NoSize)
        /\ UNCHANGED <<complete, measure, turns>>
    BY <1>7 DEF SetPreview, ResetPreviewState
  <2>2. /\ lastRequested' \in Sizes /\ requested' \in [Services -> Sizes]
        /\ s # NoService /\ lastRequested' # NoSize => requested'[s] = lastRequested'
        /\ complete /\ s # NoService /\ Pixels(measure)[1] > 0 /\ Pixels(measure)[2] > 0
             => requested'[s] = Pixels(measure)
    BY <1>1, <1>3, <2>1, ReportIsOfNow
  <2>3. Settles(f) \in BOOLEAN
    BY DEF Settles
  <2> QED
    BY <1>1, <1>3, <2>1, <2>2, <2>3, StepLeaves
<1>8. ASSUME NEW f \in Facts, PreviewChanged(f) PROVE CardInv'
  <2>1. /\ preview # NoService /\ facts' = f /\ settled' = (settled \/ Settles(f))
        /\ UpdateGeometry(retained, facts', measure')
        /\ UNCHANGED <<complete, preview, measure, turns, lastRequested, requested>>
    BY <1>8 DEF PreviewChanged, requests
  <2>2. Settles(f) \in BOOLEAN
    BY DEF Settles
  <2>3. settled' \in BOOLEAN /\ (Settles(facts') => settled') /\ (~settled' => retained = CompactLayout)
    BY <1>1, <1>2, <2>1, <2>2
  <2> QED
    BY <1>1, <1>2, <2>1, <2>3, StepLeaves
<1>9. ASSUME NEW l \in Measures, NEW value \in Values[l], SetMeasure(l, value) PROVE CardInv'
  <2>1. /\ turns < MaxMeasures /\ turns' = turns + 1
        /\ measure' = [measure EXCEPT ![l] = Normal(l, value)]
        /\ UpdateGeometry(retained, facts', measure')
        /\ ReportRequestedSize(complete, preview, measure', lastRequested)
        /\ UNCHANGED <<complete, preview, facts, settled>>
    BY <1>9 DEF SetMeasure
  <2>2. MeasuresOK(measure')
    BY <1>1, <2>1, SettersCorrect
  <2>3. /\ lastRequested' \in Sizes /\ requested' \in [Services -> Sizes]
        /\ preview # NoService /\ lastRequested' # NoSize => requested'[preview] = lastRequested'
        /\ complete /\ preview # NoService /\ Pixels(measure')[1] > 0 /\ Pixels(measure')[2] > 0
             => requested'[preview] = Pixels(measure')
    BY <1>1, <1>2, <2>1, <2>2, ReportIsOfNow
  <2>4. turns' \in 0 .. MaxMeasures
    <3>1. MaxMeasures \in Nat
      BY PresentationAssumption
    <3> QED
      BY <1>1, <2>1, <3>1
  <2> QED
    BY <1>1, <1>2, <2>1, <2>2, <2>3, <2>4, StepLeaves
<1> QED
  BY <1>4, <1>5, <1>6, <1>7, <1>8, <1>9 DEF CardNext

\* While nothing new is settled, and neither service nor measures change, the card stays.
LEMMA PendingLeavesCard ==
  ASSUME CardInv, [CardNext]_cardVars,
         kind' \in {"Pending", "None"}, preview' = preview, measure' = measure
  PROVE  card' = card /\ frame' = frame
<1>1. CardInv'
  BY CardInvKept
<1>2. ~Settles(facts')
  BY <1>1 DEF CardInv, Settles
<1>3. frame = Frame(retained, measure) /\ card = Card(retained, measure)
  BY DEF CardInv
<1>4. CASE UNCHANGED cardVars
  BY <1>4 DEF cardVars, outputs
<1>5. ASSUME UpdateGeometry(retained, facts', measure) PROVE card' = card /\ frame' = frame
  <2>1. retained' = retained
    BY <1>2, <1>5 DEF UpdateGeometry, Retained, Settles
  <2> QED
    BY <1>3, <1>5, <2>1 DEF UpdateGeometry
<1>6. CASE ComponentComplete
  <2>1. UpdateGeometry(retained, facts', measure)
    BY <1>6 DEF ComponentComplete
  <2> QED
    BY <1>5, <2>1
<1>7. ~PreviewDestroyed
  BY DEF PreviewDestroyed
<1>8. ASSUME NEW s \in Services \cup {NoService}, NEW f \in Facts, SetPreview(s, f) PROVE FALSE
  BY <1>8 DEF SetPreview
<1>9. ASSUME NEW f \in Facts, PreviewChanged(f) PROVE card' = card /\ frame' = frame
  <2>1. UpdateGeometry(retained, facts', measure)
    BY <1>9 DEF PreviewChanged
  <2> QED
    BY <1>5, <2>1
<1>10. ASSUME NEW l \in Measures, NEW value \in Values[l], SetMeasure(l, value) PROVE FALSE
  <2>1. measure' = [measure EXCEPT ![l] = Normal(l, value)] /\ Normal(l, value) # measure[l]
    BY <1>10 DEF SetMeasure
  <2>2. DOMAIN measure = Measures
    BY DEF CardInv, CardTypeOK
  <2> QED
    BY <2>1, <2>2
<1> QED
  BY <1>4, <1>6, <1>7, <1>8, <1>9, <1>10 DEF CardNext

\* Whatever was shown, bound and attached before, and in whichever order, the card is
\* right for the service attached and the measures of now, and the service has been asked
\* for a picture of this size (updateGeometry, reportRequestedSize, resetPreviewState).
THEOREM CardFollows == CardSpec => CardIsCurrent
<1>1. CardInit => CardInv
  BY CardStarts
<1>2. CardInv /\ [CardNext]_cardVars => CardInv'
  BY CardInvKept
<1>3. CardInv => NothingIsClipped
  <2> SUFFICES ASSUME CardInv PROVE NothingIsClipped
    OBVIOUS
  <2>1. MeasuresOK(measure) /\ retained \in Layouts
    BY TypesOfCards DEF CardInv
  <2>2. frame = Frame(retained, measure) /\ card = Card(retained, measure)
    BY DEF CardInv
  <2>3. /\ 100 * card[1] <= 92 * measure["window"][1]
        /\ 100 * card[2] <= 92 * measure["window"][2]
        /\ retained.kind # "Compact" =>
              /\ frame[1] > 0 => frame[1] + Margins(measure)[1] <= card[1]
              /\ frame[2] > 0 => frame[2] + Margins(measure)[2] <= card[2]
    BY <2>1, <2>2, CardFits
  <2>4. \A i \in 1..2 : i = 1 \/ i = 2
    OBVIOUS
  <2> QED
    BY <2>3, <2>4 DEF NothingIsClipped
<1>4. CardInv => CardTypeOK /\ RequestIsCurrent /\ CompactUntilSettled
  BY DEF CardInv
<1>5. CardInv /\ [CardNext]_cardVars =>
        (kind' \in {"Pending", "None"} /\ preview' = preview /\ measure' = measure
           => card' = card /\ frame' = frame)
  BY PendingLeavesCard
<1> QED
  BY <1>1, <1>2, <1>3, <1>4, <1>5, PTL DEF CardSpec, CardIsCurrent, SteadyWhilePending
=============================================================================
