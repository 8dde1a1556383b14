------------------------------- MODULE MCParts -------------------------------
(* Instances for TLC of four components that share nothing with each other:   *)
(* Preferences, the jump list, the drop area and the Quick Look card.  One of *)
(* them runs in each behaviour, the others stand still.                       *)
EXTENDS Preferences, JumpList, DragAndDrop, QuickLookPresentation

VARIABLE part   \* the one that runs

-----------------------------------------------------------------------------
(* Preferences.                                                            *)

TwoProfiles == <<"config-labwc", "config-other">>

-----------------------------------------------------------------------------
(* Drags.                                                                  *)

Http == <<"http">>
Stick == <<"stick", "x">>

\* A file that may only be copied, and a batch that is not all local.
SomeOffers ==
  { [urls |-> {Stick}, supported |-> {"copy"}],
    [urls |-> {Stick, Http}, supported |-> {"copy", "move"}] }

-----------------------------------------------------------------------------
(* The card.                                                               *)

NoFacts == [entry |-> FALSE, busy |-> FALSE, mime |-> "", text |-> FALSE,
            error |-> FALSE, markdown |-> FALSE, size |-> <<0, 0>>]
Selection(mime) == [NoFacts EXCEPT !.entry = TRUE, !.mime = mime]

\* A selection on its way: not classified, being read, settled; two pictures, one
\* whose size is not known, and an error.
SomeFacts ==
  { NoFacts,
    Selection(""),
    [Selection("other") EXCEPT !.busy = TRUE],
    Selection("other"),
    [Selection("other") EXCEPT !.text = TRUE],
    [Selection("other") EXCEPT !.markdown = TRUE],
    [Selection("other") EXCEPT !.markdown = TRUE, !.error = TRUE],
    Selection("image"),
    [Selection("image") EXCEPT !.size = <<600, 400>>],
    [Selection("image") EXCEPT !.size = <<100, 1000>>] }

\* The measures of quick_look_presentation_model_test, and what a setter corrects or refuses.
SomeValues ==
  [ window |-> {<<1001, 801>>, <<30, 120>>, <<-1, 0>>}, dpr |-> {150, 0},
    padding |-> {10, -1}, reserve |-> {42}, gap |-> {8},
    minimum |-> {240}, icon |-> {96}, hint |-> {400} ]

-----------------------------------------------------------------------------
\* Those that stand still have one state.
PartsInit ==
  /\ PreferencesInit /\ JumpListInit /\ DragInit /\ CardInit
  /\ part \in {"preferences", "jumps", "area", "card"}
  /\ part # "preferences" => ~directory
  /\ part # "area" => folder = "home"
  /\ part # "card" => complete

PartsNext ==
  /\ part' = part
  /\ \/ part = "preferences" /\ PreferencesNext /\ UNCHANGED <<jumps, dragVars, cardVars>>
     \/ part = "jumps" /\ JumpListNext /\ UNCHANGED <<preferences, dragVars, cardVars>>
     \/ part = "area" /\ DragNext /\ UNCHANGED <<preferences, jumps, cardVars>>
     \/ part = "card" /\ CardNext /\ UNCHANGED <<preferences, jumps, dragVars>>

PartsSpec == PartsInit /\ [][PartsNext]_<<preferences, jumps, dragVars, cardVars, part>>
=============================================================================
