------------------------- MODULE QuickLookPresentation -------------------------
(***************************************************************************)
(* The layout of the Quick Look card: QuickLookPresentationModel of        *)
(* apps/files.  It follows the preview service it is attached to and the   *)
(* measures QML binds, computes the sizes of card and frame, and tells the *)
(* service how large a picture to decode.  All of it runs on the GUI       *)
(* thread; the service and the bindings call in any order.                 *)
(*                                                                         *)
(* Lengths are whole pixels, bounds and the pixel ratio hundredths.        *)
(***************************************************************************)
EXTENDS Integers

CONSTANTS
  Services, NoService,   \* preview services, and no service
  Facts, Nothing,        \* what a service may say of the selection; no selection
  Values,                \* for each measure the values QML may bind
  MaxMeasures            \* how often a measure turns

\* Measures other than the window's size and the pixel ratio.
Lengths == {"padding", "reserve", "gap", "minimum", "icon", "hint"}
Measures == Lengths \cup {"window", "dpr"}
NoSize == <<0, 0>>

ASSUME PresentationAssumption ==
  /\ NoService \notin Services /\ Nothing \in Facts
  /\ \A f \in Facts :
       /\ f.entry \in BOOLEAN /\ f.busy \in BOOLEAN /\ f.text \in BOOLEAN
       /\ f.error \in BOOLEAN /\ f.markdown \in BOOLEAN
       /\ f.mime \in {"", "image", "other"} /\ f.size \in Nat \X Nat
  /\ ~Nothing.entry /\ ~Nothing.markdown
  /\ DOMAIN Values = Measures
  /\ Values.window \subseteq Int \X Int
  /\ \A m \in Measures \ {"window"} : Values[m] \subseteq Int
  /\ MaxMeasures \in Nat

VARIABLES
  complete,               \* component_complete_
  preview, facts,         \* preview_ and what it says
  measure, turns,       \* the measures, and how often they have changed
  kind, retained,         \* kind_; retained_kind_ and retained_source_size_
  card, frame,            \* card_size_, frame_size_
  lastRequested,          \* last_requested_size_
  requested,              \* of each service: the size Quick Look asked it for
  settled                 \* history: whether preview has shown something settled

outputs == <<kind, retained, card, frame>>
requests == <<lastRequested, requested>>
cardVars == <<complete, preview, facts, measure, turns, outputs, requests, settled>>

-----------------------------------------------------------------------------
(* The formulas.                                                           *)

Larger(a, b) == IF a >= b THEN a ELSE b
Smaller(a, b) == IF a <= b THEN a ELSE b
Floor(hundredths) == hundredths \div 100

\* What a setter makes of a value: a length is not negative, a ratio positive.
Normal(m, value) ==
  CASE m = "window" -> <<Larger(0, value[1]), Larger(0, value[2])>>
    [] m = "dpr" -> IF value > 0 THEN value ELSE 100
    [] OTHER -> Larger(0, value)

\* An empty MIME type is a selection not classified yet.
Classify(f) ==
  CASE ~f.entry -> "None"
    [] f.entry /\ f.error -> "Compact"
    [] f.entry /\ ~f.error /\ f.mime = "" -> "Pending"
    [] f.entry /\ ~f.error /\ f.mime = "image" -> "Image"
    [] f.entry /\ ~f.error /\ f.mime = "other" ->
         IF f.text THEN "Text" ELSE IF f.busy THEN "Pending" ELSE "Compact"

Shown(f) == IF f.markdown /\ ~f.error THEN "Markdown" ELSE Classify(f)

\* The layout kept while there is nothing settled to show.
Retained(before, f) ==
  IF Shown(f) \in {"Pending", "None"} THEN before ELSE [kind |-> Shown(f), size |-> f.size]

Bounds(m) == <<92 * m.window[1], 92 * m.window[2]>>
Margins(m) == <<2 * m.padding, 2 * m.padding + m.gap + m.reserve>>

\* What is left for the frame.
PreviewBounds(m) ==
  [i \in 1..2 |-> Larger(0, Bounds(m)[i] - 100 * Margins(m)[i])]

\* QSizeF::scaled with the aspect ratio kept.
Scaled(size, bounds) ==
  LET width == (bounds[2] * size[1]) \div size[2]
  IN IF width <= bounds[1] THEN <<width, bounds[2]>>
     ELSE <<bounds[1], (bounds[1] * size[2]) \div size[1]>>

Frame(layout, m) ==
  LET bounds == PreviewBounds(m)
      sized == layout.kind = "Image" /\ layout.size[1] > 0 /\ layout.size[2] > 0
      fitted == IF ~sized THEN bounds
                ELSE IF bounds[1] = 0 \/ bounds[2] = 0 THEN NoSize
                ELSE Scaled(layout.size, bounds)
  IN IF layout.kind = "Compact" THEN <<m.icon, m.icon>>
     ELSE <<Floor(fitted[1]), Floor(fitted[2])>>

Card(layout, m) ==
  LET content == Frame(layout, m)
      hint == IF layout.kind = "Compact" THEN m.hint + 2 * m.padding ELSE 0
      width == Larger(Larger(m.minimum, hint), content[1] + Margins(m)[1])
      height == content[2] + Margins(m)[2]
  IN <<Floor(Smaller(Bounds(m)[1], 100 * width)), Floor(Smaller(Bounds(m)[2], 100 * height))>>

\* The size to decode, rounded.
Pixels(m) == [i \in 1..2 |-> (PreviewBounds(m)[i] * m.dpr + 5000) \div 10000]

-----------------------------------------------------------------------------

\* From the layout before, for what the service says and the measures now.
UpdateGeometry(before, f, m) ==
  LET layout == Retained(before, f)
  IN /\ kind' = Shown(f) /\ retained' = layout
     /\ frame' = Frame(layout, m) /\ card' = Card(layout, m)

ReportRequestedSize(ready, service, m, last) ==
  IF /\ ready /\ service # NoService
     /\ Pixels(m)[1] > 0 /\ Pixels(m)[2] > 0 /\ Pixels(m) # last
  THEN /\ lastRequested' = Pixels(m)
       /\ requested' = [requested EXCEPT ![service] = Pixels(m)]
  ELSE lastRequested' = last /\ UNCHANGED requested

CompactLayout == [kind |-> "Compact", size |-> NoSize]

\* A service, or none, takes the place of the last one (mutant: the size asked
\* for last is kept).
ResetKeepingRequest(service, f) ==
  /\ UpdateGeometry(CompactLayout, f, measure)
  /\ ReportRequestedSize(complete, service, measure, lastRequested)
ResetPreviewState(service, f) ==
  /\ UpdateGeometry(CompactLayout, f, measure)
  /\ ReportRequestedSize(complete, service, measure, NoSize)

Settles(f) == Shown(f) \notin {"Pending", "None"}

\* Made by QML, which completes it after its bindings, or by C++, complete at once.
CardInit ==
  /\ complete \in BOOLEAN
  /\ preview = NoService /\ facts = Nothing
  /\ measure = [m \in Measures |->
                  CASE m = "window" -> NoSize [] m = "dpr" -> 100 [] OTHER -> 0]
  /\ turns = 0
  /\ kind = "None" /\ retained = CompactLayout /\ card = NoSize /\ frame = NoSize
  /\ lastRequested = NoSize /\ requested = [s \in Services |-> NoSize]
  /\ settled = FALSE

ComponentComplete ==
  /\ complete' = TRUE
  /\ UpdateGeometry(retained, facts, measure)
  /\ ReportRequestedSize(TRUE, preview, measure, lastRequested)
  /\ UNCHANGED <<preview, facts, measure, turns, settled>>

SetPreview(service, f) ==
  /\ service # preview
  /\ service = NoService => f = Nothing
  /\ preview' = service /\ facts' = f /\ settled' = Settles(f)
  /\ ResetPreviewState(service, f)
  /\ UNCHANGED <<complete, measure, turns>>

\* A service is destroyed; another one may be made in its place.
PreviewDestroyed ==
  /\ preview # NoService
  /\ preview' = NoService /\ facts' = Nothing /\ settled' = FALSE
  /\ UpdateGeometry(CompactLayout, Nothing, measure)
  /\ lastRequested' = NoSize /\ requested' = [requested EXCEPT ![preview] = NoSize]
  /\ UNCHANGED <<complete, measure, turns>>

\* The service emits changed.
PreviewChanged(f) ==
  /\ preview # NoService
  /\ facts' = f /\ settled' = (settled \/ Settles(f))
  /\ UpdateGeometry(retained, f, measure)
  /\ UNCHANGED <<complete, preview, measure, turns, requests>>

\* A binding of QML: one of the setters, and inputsUpdated.
SetMeasure(m, value) ==
  /\ turns < MaxMeasures /\ turns' = turns + 1
  /\ Normal(m, value) # measure[m]
  /\ measure' = [measure EXCEPT ![m] = Normal(m, value)]
  /\ UpdateGeometry(retained, facts, measure')
  /\ ReportRequestedSize(complete, preview, measure', lastRequested)
  /\ UNCHANGED <<complete, preview, facts, settled>>

CardNext ==
  \/ ComponentComplete
  \/ PreviewDestroyed
  \/ \E s \in Services \cup {NoService}, f \in Facts : SetPreview(s, f)
  \/ \E f \in Facts : PreviewChanged(f)
  \/ \E m \in Measures : \E value \in Values[m] : SetMeasure(m, value)

CardSpec == CardInit /\ [][CardNext]_cardVars

-----------------------------------------------------------------------------
(* Properties.                                                             *)

Sizes == Nat \X Nat

\* The types of the variables, and no facts without a service.
CardTypeOK ==
  /\ complete \in BOOLEAN /\ settled \in BOOLEAN
  /\ preview \in Services \cup {NoService} /\ facts \in Facts
  /\ preview = NoService => facts = Nothing /\ kind = "None"
  /\ DOMAIN measure = Measures /\ measure.window \in Sizes /\ measure.dpr \in Nat \ {0}
  /\ \A m \in Lengths : measure[m] \in Nat
  /\ turns \in 0..MaxMeasures
  /\ kind \in {"None", "Pending", "Image", "Text", "Markdown", "Compact"}
  /\ retained \in [kind : {"Image", "Text", "Markdown", "Compact"}, size : Sizes]
  /\ card \in Sizes /\ frame \in Sizes /\ lastRequested \in Sizes
  /\ requested \in [Services -> Sizes]

\* The service attached has been asked for the size there is room for now, whichever
\* services came before it and whatever sizes were asked of them or of it, unless
\* there is no room (reportRequestedSize and its cache, REQ-005).
RequestIsCurrent ==
  complete /\ preview # NoService /\ Pixels(measure)[1] > 0 /\ Pixels(measure)[2] > 0
    => requested[preview] = Pixels(measure)

\* The card never exceeds 92% of the window, and a frame of the full layout fits into
\* it with its margins and the caption, also while the bindings arrive one by one
\* (previewBounds and updateGeometry, REQ-004).
NothingIsClipped ==
  /\ \A i \in 1..2 : 100 * card[i] <= 92 * measure.window[i]
  /\ retained.kind # "Compact" =>
       \A i \in 1..2 : frame[i] > 0 => frame[i] + Margins(measure)[i] <= card[i]

\* Until the service attached has shown something, the card is compact: nothing is left
\* of the last one (resetPreviewState, REQ-003 and REQ-006).
CompactUntilSettled == ~settled => retained = CompactLayout

\* A selection that is pending, or goes, leaves the card as it is while neither the
\* service nor a measure changes (updateGeometry's retained fields, REQ-003).
SteadyWhilePending ==
  [][ kind' \in {"Pending", "None"} /\ preview' = preview /\ measure' = measure
        => card' = card /\ frame' = frame ]_cardVars

\* Whatever was shown, bound and attached before, the card is right for the service
\* attached and the measures of now.
CardIsCurrent ==
  /\ [](CardTypeOK /\ RequestIsCurrent /\ NothingIsClipped /\ CompactUntilSettled)
  /\ SteadyWhilePending
=============================================================================
