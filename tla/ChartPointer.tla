---------------------------- MODULE ChartPointer ----------------------------
(***************************************************************************)
(* The pointer over a chart of packages/ui: useChartInteraction (and the   *)
(* scatter chart's copy of it) over useScheduledTooltip, and the marks     *)
(* that follow the hover state: tooltip, date ticker, highlight segment,   *)
(* dimmed series.                                                          *)
(*                                                                         *)
(* Pixels and times are one scale 0..Width, as under a fixed xDomain.  A   *)
(* data version is the sequence of its points' times; two versions may     *)
(* have the same times and different values.  `hand' is what the user      *)
(* really does; the handlers hear of it only while canInteract.  `missed'  *)
(* says that a gesture happened while they were detached.                  *)
(***************************************************************************)
EXTENDS Integers, Sequences

CONSTANTS Series,       \* data versions, each a sequence of times
          Width,        \* inner width of the plot
          BoxWidth, BoxOffset,   \* the tooltip box and its distance from x
          MaxGestures

VARIABLES variant,      \* "series" re-anchors on new data, "scatter" does not
          version, interactive,
          hand,         \* [x, down, touches]
          tip,          \* tooltipData
          lastKey, queued, raf,      \* useScheduledTooltip's refs
          hoverX, dragging, dragX, selection, anchored, missed, gestures

pointerVars == <<variant, version, interactive, hand, tip, lastKey, queued, raf,
                 hoverX, dragging, dragX, selection, anchored, missed, gestures>>

Nil == <<>>
Out == 0 - 1            \* the pointer is not over the plot
Pixels == 0..Width
Times == Series[version]
Versions == 1..Len(Series)

abs(n) == IF n < 0 THEN 0 - n ELSE n

\* d3's bisector: the first index from 1 on whose time is not before t.
bisectDate(s, t) ==
  CHOOSE i \in 1..Len(s) : /\ i = Len(s) \/ s[i + 1] >= t
                           /\ \A j \in 1..(i - 1) : s[j + 1] < t

resolveIndexFromX(x) ==
  LET s == Times
      i == bisectDate(s, x)
  IN  IF s = <<>> THEN 0
      ELSE IF i < Len(s) /\ x - s[i] > s[i + 1] - x THEN i ELSE i - 1

resolveTooltipFromX(x) ==
  LET i == resolveIndexFromX(x)
  IN  IF Times = <<>> THEN Nil ELSE [index |-> i, x |-> Times[i + 1], version |-> version]

defaultDedupeKey(t) == <<t.index, t.x>>

(***************************************************************************)
(* useScheduledTooltip                                                     *)
(***************************************************************************)

scheduleTooltip(t) ==
  /\ queued' = t
  /\ raf' = (raf \/ defaultDedupeKey(t) # lastKey)
  /\ UNCHANGED <<tip, lastKey>>

clearTooltip ==
  /\ raf' = FALSE /\ queued' = Nil /\ lastKey' = Nil /\ tip' = Nil

showAt(x) ==
  IF resolveTooltipFromX(x) = Nil THEN UNCHANGED <<tip, lastKey, queued, raf>>
                                  ELSE scheduleTooltip(resolveTooltipFromX(x))

commitTooltip ==
  /\ raf
  /\ raf' = FALSE
  /\ IF queued = Nil \/ defaultDedupeKey(queued) = lastKey
       THEN UNCHANGED <<tip, lastKey>>
       ELSE tip' = queued /\ lastKey' = defaultDedupeKey(queued)
  /\ UNCHANGED <<variant, version, interactive, hand, queued, hoverX, dragging, dragX,
                 selection, anchored, missed, gestures>>

(***************************************************************************)
(* Gestures and their handlers.                                            *)
(***************************************************************************)

PointerInit ==
  /\ variant \in {"series", "scatter"} /\ version = 1 /\ interactive = TRUE
  /\ hand = [x |-> Out, down |-> FALSE, touches |-> 0]
  /\ tip = Nil /\ lastKey = Nil /\ queued = Nil /\ raf = FALSE
  /\ hoverX = Nil /\ dragging = FALSE /\ dragX = 0 /\ selection = Nil
  /\ anchored = TRUE /\ missed = FALSE /\ gestures = 0

Gesture(next) ==
  /\ gestures < MaxGestures
  /\ gestures' = gestures + 1
  /\ hand' = next
  /\ UNCHANGED <<variant, version, interactive, anchored>>

Unheard ==
  /\ missed' = TRUE
  /\ UNCHANGED <<tip, lastKey, queued, raf, hoverX, dragging, dragX, selection>>

rangeOf(a, b) ==
  LET lo == IF a < b THEN a ELSE b
      hi == IF a < b THEN b ELSE a
  IN  [startX |-> lo, endX |-> hi,
       startIndex |-> resolveIndexFromX(lo), endIndex |-> resolveIndexFromX(hi)]

anchorAt(x) == hoverX' = IF variant = "series" THEN <<x>> ELSE Nil

handleMouseMove ==
  \E x \in Pixels :
    /\ hand.touches = 0
    /\ Gesture([hand EXCEPT !.x = x])
    /\ IF ~interactive THEN Unheard
       ELSE /\ UNCHANGED <<dragging, dragX, missed>>
            /\ IF dragging
                 THEN /\ selection' = rangeOf(dragX, x)
                      /\ UNCHANGED <<hoverX, tip, lastKey, queued, raf>>
                 ELSE /\ anchorAt(x) /\ showAt(x)
                      /\ UNCHANGED selection

handleMouseLeave ==
  /\ hand.x # Out /\ hand.touches = 0
  /\ Gesture([hand EXCEPT !.x = Out, !.down = FALSE])
  /\ IF ~interactive THEN Unheard
     ELSE /\ hoverX' = Nil /\ clearTooltip
          /\ dragging' = FALSE /\ selection' = Nil
          /\ UNCHANGED <<dragX, missed>>

handleMouseDown ==
  /\ hand.x # Out /\ ~hand.down /\ hand.touches = 0
  /\ Gesture([hand EXCEPT !.down = TRUE])
  /\ IF ~interactive THEN Unheard
     ELSE /\ dragging' = TRUE /\ dragX' = hand.x
          /\ clearTooltip /\ selection' = Nil
          /\ UNCHANGED <<hoverX, missed>>

handleMouseUp ==
  /\ hand.down
  /\ Gesture([hand EXCEPT !.down = FALSE])
  /\ IF ~interactive THEN Unheard
     ELSE /\ dragging' = FALSE /\ selection' = Nil
          /\ UNCHANGED <<tip, lastKey, queued, raf, hoverX, dragX, missed>>

\* touchstart with one finger, and every one-finger touchmove.
handleTouchOne ==
  \E x \in Pixels :
    /\ ~hand.down /\ hand.touches \in {0, 1}
    /\ Gesture([x |-> x, down |-> FALSE, touches |-> 1])
    /\ IF ~interactive THEN Unheard
       ELSE /\ anchorAt(x) /\ showAt(x)
            /\ UNCHANGED <<dragging, dragX, selection, missed>>

handleTouchTwo ==
  \E a, b \in Pixels :
    /\ hand.touches \in {1, 2}
    /\ Gesture([hand EXCEPT !.touches = 2])
    /\ IF ~interactive THEN Unheard
       ELSE /\ IF hand.touches = 1 THEN clearTooltip
                                   ELSE UNCHANGED <<tip, lastKey, queued, raf>>
            /\ selection' = rangeOf(a, b)
            /\ UNCHANGED <<hoverX, dragging, dragX, missed>>

handleTouchEnd ==
  /\ hand.touches > 0
  /\ Gesture([hand EXCEPT !.x = Out, !.touches = 0])
  /\ IF ~interactive THEN Unheard
     ELSE /\ clearTooltip /\ selection' = Nil
          /\ UNCHANGED <<hoverX, dragging, dragX, missed>>

\* New data, or canInteract turning, re-runs the anchoring effect.
newData ==
  /\ version < Len(Series)
  /\ version' = version + 1 /\ anchored' = FALSE
  /\ UNCHANGED <<variant, interactive, hand, tip, lastKey, queued, raf, hoverX,
                 dragging, dragX, selection, missed, gestures>>

setCanInteract ==
  /\ gestures < MaxGestures /\ gestures' = gestures + 1
  /\ interactive' = ~interactive /\ anchored' = FALSE
  /\ UNCHANGED <<variant, version, hand, tip, lastKey, queued, raf, hoverX, dragging,
                 dragX, selection, missed>>

anchorEffect ==
  /\ ~anchored
  /\ anchored' = TRUE
  /\ IF interactive /\ hoverX # Nil
       THEN IF Times = <<>> THEN clearTooltip ELSE showAt(hoverX[1])
       ELSE UNCHANGED <<tip, lastKey, queued, raf>>
  /\ UNCHANGED <<variant, version, interactive, hand, hoverX, dragging, dragX, selection,
                 missed, gestures>>

PointerNext ==
  \/ commitTooltip \/ handleMouseMove \/ handleMouseLeave \/ handleMouseDown
  \/ handleMouseUp \/ handleTouchOne \/ handleTouchTwo \/ handleTouchEnd
  \/ newData \/ setCanInteract \/ anchorEffect

PointerSpec == PointerInit /\ [][PointerNext]_pointerVars

(***************************************************************************)
(* The marks that follow the hover state.                                  *)
(***************************************************************************)

Clamp(n, lo, hi) == IF n < lo THEN lo ELSE IF n > hi THEN hi ELSE n

\* The highlighted stretch <<from, to>>, or Nil when nothing is highlighted.
computeSegmentBounds ==
  LET last == Len(Times) - 1
      from == Clamp(tip.index - 1, 0, tip.index)
      to == Clamp(tip.index + 1, 0, last)
  IN  CASE selection # Nil -> <<selection.startX, selection.endX>>
        [] selection = Nil /\ tip = Nil -> Nil
        [] OTHER -> IF from > last THEN Nil ELSE <<Times[from + 1], Times[to + 1]>>

\* Every series dims while the chart is hovered or a range is selected.
SeriesHoverDim == tip # Nil \/ selection # Nil

\* The index whose label the date ticker shows.
DateTicker == IF tip.index < Len(Times) THEN tip.index ELSE 0

\* Left edge of the tooltip box in a container as wide as the plot.
TooltipBox(x) ==
  IF x + BoxWidth + BoxOffset > Width THEN x - BoxOffset - BoxWidth ELSE x + BoxOffset

(***************************************************************************)
(* Properties.                                                             *)
(***************************************************************************)

PointerTypeOK ==
  /\ version \in Versions /\ hand.x \in Pixels \cup {Out} /\ hand.touches \in 0..2
  /\ tip = Nil \/ tip.index \in 0..10
  /\ selection = Nil \/ selection.startX \in Pixels

Nearest(x, i) == \A j \in 1..Len(Times) : abs(x - Times[i + 1]) <= abs(x - Times[j])

\* With the mouse resting over a time-series chart, no frame due and no effect
\* to run, the tooltip names a point of the data now drawn, no other point of
\* which lies nearer the pointer: bisectDate with the comparison of both
\* neighbours (resolveTooltipFromX), kept up by the anchoring effect.
TooltipUnderPointer ==
  /\ variant = "series" /\ interactive /\ anchored /\ ~raf /\ ~missed
  /\ hand.x # Out /\ hand.touches = 0 /\ hoverX = <<hand.x>> /\ tip # Nil
  => tip.index < Len(Times) /\ tip.x = Times[tip.index + 1] /\ Nearest(hand.x, tip.index)

\* A tooltip of a time-series chart is one the pointer's last position anchors:
\* a frame asked for before the pointer left shows nothing after it
\* (clearTooltip cancels the animation frame and forgets what it would show).
TooltipHasAnchor ==
  variant = "series" /\ tip # Nil => hoverX # Nil

\* A drag lasts no longer than the button is held, and a selection no longer
\* than the drag or the second finger that made it, as long as no gesture went
\* unheard (handleMouseUp, handleMouseLeave, handleTouchEnd).
SelectionNeedsGesture ==
  ~missed => /\ dragging => hand.down
             /\ selection # Nil => hand.down \/ hand.touches = 2

\* A selection's end lies at or after its start in the data it was made from:
\* resolveIndexFromX is monotone in x.
SelectionOrdered ==
  selection # Nil => selection.startIndex <= selection.endIndex

\* The highlighted stretch of a settled hover contains the point the tooltip
\* names, and the date ticker shows that point's label.
HighlightHoldsPoint ==
  /\ variant = "series" /\ interactive /\ anchored /\ ~raf /\ ~missed
  /\ hoverX # Nil /\ tip # Nil /\ selection = Nil /\ Times # <<>>
  => /\ computeSegmentBounds # Nil
     /\ computeSegmentBounds[1] <= tip.x /\ tip.x <= computeSegmentBounds[2]
     /\ DateTicker = tip.index

\* In a container that holds the box on either side of its middle the tooltip
\* box neither covers the hovered x nor leaves the container.
TooltipBoxInside ==
  tip # Nil /\ Width >= 2 * (BoxWidth + BoxOffset) =>
    /\ 0 <= TooltipBox(tip.x) /\ TooltipBox(tip.x) + BoxWidth <= Width
    /\ tip.x \notin TooltipBox(tip.x)..(TooltipBox(tip.x) + BoxWidth)

\* Refuted: the dedupe key is the index and the rounded x, so a new value at
\* the same point leaves the old value in the tooltip.
TooltipIsCurrent ==
  interactive /\ anchored /\ ~raf /\ hand.x # Out /\ tip # Nil => tip.version = version

\* Refuted: a touch that ends keeps lastHoveredX, so the next data change
\* brings the tooltip back with no finger on the chart; and a pointer that
\* leaves while the handlers are detached is never noticed.
NoHandNoTooltip ==
  anchored /\ ~raf /\ hand.x = Out => tip = Nil
=============================================================================
