------------------------------ MODULE MCCharts ------------------------------
(***************************************************************************)
(* The chart library, side by side: the life of a chart's data, pointer    *)
(* and selection, the live line, hovered marks, the sunburst, the two      *)
(* halves of the heatmap, the layout of marks and of bars, and the         *)
(* functions on series.  They share no state here, so one of them, active, *)
(* is at work in a behaviour and the others stay where they start.         *)
(***************************************************************************)
EXTENDS ChartPhase, ChartPointer, LiveLine, MarkHover, Heatmap, MarkLayout, SeriesMath,
        TLC

VARIABLE active

chartsVars == <<active, chartVars, pointerVars, liveVars, markVars, sunVars,
               heatVars, cellVars, layoutVars, barVars, mathVars>>

(* Points on three positions, then a series that lost its first, then none. *)
SeriesDef == << <<0, 2, 4>>, <<0, 2, 4>>, <<2, 4>>, <<>> >>

(* Trees by path: uneven depths, an empty branch beside a full one, and a  *)
(* flat tree under another root.                                           *)
SunTreesDef ==
  << (<<>> :> 0) @@ (<<1>> :> 0) @@ (<<1, 1>> :> 1) @@ (<<1, 2>> :> 1) @@ (<<2>> :> 1)
       @@ (<<3>> :> 0) @@ (<<3, 1>> :> 0) @@ (<<3, 1, 1>> :> 1),
     (<<>> :> 0) @@ (<<1>> :> 0) @@ (<<2>> :> 0) @@ (<<2, 1>> :> 1) @@ (<<2, 2>> :> 2),
     (<<>> :> 0) @@ (<<1>> :> 1) @@ (<<2>> :> 1) >>
SunRootsDef == <<"r", "r", "s">>

(* Days of 2027 counted from 1 January 2026: ends and starts of months and *)
(* a day on each side of both changes of the clock.                        *)
HeatDaysDef == {365, 423, 424, 452, 640, 669, 729}
SummerDaysDef == (88 .. 297) \union (452 .. 668)
LevelOfDef == [c \in {1, 2} |-> c - 1]

FunnelSizesDef == {<<10, 4>>, <<37, 9>>}

CandleRowsDef == {[open |-> 2, high |-> 3, low |-> 1, close |-> 2],
                  [open |-> 1, high |-> 4, low |-> 1, close |-> 4],
                  [open |-> 2, high |-> 2, low |-> 0, close |-> 0]}
AreaEndsDef == {Gap, -2, 0, 1, 3, 5}
SignedDef == {-1, 0, 2}
DomainEndsDef == {-3, 0, 2, 5}

ChartsInit ==
  /\ active \in {"phase", "pointer", "live", "hover", "sunburst", "heatmap", "cells", "layout",
                 "bars", "series"}
  /\ active # "phase" => setup = CHOOSE s \in Setups : TRUE
  /\ active # "pointer" => variant = "series"
  /\ active # "live" => data = <<>> /\ price = 0
  /\ active # "hover" => /\ markChart = "funnel" /\ marks = 1
                         /\ centre = [value |-> CHOOSE v \in CentreValues : TRUE, flow |-> 0,
                                      frames |-> 2, entered |-> FALSE, dipped |-> FALSE]
  /\ active # "sunburst" => sunSize = CHOOSE s \in SunSizes : TRUE
  /\ active # "heatmap" => /\ heatBuilt = 365 /\ heatSpan = "weeks" /\ weekStartDay = 0
                           /\ separating = "none" /\ spacing = 0
  /\ active # "cells" => /\ hMotion = [cells |-> FALSE, enter |-> FALSE] /\ participates = FALSE
                         /\ hStatus = "ready" /\ tipDelays = [show |-> FALSE, hide |-> FALSE]
  /\ active # "layout" => layoutOf = "ring" /\ ring = CHOOSE r \in Rings : TRUE
  /\ active # "bars" => barFacet = "life" /\ barStatus = "ready"
  /\ active # "series" => algorithm = "projection"
  /\ ChartInit
  /\ active # "phase" => chart.status = "ready"
  /\ PointerInit /\ LiveInit /\ HoverInit /\ SunInit /\ HeatInit
  /\ CellsInit /\ LayoutInit /\ BarInit /\ MathInit

ChartsNext ==
  /\ UNCHANGED active
  /\ \/ active = "phase" /\ ChartNext
     \/ active = "pointer" /\ PointerNext
     \/ active = "live" /\ LiveNext
     \/ active = "hover" /\ HoverNext
     \/ active = "sunburst" /\ SunNext
     \/ active = "heatmap" /\ HeatNext
     \/ active = "cells" /\ CellsNext
     \/ active = "layout" /\ LayoutNext
     \/ active = "bars" /\ BarNext
     \/ active = "series" /\ MathNext
  /\ active # "phase" => UNCHANGED chartVars
  /\ active # "pointer" => UNCHANGED pointerVars
  /\ active # "live" => UNCHANGED liveVars
  /\ active # "hover" => UNCHANGED markVars
  /\ active # "sunburst" => UNCHANGED sunVars
  /\ active # "heatmap" => UNCHANGED heatVars
  /\ active # "cells" => UNCHANGED cellVars
  /\ active # "layout" => UNCHANGED layoutVars
  /\ active # "bars" => UNCHANGED barVars
  /\ active # "series" => UNCHANGED mathVars

ChartsSpec == ChartsInit /\ [][ChartsNext]_chartsVars

-----------------------------------------------------------------------------
(* Properties of several of the components' at a time. *)

(* The selection's ends are in order and the highlighted stretch holds the *)
(* point the tooltip names.                                                *)
SelectionHolds == SelectionOrdered /\ HighlightHoldsPoint

(* The records of the live line give every series its newest value at the  *)
(* tip and enter the plot from the left edge (contextData).                *)
LiveRecords == EverySeriesHasTip /\ LineEntersFromLeft

(* Hover state follows the pointer through enters and leaves, and is empty *)
(* when the pointer is outside a chart that listens for that.              *)
HoverLeaves == HoverFollowsPointer /\ OutsideNothingHovered

(* What a tooltip tells of is lit, a lit link has lit ends, and marks fade *)
(* only around one that is lit.                                            *)
LitMarks ==
  TooltipMarkIsLit /\ LitLinkHasLitEnds /\ FadedAroundOne

(* The arcs of a sunburst tile their parents and its rings nest, for every *)
(* tree and every focus (layoutNode, ringOptions).                         *)
SunburstTiles == ArcsTile /\ RingsNest

(* A zoom that is over shows its focus and no arc hovered before it,       *)
(* however zooms were interrupted and data swapped (zoomTo).               *)
SunburstRests == RestShowsFocus /\ HoveredIsShown

(* The arcs of a hovered path grow without opening a gap between rings and *)
(* stay in the box (applyHoverGrow, defaultSunburstGrowPadding).           *)
SunburstGrows == GrownRingsMeet /\ GrownFitsBox

(* A calendar grid draws exactly its range and separates exactly its       *)
(* quarters.                                                               *)
HeatmapCalendar == GridDrawsRange /\ QuartersSeparate

(* The columns of a heatmap tile the plot and every month is labelled over *)
(* the column of its first day.                                            *)
HeatmapColumns == ColumnsTile /\ MonthsLabelled

(* One thing is hovered at a time, it is the thing under the pointer, and  *)
(* the legend lights the level of the lit cells.                           *)
CellHover ==
  OneThingHovered /\ HoveredUnderPointer /\ LegendAgrees

(* A gauge's notches fill its track, the lit ones are its value, the       *)
(* gradient reaches both its ends and no corners meet.                     *)
GaugeLaysOut ==
  NotchesFillTrack /\ LitNotchesAreValue /\ GradientReachesEnds /\ CornersFit

(* A funnel's overlays, grid lines and segments agree on where stages end, *)
(* and its layers stay nested and inside the box, hovered too.             *)
FunnelLaysOut ==
  FunnelLinesInGaps /\ SegmentsMeet /\ LayersStayNested /\ FunnelFits

(* Grouped bars fill their band, the pointer picks the bar it is on, the   *)
(* dot is on its bar and every value is below its axis' top.               *)
GroupedBars ==
  GroupFillsBand /\ PointerPicksBar /\ AxisHoldsItsSeries /\ DotOnItsBar

(* Bars of a vertical stack lie one above the other with the dot on top.   *)
StackedBars == StackedBarsApart /\ StackDotOnTop

(* Squares fill their column and the dot is on the topmost one.            *)
SquareColumns == SquaresFillColumn /\ DotOnTopSquare

(* No more labels than asked for, fading steadily under the crosshair.     *)
BarLabels == LabelsWithinLimit /\ LabelsFadeSteadily

(* Bars of a composed chart are centred, its clip covers them, and the     *)
(* bodies of candles lie on their wicks.                                   *)
ComposedBars ==
  SeriesBarsCentred /\ SeriesClipCovers /\ CandleBodyOnWick

(* A thinned series keeps its ends, its extremes and its order             *)
(* (decimateTimeSeries, decimateOhlcData).                                 *)
ThinnedIsFaithful == ThinnedKeepsEnds /\ ThinnedKeepsExtremes

(* Ticks span the data, are even where they can be, and label the tail an  *)
(* axis has past the last row.                                             *)
TicksAgree == TicksSpanData /\ TicksAreEven /\ TailIsLabelled

(* A projection continues its line and fits the merged value axis.         *)
ProjectionsFit == ProjectionContinuesLine /\ AxisHoldsProjection

(* The variables of the part that runs keep their types: no counter        *)
(* passes its bound and no status, phase, row or index leaves its set.     *)
ChartsTypeOK ==
  /\ active = "phase" => PhaseTypeOK
  /\ active = "pointer" => PointerTypeOK
  /\ active = "live" => LiveTypeOK
  /\ active = "hover" => HoverTypeOK
  /\ active = "sunburst" => SunTypeOK
  /\ active = "heatmap" => HeatTypeOK
  /\ active = "cells" => CellsTypeOK
  /\ active = "layout" => LayoutTypeOK
  /\ active = "bars" => BarTypeOK

(* The charts follow their data and their pointer through every order of   *)
(* status flips, timers, frames, drags, leaves, zooms and replays: a chart *)
(* at rest shows its status and its data, a tooltip is under the pointer   *)
(* and on the line, a selection has its gesture, and what is hovered is on *)
(* screen.  (use-chart-phase-orchestrator, use-chart-interaction,          *)
(* live-line-chart, sunburst-chart, heatmap-chart)                         *)
ChartsFollowInput ==
  /\ ChartsTypeOK
  /\ active = "phase" => SettlesInStatus /\ InteractsWithData /\ DrawnSeriesIsData
  /\ active = "pointer" => /\ TooltipUnderPointer /\ TooltipHasAnchor
                           /\ SelectionNeedsGesture /\ SelectionHolds
  /\ active = "live" => /\ RangeHoldsLine /\ LiveRecords
                        /\ TooltipOnLine /\ LabelGapBounded
  /\ active = "hover" => LitMarks /\ HoverLeaves /\ LoadedByLastEntrance
  /\ active = "sunburst" => SunburstRests
  /\ active = "cells" => HeatmapRests /\ LayersSettle /\ CellHover /\ TooltipCatchesUp
  /\ active = "bars" => BarsRevealInStatus

(* The layout arithmetic agrees with what it lays out, over all bounded    *)
(* inputs: arcs, columns, notches, segments and bars tile their space and  *)
(* stay in it, and thinned series, ticks and projections keep what they    *)
(* must of the data.  (layoutNode, heatmap-utils, gauge, funnel-chart,     *)
(* bar-chart, decimateTimeSeries, x-axis, projection-utils)                *)
ChartsLaidOut ==
  /\ active = "pointer" => TooltipBoxInside
  /\ active = "sunburst" => SunburstTiles /\ SunburstGrows
  /\ active = "heatmap" => HeatmapCalendar /\ HeatmapColumns
  /\ active = "layout" => GaugeLaysOut /\ FunnelLaysOut /\ RingsFit
  /\ active = "bars" => /\ GroupedBars /\ StackedBars /\ SquareColumns
                        /\ BarLabels /\ ComposedBars
  /\ active = "series" => /\ ThinnedIsFaithful /\ RunsJoinNeighbours /\ AreaIsClipped
                          /\ TicksAgree /\ ProjectionsFit

=============================================================================
