------------------------------ MODULE Heatmap -------------------------------
(***************************************************************************)
(* The heatmap: the calendar its cells are laid out on, and the life of    *)
(* the cells. They share no state.                                         *)
(***************************************************************************)
EXTENDS Integers, Sequences, FiniteSets

-----------------------------------------------------------------------------
(***************************************************************************)
(* The calendar heatmap's grid: which days the week columns hold, which     *)
(* cells are drawn and which are ghosts outside the displayed range, where  *)
(* the month labels and the quarter separators go, and where the columns    *)
(* lie (charts/heatmap/heatmap-utils.ts, heatmap-chart.tsx,                 *)
(* heatmap-x-axis.tsx, heatmap-separator.tsx).                              *)
(*                                                                         *)
(* A date is the number of its day, counted from 1 January of a first       *)
(* common year; FirstDay is that day's day of the week (Sunday is 0).  The  *)
(* data of a chart is built once (heatBuilt, the day it was built) and is   *)
(* drawn on later days too, because the range the cells are drawn for is    *)
(* memoised on the data and asks the clock only when the data or the brush  *)
(* changes (heatRead, the day it last asked).                               *)
(***************************************************************************)

CONSTANTS HeatDays,     \* the days on which the data is built
          HeatSpans,    \* "year" | "half" | "weeks": the range asked for
          FirstDay,     \* day of the week of day 0
          SummerDays,   \* days whose midnight is in summer time (one hour early)
          FewWeeks,     \* the number of weeks of a "weeks" range
          WeekStarts,   \* the first rows a chart may ask for
          SepSpacings,  \* spacings between column groups
          SepEvery,     \* columns per group when grouped by a fixed number
          PlotWidth,    \* inner width of the chart
          BrushWeeks,   \* weeks kept by the brush
          MaxLate       \* days the page stays open

VARIABLES heatBuilt, heatRead, heatSpan, weekStartDay, brushed, separating, spacing

heatVars == <<heatBuilt, heatRead, heatSpan, weekStartDay, brushed, separating, spacing>>

Never == -1

DaysBefore == <<0, 31, 59, 90, 120, 151, 181, 212, 243, 273, 304, 334>>

\* Day of the 1st of month m, counted from the first January, as
\* new Date(year, month, 1) makes it.
MonthStart == [m \in 0 .. 35 |-> 365 * (m \div 12) + DaysBefore[(m % 12) + 1]]

getMonth(d) ==
    12 * (d \div 365) + Cardinality({m \in 1 .. 12 : DaysBefore[m] <= d % 365}) - 1

getDay(d) == (d + FirstDay) % 7

\* Midnight of a day on the clock, in hours.
getTime(d) == 24 * d - (IF d \in SummerDays THEN 1 ELSE 0)

(***************************************************************************)
(* The range of days.                                                       *)
(***************************************************************************)
monthOffset(months) == IF months = 6 THEN months ELSE months - 1

getHeatmapCalendarRangeStart(today, months) == MonthStart[getMonth(today) - monthOffset(months)]

getHeatmapWeekStartSunday(d) == d - getDay(d)

getHeatmapWeekCount(startSunday, endDate) ==
    ((getTime(getHeatmapWeekStartSunday(endDate)) - getTime(startSunday)) \div (7 * 24)) + 1

countHeatmapWeekDaysOnOrAfter(weekStart, threshold) ==
    Cardinality({d \in weekStart .. weekStart + 6 : d >= threshold})

\* The while loop after the early return is never reached for a range that
\* starts at a midnight: the week of its Sunday holds it.
getHeatmapWeekStartAlignedToRange(rangeStart) ==
    LET sunday == getHeatmapWeekStartSunday(rangeStart)
    IN  IF rangeStart >= sunday /\ rangeStart <= sunday + 6 THEN sunday
        ELSE CHOOSE s \in {sunday + 7, sunday + 14} : countHeatmapWeekDaysOnOrAfter(s, rangeStart) >= 4

\* The first Sunday and the number of weeks.  A half year is not one of
\* resolveHeatmapWeekRange's cases: its caller composes it from the same parts.
resolveHeatmapWeekRange(today, span) ==
    IF span = "weeks"
    THEN [start |-> getHeatmapWeekStartSunday(today - (FewWeeks - 1) * 7), weeks |-> FewWeeks,
          rangeStart |-> Never]
    ELSE LET from  == getHeatmapCalendarRangeStart(today, IF span = "half" THEN 6 ELSE 12)
             first == getHeatmapWeekStartAlignedToRange(from)
         IN  [start |-> first, weeks |-> getHeatmapWeekCount(first, today), rangeStart |-> from]

\* The data a chart is given for a range: Sunday-first columns of seven days.
heatmapData(range) ==
    [c \in 1 .. range.weeks |-> [r \in 1 .. 7 |-> range.start + 7 * (c - 1) + r - 1]]

(***************************************************************************)
(* What the chart does with the columns.                                    *)
(***************************************************************************)
getHeatmapColumnStartDate(column) == column[1]

getHeatmapColumnEndDate(column) == column[Len(column)]

getHeatmapTimeExtent(columns) ==
    IF columns = <<>> THEN <<>>
    ELSE <<getHeatmapColumnStartDate(columns[1]), getHeatmapColumnEndDate(columns[Len(columns)])>>

filterHeatmapColumns(columns, domain) ==
    IF domain = <<>> THEN columns
    ELSE SelectSeq(columns, LAMBDA column : /\ getHeatmapColumnEndDate(column) >= domain[1]
                                            /\ getHeatmapColumnStartDate(column) <= domain[2])

rotateHeatmapColumnBins(columns, first) ==
    [c \in DOMAIN columns |-> SubSeq(columns[c], first + 1, 7) \o SubSeq(columns[c], 1, first)]

\* The months tried are six first, then twelve.
inferHeatmapCalendarRangeStart(columns, today) ==
    LET fits(months) == getHeatmapColumnStartDate(columns[1])
                          = getHeatmapWeekStartAlignedToRange(getHeatmapCalendarRangeStart(today, months))
    IN  IF columns = <<>> THEN Never
        ELSE IF fits(6) THEN getHeatmapCalendarRangeStart(today, 6)
        ELSE IF fits(12) THEN getHeatmapCalendarRangeStart(today, 12)
        ELSE Never

resolveHeatmapDisplayRange(columns, today) ==
    IF /\ columns # <<>>
       /\ inferHeatmapCalendarRangeStart(columns, today) # Never
       /\ getHeatmapTimeExtent(columns)[2] >= today
    THEN <<inferHeatmapCalendarRangeStart(columns, today), today>>
    ELSE <<>>

isHeatmapGhostBin(d, range) == d > range[2] \/ d < range[1]

(***************************************************************************)
(* Separators between groups of columns.  Column indices count from 0.      *)
(***************************************************************************)
getCalendarQuarter(d) == ((getMonth(d) % 12) \div 3) + 1

getCalendarQuarterStartDatesBetween(from, to) ==
    {d \in {MonthStart[m] : m \in {n \in 0 .. 35 : n % 3 = 0}} : d > from /\ d <= to}

findHeatmapColumnIndexForDate(columns, d) ==
    {c \in DOMAIN columns : /\ d >= getHeatmapColumnStartDate(columns[c])
                            /\ d <= getHeatmapColumnEndDate(columns[c])}

quarterRangeStart(columns, today) ==
    LET range == resolveHeatmapDisplayRange(columns, today)
        from  == inferHeatmapCalendarRangeStart(columns, today)
    IN  IF range # <<>> THEN range[1] ELSE IF from # Never THEN from ELSE getHeatmapTimeExtent(columns)[1]

\* The groups as pairs of a starting column and a quarter: the first column,
\* and the column of each later quarter's first day that is not taken yet.
buildHeatmapQuarterSeparatorGroups(columns, today) ==
    LET first  == quarterRangeStart(columns, today)
        starts == getCalendarQuarterStartDatesBetween(first, getHeatmapTimeExtent(columns)[2])
        at(q)  == {c - 1 : c \in findHeatmapColumnIndexForDate(columns, q)} \ {0}
    IN  IF columns = <<>> THEN {}
        ELSE {<<0, getCalendarQuarter(first)>>}
                \union UNION {{<<c, getCalendarQuarter(q)>> : c \in at(q)} : q \in starts}

getHeatmapSeparatorColumnIndices(columnCount, every) ==
    {c \in 1 .. columnCount - 1 : c % every = 0}

\* The columns that start a group other than the first.
resolveHeatmapSeparatorLayout(grouping, columns, today) ==
    IF grouping = "none" THEN {}
    ELSE IF grouping = "quarter"
    THEN {g[1] : g \in buildHeatmapQuarterSeparatorGroups(columns, today)} \ {0}
    ELSE getHeatmapSeparatorColumnIndices(Len(columns), SepEvery)

getHeatmapColumnXOffset(column, at, gap) ==
    IF gap <= 0 \/ column <= 0 THEN 0 ELSE Cardinality({c \in at : c <= column}) * gap

\* computeHeatmapDimensions: the width of a cell that fits the plot.  Lengths
\* are counted in units of one column's share, so that the division is exact.
computeHeatmapDimensions(columnCount, at, gap) ==
    LET fit == PlotWidth - Cardinality(at) * gap
    IN  IF fit < 0 THEN 0 ELSE fit

xScale(column, columnCount, at, gap) ==
    column * computeHeatmapDimensions(columnCount, at, gap)
        + columnCount * getHeatmapColumnXOffset(column, at, gap)

getHeatmapPlotInnerWidth(columnCount, at, gap) ==
    columnCount * computeHeatmapDimensions(columnCount, at, gap)
        + columnCount * Cardinality(at) * gap

\* Doubled, to halve the spacing exactly.
getHeatmapSeparatorX(column, columnCount, at, gap) ==
    2 * xScale(column, columnCount, at, gap) - columnCount * gap

getHeatmapColumnMonthAnchor(column) ==
    IF \E r \in DOMAIN column : column[r] = MonthStart[getMonth(column[r])]
    THEN column[CHOOSE r \in DOMAIN column :
                   /\ column[r] = MonthStart[getMonth(column[r])]
                   /\ \A q \in 1 .. r - 1 : column[q] # MonthStart[getMonth(column[q])]]
    ELSE MonthStart[getMonth(column[1])]

\* A label where the month changes: pairs of a column and a month.
HeatmapXAxis(columns) ==
    {<<c - 1, getMonth(getHeatmapColumnMonthAnchor(columns[c]))>> :
        c \in {k \in DOMAIN columns :
                 k > 1 => getHeatmapColumnMonthAnchor(columns[k]) # getHeatmapColumnMonthAnchor(columns[k - 1])}}

(***************************************************************************)
(* The chart on the page.                                                   *)
(***************************************************************************)
heatRange == resolveHeatmapWeekRange(heatBuilt, heatSpan)

\* The brush keeps the last weeks of the data.
xDomain ==
    LET whole == getHeatmapTimeExtent(heatmapData(heatRange))
    IN  IF brushed THEN <<whole[2] - 7 * BrushWeeks + 1, whole[2]>> ELSE <<>>

visibleData ==
    rotateHeatmapColumnBins(filterHeatmapColumns(heatmapData(heatRange), xDomain), weekStartDay)

\* The days whose cells are drawn.
HeatmapCells(columns) ==
    LET range == resolveHeatmapDisplayRange(columns, heatRead)
        days  == UNION {{columns[c][r] : r \in DOMAIN columns[c]} : c \in DOMAIN columns}
    IN  IF range = <<>> THEN days ELSE {d \in days : ~isHeatmapGhostBin(d, range)}

HeatInit ==
    /\ heatBuilt \in HeatDays
    /\ heatRead = heatBuilt
    /\ heatSpan \in HeatSpans
    /\ weekStartDay \in WeekStarts
    /\ brushed = FALSE
    /\ separating \in {"none", "every", "quarter"}
    /\ spacing \in SepSpacings

\* The brush moves on a later day: a new array of columns, so the memoised
\* range is computed again, with that day's clock.
brush ==
    /\ \E late \in 0 .. MaxLate : heatRead' = heatBuilt + late
    /\ brushed' = ~brushed
    /\ UNCHANGED <<heatBuilt, heatSpan, weekStartDay, separating, spacing>>

HeatNext == brush

HeatSpec == HeatInit /\ [][HeatNext]_heatVars

(***************************************************************************)
(* Properties.                                                              *)
(***************************************************************************)
\* Type correctness: the chart always has at least one column and never asks
\* the clock before the data was built.
HeatTypeOK ==
    /\ heatRead \in heatBuilt .. heatBuilt + MaxLate
    /\ heatRange.weeks \in 1 .. 60
    /\ heatRange.start \in Nat /\ getDay(heatRange.start) = 0

\* The span is drawn without the clock having moved under it: no summer time
\* boundary between the first and the last Sunday, no brush, Sunday rows.
Plain ==
    /\ (heatRange.start \in SummerDays) = (getHeatmapWeekStartSunday(heatBuilt) \in SummerDays)
    /\ ~brushed /\ weekStartDay = 0

\* On the day it was built, a calendar grid draws exactly the days from the
\* first of its range to that day: no ghost before the 1st or after today is
\* drawn and no day of the range is missing (resolveHeatmapDisplayRange,
\* isHeatmapGhostBin and the week alignment agree on one range).
GridDrawsRange ==
    Plain /\ heatSpan # "weeks" /\ heatRead = heatBuilt =>
        HeatmapCells(visibleData) = heatRange.rangeStart .. heatBuilt

\* Each quarter that begins in the range after the first column starts a
\* group at the column that holds its first day, and every group but the
\* first is such a quarter's (buildHeatmapQuarterSeparatorGroups).
QuartersSeparate ==
    Plain /\ separating = "quarter" /\ heatRead = heatBuilt =>
        LET columns == visibleData
            at      == resolveHeatmapSeparatorLayout("quarter", columns, heatRead)
            firsts  == {MonthStart[m] : m \in {n \in 0 .. 35 : n % 3 = 0}}
        IN  \A c \in DOMAIN columns \ {1} :
                (c - 1 \in at) <=> \E r \in 1 .. 7 : columns[c][r] \in firsts

\* Columns never overlap, a separator line lies in the space between the
\* columns it divides, and the last column ends where the plot ends
\* (getHeatmapColumnXOffset, getHeatmapSeparatorX, getHeatmapPlotInnerWidth).
ColumnsTile ==
    LET columns == visibleData
        n       == Len(columns)
        at      == resolveHeatmapSeparatorLayout(separating, columns, heatRead)
        width   == computeHeatmapDimensions(n, at, spacing)
        X(c)    == xScale(c, n, at, spacing)
    IN  /\ \A c \in 0 .. n - 2 : X(c) + width <= X(c + 1)
        /\ \A c \in at : /\ 2 * (X(c - 1) + width) <= getHeatmapSeparatorX(c, n, at, spacing)
                         /\ getHeatmapSeparatorX(c, n, at, spacing) <= 2 * X(c)
        /\ X(n - 1) + width = getHeatmapPlotInnerWidth(n, at, spacing)

\* Every month that begins inside the grid is labelled once, over the column
\* that holds its first day (getHeatmapColumnMonthAnchor).
MonthsLabelled ==
    LET columns == visibleData
    IN  weekStartDay = 0 =>
            \A m \in 0 .. 35 :
                LET at == findHeatmapColumnIndexForDate(columns, MonthStart[m])
                IN  at # {} => {l \in HeatmapXAxis(columns) : l[2] = m} = {<<c - 1, m>> : c \in at}

\* Refuted: the grid of a year always reaches the day it is drawn on.  The
\* weeks are counted by dividing milliseconds of local midnights: between a
\* winter and a summer Sunday an hour is missing and the floor drops a week.
GridReachesToday == ~brushed /\ heatSpan = "year" => heatBuilt \in HeatmapCells(visibleData)

\* Refuted: turning the rows changes no cell ("Rotates column bins for display
\* without reshaping source data", heatmap-chart.tsx:124).  After the
\* rotation the first bin is no Sunday, the range is not recognised and the
\* ghosts are drawn.
RotationKeepsCells ==
    ~brushed => HeatmapCells(visibleData) = HeatmapCells(filterHeatmapColumns(heatmapData(heatRange), xDomain))

\* Refuted: a day after today is never drawn.  A brush drops the first
\* column, and the range is no longer recognised.
FutureNeverDrawn ==
    (Plain \/ brushed) /\ heatSpan # "weeks" => \A d \in HeatmapCells(visibleData) : d <= heatRead

-----------------------------------------------------------------------------
(***************************************************************************)
(* The life of the heatmap's cells: the phases between loading and ready,   *)
(* the three opacities of a cell, the hover shared by cells and legend, and *)
(* the delayed tooltip (charts/heatmap/heatmap-chart.tsx,                   *)
(* heatmap-cells.tsx, heatmap-legend.tsx, heatmap-context.tsx,              *)
(* use-delayed-tooltip-data.ts).                                            *)
(*                                                                         *)
(* A handler's setStates, the layout effect, the passive effects React      *)
(* flushes before it renders again and the effect that synchronises the     *)
(* cells' opacities are one step.  Timers and fades end in steps of their   *)
(* own.  An opacity is "none", "some" (the dimmed cell, the loading base) or *)
(* "full"; a fade is a value with a target.                                 *)
(***************************************************************************)

CONSTANTS HeatCells,     \* the cells
          LevelOf,       \* contribution level of each cell
          HeatLevels,    \* levels with a swatch in the legend
          ShowDelays, HideDelays,  \* whether a delay is configured
          MaxCellSteps   \* bound on what the user and the page do

VARIABLES hStatus, hPhase, hLoaded, hMode, hTimer,   \* useHeatmapChartLifecycle
          hMotion,      \* [cells, enter]: animateCells and animateEnter
          participates, \* whether the cells take part in the loading shimmer
          cellLayers,   \* [data, to, shimmer, pulse] of each cell
          hoveredCell, hoveredLegendLevel, tooltipData,
          displayData, tipTimer, tipDelays,
          heatPointer, heatMuted, heatReplayed, cellSteps

lifeVars == <<hStatus, hPhase, hLoaded, hMode, hTimer>>
hoverVars == <<hoveredCell, hoveredLegendLevel, tooltipData>>
tipVars == <<displayData, tipTimer>>
cellVars == <<lifeVars, hMotion, participates, cellLayers, hoverVars, tipVars, tipDelays,
              heatPointer, heatMuted, heatReplayed, cellSteps>>

NoCell == 0
NoLevel == -1
HeatPlaces == {<<"out">>, <<"gap">>} \union {<<"cell", c>> : c \in HeatCells}
                \union {<<"legend", l>> : l \in HeatLevels}

CellStep == cellSteps < MaxCellSteps /\ cellSteps' = cellSteps + 1

(***************************************************************************)
(* What is drawn, from the state of the chart.                              *)
(***************************************************************************)
cellsInteractive == hStatus # "loading"
isLoadingResting == hStatus = "loading" /\ hPhase = "loading"
isExitingToLoading == hPhase = "exitingReady" \/ (hStatus = "loading" /\ hPhase = "ready")
isRevealActive == hPhase = "revealing" /\ ~hLoaded /\ hMode \in {"fromLoading", "enter"}
isReadyResting == hStatus = "ready" /\ hPhase = "ready" /\ hLoaded
showShimmerPulse == hMotion.cells /\ participates /\ isLoadingResting

computeHeatmapCellFaded(c) ==
    IF cellsInteractive /\ hoveredCell # NoCell THEN [lit |-> hoveredCell = c, dim |-> hoveredCell # c]
    ELSE IF cellsInteractive /\ hoveredLegendLevel # NoLevel
    THEN [lit |-> LevelOf[c] = hoveredLegendLevel, dim |-> LevelOf[c] # hoveredLegendLevel]
    ELSE [lit |-> FALSE, dim |-> FALSE]

resolveHeatmapHoverStyle(c) == IF computeHeatmapCellFaded(c).dim THEN "some" ELSE "full"

\* The level whose swatch the legend lights.
HeatmapLegend ==
    IF hoveredLegendLevel # NoLevel THEN hoveredLegendLevel
    ELSE IF tooltipData # NoCell THEN LevelOf[tooltipData] ELSE NoLevel

\* What covers a cell besides its data: the pulse or the static base.
shimmerShown(c) == IF showShimmerPulse THEN cellLayers[c].pulse ELSE cellLayers[c].shimmer

(***************************************************************************)
(* The effects of a cell after every render.                                *)
(***************************************************************************)
\* A ready chart at rest: the data at its hover opacity, nothing over it.
readyLayers(l, c) ==
    [l EXCEPT !.to = resolveHeatmapHoverStyle(c), !.shimmer = "none", !.pulse = "none",
              !.data = IF hMotion.cells THEN @ ELSE resolveHeatmapHoverStyle(c)]

syncHeatmapCellLayerOpacities(l, c) ==
    IF ~hMotion.cells
    THEN IF isReadyResting THEN readyLayers(l, c)
         ELSE IF hStatus = "loading"
         THEN [data |-> "none", to |-> "none", pulse |-> "none",
               shimmer |-> IF participates THEN "none" ELSE "some"]
         ELSE l
    ELSE IF isLoadingResting
    THEN [l EXCEPT !.data = "none", !.to = "none", !.shimmer = IF showShimmerPulse THEN @ ELSE "some"]
    ELSE IF isRevealActive
    THEN [l EXCEPT !.pulse = "none", !.shimmer = "none", !.to = resolveHeatmapHoverStyle(c)]
    ELSE IF isExitingToLoading
    THEN [l EXCEPT !.to = "none", !.shimmer = "none"]
    ELSE IF isReadyResting
    THEN readyLayers(l, c)
    ELSE l

\* The pulse effect runs first: it stops the loop and hides the pulse when
\* the cell no longer shimmers.
HeatmapMotionCell(l, c) ==
    syncHeatmapCellLayerOpacities(IF showShimmerPulse THEN l ELSE [l EXCEPT !.pulse = "none"], c)

\* Every step that renders the chart ends with the cells' effects.
CellsRendered ==
    \E old \in {cellLayers} : cellLayers' = [c \in HeatCells |-> HeatmapMotionCell(old[c], c)']

(***************************************************************************)
(* The life cycle.                                                          *)
(***************************************************************************)
restingCellPhase(status) == IF status = "ready" THEN "ready" ELSE "loading"

finishReveal == hLoaded' = TRUE /\ hPhase' = "ready" /\ hMode' = "none" /\ hTimer' = "none"

beginReveal == hMode' = "enter" /\ hLoaded' = FALSE /\ hPhase' = "revealing" /\ hTimer' = "finish"

CellsInit ==
    /\ hMotion \in {m \in [cells : BOOLEAN, enter : BOOLEAN] : m.enter => m.cells}
    /\ participates \in BOOLEAN
    /\ hStatus \in {"loading", "ready"}
    /\ hPhase = IF hStatus = "ready" /\ hMotion.enter THEN "revealing" ELSE hStatus
    /\ hMode = IF hStatus = "ready" /\ hMotion.enter THEN "enter" ELSE "none"
    /\ hLoaded = ~hMotion.enter
    /\ hTimer = IF hStatus = "ready" /\ hMotion.enter THEN "finish" ELSE "none"
    /\ hoveredCell = NoCell /\ hoveredLegendLevel = NoLevel /\ tooltipData = NoCell
    /\ cellLayers = [c \in HeatCells |->
                       HeatmapMotionCell([data |-> "none", to |-> "none", shimmer |-> "none", pulse |-> "none"], c)]
    /\ tipDelays \in [show : ShowDelays, hide : HideDelays]
    /\ displayData = NoCell /\ tipTimer = "none"
    /\ heatPointer = <<"out">>
    /\ heatMuted = FALSE /\ heatReplayed = <<>> /\ cellSteps = 0

\* The status prop flips: the layout effect, then the passive effects.
statusFlips ==
    /\ CellStep
    /\ hStatus' = IF hStatus = "ready" THEN "loading" ELSE "ready"
    /\ IF ~hMotion.enter
       THEN /\ hLoaded' = TRUE /\ hPhase' = restingCellPhase(hStatus') /\ hTimer' = "none"
            /\ hMode' = IF hStatus' = "ready" THEN "fromLoading" ELSE "none"
       ELSE IF hStatus' = "ready"
       THEN hMode' = "fromLoading" /\ hLoaded' = FALSE /\ hPhase' = "revealing" /\ hTimer' = "finish"
       ELSE hMode' = "none" /\ hLoaded' = FALSE /\ hPhase' = "exitingReady" /\ hTimer' = "conceal"
    /\ UNCHANGED <<hMotion, participates, hoverVars, tipVars, tipDelays, heatPointer, heatMuted, heatReplayed>>
    /\ CellsRendered

\* A new reveal signature: the entrance starts again if the chart is at rest.
revealSignatureChanges ==
    /\ CellStep
    /\ hMotion.enter /\ hStatus = "ready" /\ hPhase = "ready"
    /\ beginReveal
    /\ heatReplayed' = [c \in HeatCells |-> cellLayers[c].data]
    /\ UNCHANGED <<hStatus, hMotion, participates, hoverVars, tipVars, tipDelays, heatPointer, heatMuted>>
    /\ CellsRendered

cellsConcealed ==
    /\ hTimer = "conceal"
    /\ hPhase' = "loading" /\ hTimer' = "none"
    /\ UNCHANGED <<hStatus, hLoaded, hMode, hMotion, participates, hoverVars, tipVars, tipDelays,
                   heatPointer, heatMuted, heatReplayed, cellSteps>>
    /\ CellsRendered

revealEnds ==
    /\ hTimer = "finish"
    /\ finishReveal
    /\ UNCHANGED <<hStatus, hMotion, participates, hoverVars, tipVars, tipDelays,
                   heatPointer, heatMuted, heatReplayed, cellSteps>>
    /\ CellsRendered

\* A fade reaches its target.
fadeEnds(c) ==
    /\ cellLayers[c].data # cellLayers[c].to
    /\ cellLayers' = [cellLayers EXCEPT ![c].data = cellLayers[c].to]
    /\ UNCHANGED <<lifeVars, hMotion, participates, hoverVars, tipVars, tipDelays,
                   heatPointer, heatMuted, heatReplayed, cellSteps>>

\* The loading pulse of a cell moves to another opacity.
pulse(c) ==
    /\ showShimmerPulse
    /\ cellLayers' = [cellLayers EXCEPT ![c].pulse = IF @ = "none" THEN "some" ELSE "none"]
    /\ UNCHANGED <<lifeVars, hMotion, participates, hoverVars, tipVars, tipDelays,
                   heatPointer, heatMuted, heatReplayed, cellSteps>>

(***************************************************************************)
(* Pointer, legend and tooltip.                                             *)
(***************************************************************************)
\* Hover states as records, so that the handlers of one gesture compose.
Hover == [cell |-> hoveredCell, level |-> hoveredLegendLevel, tip |-> tooltipData]

clearInteraction == [cell |-> NoCell, level |-> NoLevel, tip |-> NoCell]

handleCellEnter(h, c) ==
    IF cellsInteractive THEN [cell |-> c, level |-> NoLevel, tip |-> c] ELSE h

handleCellLeave(h) == IF cellsInteractive THEN [h EXCEPT !.cell = NoCell, !.tip = NoCell] ELSE h

handleLegendEnter(h, l) == [cell |-> NoCell, level |-> l, tip |-> NoCell]

handleLegendLeave(h) == [h EXCEPT !.level = NoLevel]

\* Leaving a place, the chart's surface included, then entering another.
Left(h, from, to) ==
    LET off == CASE from[1] = "cell" -> handleCellLeave(h)
                 [] from[1] = "legend" -> handleLegendLeave(h)
                 [] OTHER -> h
    IN  IF from[1] \in {"cell", "gap"} /\ to[1] \in {"out", "legend"} THEN clearInteraction ELSE off

Entered(h, to) ==
    CASE to[1] = "cell" -> handleCellEnter(h, to[2])
      [] to[1] = "legend" -> handleLegendEnter(h, to[2])
      [] OTHER -> h

\* The effect of a new tooltip datum: both timers are cleared first.
useDelayedTooltipData(tip) ==
    IF tip # NoCell
    THEN IF displayData # NoCell \/ ~tipDelays.show
         THEN displayData' = tip /\ tipTimer' = "none"
         ELSE displayData' = displayData /\ tipTimer' = "show"
    ELSE IF ~tipDelays.hide THEN displayData' = NoCell /\ tipTimer' = "none"
    ELSE displayData' = displayData /\ tipTimer' = "hide"

movePointer(to) ==
    /\ CellStep
    /\ heatPointer # to
    /\ LET h == Entered(Left(Hover, heatPointer, to), to)
       IN  /\ hoveredCell' = h.cell /\ hoveredLegendLevel' = h.level /\ tooltipData' = h.tip
           /\ IF h.tip # tooltipData THEN useDelayedTooltipData(h.tip) ELSE UNCHANGED tipVars
           /\ heatMuted' = (h.cell # NoCell /\ (heatMuted \/ (heatPointer[1] = "cell" /\ ~cellsInteractive)))
    /\ heatPointer' = to
    /\ UNCHANGED <<lifeVars, hMotion, participates, tipDelays, heatReplayed>>
    /\ CellsRendered

tipTimerFires ==
    /\ tipTimer # "none"
    /\ displayData' = IF tipTimer = "show" THEN tooltipData ELSE NoCell
    /\ tipTimer' = "none"
    /\ UNCHANGED <<lifeVars, hMotion, participates, cellLayers, hoverVars, tipDelays,
                   heatPointer, heatMuted, heatReplayed, cellSteps>>

CellsNext ==
    \/ statusFlips \/ revealSignatureChanges \/ cellsConcealed \/ revealEnds
    \/ \E c \in HeatCells : fadeEnds(c) \/ pulse(c)
    \/ \E to \in HeatPlaces : movePointer(to)
    \/ tipTimerFires

CellsSpec == CellsInit /\ [][CellsNext]_cellVars

(***************************************************************************)
(* Properties.                                                              *)
(***************************************************************************)
\* Type correctness.
CellsTypeOK ==
    /\ hPhase \in {"loading", "ready", "revealing", "exitingReady"}
    /\ hMode \in {"none", "enter", "fromLoading"} /\ hTimer \in {"none", "conceal", "finish"}
    /\ hoveredCell \in HeatCells \union {NoCell} /\ displayData \in HeatCells \union {NoCell}
    /\ cellLayers \in [HeatCells -> [data : {"none", "some", "full"}, to : {"none", "some", "full"},
                                     shimmer : {"none", "some"}, pulse : {"none", "some"}]]

\* However the status flips while a reveal or a conceal is under way, the
\* chart whose timers have fired rests in the phase of its status, and a
\* ready chart counts as loaded (the timers of useHeatmapChartLifecycle are
\* cleared with the phase they belong to).
HeatmapRests ==
    hTimer = "none" => hPhase = restingCellPhase(hStatus) /\ (hStatus = "ready" => hLoaded)

\* At rest, faded out or in, a ready chart shows each cell at its hover
\* opacity with nothing over it, and a loading chart shows no data
\* (syncHeatmapCellLayerOpacities).
LayersSettle ==
    hTimer = "none" => \A c \in HeatCells :
        cellLayers[c].data = cellLayers[c].to =>
            IF hStatus = "ready"
            THEN cellLayers[c].data = resolveHeatmapHoverStyle(c) /\ shimmerShown(c) = "none"
            ELSE cellLayers[c].data = "none"

\* A cell and a legend level are never hovered together, and the tooltip is
\* the hovered cell's (the handlers clear each other's state, through phases
\* in which the cells ignore the pointer).
OneThingHovered ==
    /\ ~(hoveredCell # NoCell /\ hoveredLegendLevel # NoLevel)
    /\ tooltipData = hoveredCell

\* Unless a cell was left while the chart ignored the pointer, the hovered
\* cell is the one under it.
HoveredUnderPointer == hoveredCell # NoCell /\ ~heatMuted => heatPointer = <<"cell", hoveredCell>>

\* Every lit cell has the level the legend lights: hovering a cell and
\* hovering a swatch tell the same story (HeatmapLegend's highlightedLevel).
LegendAgrees == \A c \in HeatCells : computeHeatmapCellFaded(c).lit => LevelOf[c] = HeatmapLegend

\* Once no delay is running the tooltip shows the datum of the hover, or
\* nothing when there is none, whatever timers were started before.
TooltipCatchesUp == tipTimer = "none" => displayData = tooltipData

\* Refuted: a loading chart shows its cells.  With reduced motion a cell that
\* would take part in the shimmer gets opacity 0 in both layers, where the
\* others get the static base.
LoadingIsVisible ==
    ~hMotion.cells /\ isLoadingResting => \A c \in HeatCells : shimmerShown(c) # "none"

\* Refuted: a changed signature plays the entrance again ("Signature of motion
\* URL state - triggers enter replay when it changes", heatmap-chart.tsx:103).
\* The data opacity is not reset, so the cells fade from full to full.
ReplayFadesIn == \A c \in DOMAIN heatReplayed : heatReplayed[c] # "full"

\* Refuted: the hovered cell is always the one under the pointer.
HoveredAlwaysUnderPointer == hoveredCell # NoCell => heatPointer = <<"cell", hoveredCell>>

=============================================================================
