----------------------------- MODULE MarkLayout -----------------------------
(***************************************************************************)
(* The pure layouts of gauges, funnels and rings, and of bars. Each run    *)
(* chooses one layout and one input.                                       *)
(***************************************************************************)
EXTENDS Integers, Sequences, FiniteSets

-----------------------------------------------------------------------------
(***************************************************************************)
(* Where the marks of the gauge, the funnel and the ring chart lie          *)
(* (charts/gauge.tsx, notch-gauge-shared.ts, funnel-chart.tsx,              *)
(* ring-chart.tsx, ring.tsx).  Each chart computes the extents of its marks *)
(* by its own formula in several places (track and notch, segment, overlay  *)
(* and grid line, ring and grown ring); the invariants say that the pieces  *)
(* fit together, whatever the inputs a page scrubs through.  Quotients are  *)
(* cross-multiplied, so every comparison is exact.                          *)
(***************************************************************************)

CONSTANTS GaugeCounts, GaugeSpacings, GaugeValues, TrackLengths, Corners, Channels,
          FunnelValues, MaxStages, FunnelGaps, FunnelSizes, LayerCounts,
          RingSizes, RingCounts, MaxScrubs

VARIABLES layoutOf,    \* the chart: "gauge", "funnel" or "ring"
          gauge,       \* [notches, spacing, value, track, corner, from, to]
          funnel,      \* [values, gap, layers], the data and its options
          funnelBox,   \* the measured box of the funnel
          ring,        \* [size, count]
          scrubs

layoutVars == <<layoutOf, gauge, funnel, funnelBox, ring, scrubs>>

Least(S) == CHOOSE x \in S : \A y \in S : x <= y

\* Math.round of a / b for natural numbers.
roundDiv(a, b) == (2 * a + b) \div (2 * b)

(***************************************************************************)
(* Gauge.  Lengths along the track are in units of 1 / (100 n gapDen) of    *)
(* its length.                                                              *)
(***************************************************************************)
gapDen(g) == IF g.notches - 1 > 0 THEN g.notches - 1 ELSE 1
slotWidth(g) == g.track * (100 - g.spacing) * gapDen(g)
gapWidthOfAll(g) == g.track * g.spacing * gapDen(g)
gapWidth(g) == g.track * g.spacing * g.notches
trackWidth(g) == g.track * 100 * g.notches * gapDen(g)

activeNotches(g) == roundDiv(g.value * g.notches, 100)

\* The slot of notch i, and the notch drawn in it (80% of the slot, doubled
\* to halve exactly, times ten).
slotOf(g, i) == <<i * (slotWidth(g) + gapWidth(g)), i * (slotWidth(g) + gapWidth(g)) + slotWidth(g)>>
notchOf(g, i) ==
    LET centre == 20 * i * (slotWidth(g) + gapWidth(g)) + 10 * slotWidth(g)
    IN  <<centre - 8 * slotWidth(g), centre + 8 * slotWidth(g)>>

\* One channel of the colour of notch i.
interpolateGaugeHex(g, i) ==
    LET denom == IF g.notches > 1 THEN g.notches - 1 ELSE 1
        step  == roundDiv((IF g.to > g.from THEN g.to - g.from ELSE g.from - g.to) * i, denom)
    IN  IF g.to > g.from THEN g.from + step ELSE g.from - step

\* The radius of the corners of a notch of two edge lengths, in hundredths.
createNotchPath(wanted, depth, edge) ==
    IF wanted <= 0 THEN 0 ELSE Least({100 * wanted, 48 * depth, 49 * depth, 49 * edge})

(***************************************************************************)
(* Funnel.  Lengths along the funnel are doubled and times the number of    *)
(* stages; heights are in units of 1 / (1000 first) of the height.          *)
(***************************************************************************)
stages(f) == Len(f.values)
funnelMax(f) == f.values[1]
segW(f, box) == box[1] - f.gap * (stages(f) - 1)
segmentAt(f, box, i) == 2 * i * (segW(f, box) + f.gap * stages(f))
overlayAt(f, box, i) == <<segmentAt(f, box, i), segmentAt(f, box, i) + 2 * segW(f, box)>>

gridLineAt(f, box, i) == 2 * segW(f, box) * (i + 1) + 2 * stages(f) * f.gap * i + stages(f) * f.gap

normEnd(f, i) == f.values[Least({i + 1, stages(f) - 1}) + 1]

\* Scale of layer l of a segment in thousandths, and the extra scale it gets
\* under the pointer.
ringScale(f, l) == 1000 - (l * 350) \div f.layers
extraScale(f, l) == 1000 + (l * 120) \div (IF f.layers > 1 THEN f.layers - 1 ELSE 1)

\* Half the height of layer l of a segment whose edge is the given value.
hSegmentPath(f, value, l, hovered) ==
    (44 * value * ringScale(f, l) * (IF hovered THEN extraScale(f, l) ELSE 1000)) \div 100000

(***************************************************************************)
(* Ring: base radius 60, stroke 12, gap 6, eight pixels of padding; lengths *)
(* times two and times the design radius.                                   *)
(***************************************************************************)
availableRadius(r) == r.size - 16
designOuterRadius(r) == 60 + (r.count - 1) * 18 + 12
ringScaleOf(r) == Least({2 * designOuterRadius(r), availableRadius(r)})
getRingRadii(r, i) ==
    <<(60 + i * 18) * ringScaleOf(r), (60 + i * 18 + 12) * ringScaleOf(r)>>

\* In hundredths.
ringHoverScale(i, over) == IF over = i THEN 103 ELSE IF over # -1 /\ over < i THEN 102 ELSE 100

(***************************************************************************)
(* The inputs change under the chart.                                       *)
(***************************************************************************)
Gauges == [notches : GaugeCounts, spacing : GaugeSpacings, value : GaugeValues,
           track : TrackLengths, corner : Corners, from : Channels, to : Channels]
Funnels == [values : UNION {[1 .. n -> FunnelValues] : n \in 1 .. MaxStages},
            gap : FunnelGaps, layers : LayerCounts]
Rings == [size : RingSizes, count : RingCounts]

LayoutInit ==
    /\ layoutOf \in {"gauge", "funnel", "ring"}
    /\ gauge \in (IF layoutOf = "gauge" THEN Gauges ELSE {CHOOSE g \in Gauges : TRUE})
    /\ funnel \in (IF layoutOf = "funnel" THEN Funnels ELSE {CHOOSE f \in Funnels : TRUE})
    /\ ring \in (IF layoutOf = "ring" THEN Rings ELSE {CHOOSE r \in Rings : TRUE})
    /\ funnelBox = <<0, 0>> /\ scrubs = 0

\* The observer reports a box; one without an area is ignored.
measure(box) ==
    /\ layoutOf = "funnel" /\ scrubs < MaxScrubs
    /\ box[1] > 0 /\ box[2] > 0
    /\ funnelBox' = box
    /\ scrubs' = scrubs + 1
    /\ UNCHANGED <<layoutOf, gauge, funnel, ring>>

\* A stage's value moves.
stageMoves(i, v) ==
    /\ layoutOf = "funnel" /\ scrubs < MaxScrubs
    /\ i \in DOMAIN funnel.values
    /\ funnel' = [funnel EXCEPT !.values[i] = v]
    /\ scrubs' = scrubs + 1
    /\ UNCHANGED <<layoutOf, gauge, funnelBox, ring>>

gaugeMoves(v) ==
    /\ layoutOf = "gauge" /\ scrubs < MaxScrubs
    /\ gauge' = [gauge EXCEPT !.value = v]
    /\ scrubs' = scrubs + 1
    /\ UNCHANGED <<layoutOf, funnel, funnelBox, ring>>

LayoutNext ==
    \/ \E box \in FunnelSizes : measure(box)
    \/ \E i \in 1 .. MaxStages, v \in FunnelValues : stageMoves(i, v)
    \/ \E v \in GaugeValues : gaugeMoves(v)

LayoutSpec == LayoutInit /\ [][LayoutNext]_layoutVars

(***************************************************************************)
(* Properties.                                                              *)
(***************************************************************************)
\* Type correctness.
LayoutTypeOK ==
    gauge \in Gauges /\ funnel \in Funnels /\ ring \in Rings
        /\ funnelBox \in FunnelSizes \union {<<0, 0>>}

\* Slots and gaps fill the gauge's track exactly, in order and without
\* overlap, and every notch lies inside its slot (slotWidth and gapWidth are
\* divided by different counts).
NotchesFillTrack ==
    gauge.notches > 1 =>
        /\ slotOf(gauge, gauge.notches - 1)[2] = trackWidth(gauge)
        /\ \A i \in 0 .. gauge.notches - 2 : slotOf(gauge, i)[2] <= slotOf(gauge, i + 1)[1]
        /\ \A i \in 0 .. gauge.notches - 1 : /\ 20 * slotOf(gauge, i)[1] <= notchOf(gauge, i)[1]
                                             /\ notchOf(gauge, i)[2] <= 20 * slotOf(gauge, i)[2]

\* The lit share of the notches is within half a notch of the value, none at
\* 0 and all at 100.
LitNotchesAreValue ==
    LET off == 100 * activeNotches(gauge) - gauge.value * gauge.notches
    IN  /\ 2 * off <= 100 /\ 2 * off >= -100
        /\ gauge.value = 0 => activeNotches(gauge) = 0
        /\ gauge.value = 100 => activeNotches(gauge) = gauge.notches

\* The gradient runs from its first colour to its second: the first notch has
\* the one, the last of several the other, and none leaves the range.
GradientReachesEnds ==
    LET lo == Least({gauge.from, gauge.to})
        hi == gauge.from + gauge.to - lo
    IN  /\ \A i \in 0 .. gauge.notches - 1 : interpolateGaugeHex(gauge, i) \in lo .. hi
        /\ interpolateGaugeHex(gauge, 0) = gauge.from
        /\ gauge.notches > 1 => interpolateGaugeHex(gauge, gauge.notches - 1) = gauge.to

\* Rounded corners of a notch never meet on an edge, however large a radius
\* is asked for (createNotchPath).
CornersFit ==
    \A depth \in TrackLengths, edge \in TrackLengths :
        /\ 2 * createNotchPath(gauge.corner, depth, edge) < 100 * edge
        /\ 2 * createNotchPath(gauge.corner, depth, edge) < 100 * depth

Measured == funnelBox[1] > 0 /\ segW(funnel, funnelBox) > 0

\* The hover overlays end with the box, and each grid line lies in the gap
\* between two of them: three formulas for the same positions agree.
FunnelLinesInGaps ==
    Measured =>
        LET n == stages(funnel)
        IN  /\ overlayAt(funnel, funnelBox, n - 1)[2] = 2 * n * funnelBox[1]
            /\ \A i \in 0 .. n - 2 :
                  /\ overlayAt(funnel, funnelBox, i)[2] <= gridLineAt(funnel, funnelBox, i)
                  /\ gridLineAt(funnel, funnelBox, i) <= overlayAt(funnel, funnelBox, i + 1)[1]
                  /\ funnel.gap > 0 => gridLineAt(funnel, funnelBox, i) < overlayAt(funnel, funnelBox, i + 1)[1]

\* A segment ends as high as the next one begins, and the last is straight.
SegmentsMeet ==
    \A i \in 0 .. stages(funnel) - 1 :
        normEnd(funnel, i) = IF i < stages(funnel) - 1 THEN funnel.values[i + 2] ELSE funnel.values[i + 1]

\* The layers of a segment stay nested under the pointer: a layer that grows
\* more never reaches out of the one around it.
LayersStayNested ==
    \A l \in 0 .. funnel.layers - 2, value \in FunnelValues :
        hSegmentPath(funnel, value, l + 1, TRUE) <= hSegmentPath(funnel, value, l, TRUE)

\* A stage that does not exceed the first stays inside the box, hovered too.
FunnelFits ==
    \A i \in DOMAIN funnel.values, l \in 0 .. funnel.layers - 1 :
        funnel.values[i] <= funnelMax(funnel) =>
            2 * hSegmentPath(funnel, funnel.values[i], l, TRUE) <= 1000 * funnelMax(funnel)

\* Rings shrink with the box: none overlaps the next, and the outermost one,
\* grown by a hover, stays inside the chart.
RingsFit ==
    ring.size >= 16 =>
        \A over \in -1 .. ring.count - 1 :
            LET grown(i, k) == getRingRadii(ring, i)[k] * ringHoverScale(i, over)
            IN  /\ \A i \in 0 .. ring.count - 2 : grown(i, 2) <= grown(i + 1, 1)
                /\ grown(ring.count - 1, 2) <= 100 * ring.size * designOuterRadius(ring)

\* Refuted: no stage leaves the box.  Heights are shares of the first stage,
\* not of the largest.
FunnelAlwaysFits ==
    \A i \in DOMAIN funnel.values :
        2 * hSegmentPath(funnel, funnel.values[i], 0, FALSE) <= 1000 * funnelMax(funnel)

\* Refuted: a ring that is drawn has a radius.  Charts from ten pixels are
\* drawn, but the padding takes sixteen.
RingRadiiPositive == ring.size >= 10 => getRingRadii(ring, 0)[1] >= 0

-----------------------------------------------------------------------------
(***************************************************************************)
(* Bars, square columns, composed bars and candles of the chart library     *)
(* (charts/bar-chart.tsx, bar.tsx, bar-squares-layout.ts, bar-x-axis.tsx,   *)
(* series-bar.tsx, series-bar-layout.ts, candlestick.tsx, y-axis-scales.ts).*)
(* The chart computes where the pointer is and where the tooltip's dots go; *)
(* the bar computes, separately, where it is drawn.  The invariants say     *)
(* that the two agree and that bars neither overlap nor leave their slot.   *)
(* Heights grow upwards from the baseline and are multiplied by the top of  *)
(* the value axis; widths are multiplied by the denominators of the band    *)
(* scale, so that every position is an integer.                             *)
(***************************************************************************)

CONSTANTS BarValues, MaxBarRows, MaxBarSeries, StackGaps, GroupGaps,
          PlotLength, PlotHeight, BarPadding,  \* pixels, and the band's padding in tenths
          SquareSizes, SquareGaps, SlotWidths, MaxBarSteps

VARIABLES barFacet,   \* "bars", "squares", "labels", "composed", "candle" or "life"
          rows,       \* row -> series -> value or NoValue
          axisOf,     \* series -> "left" or "right"
          barMode,    \* [horizontal, stacked, stackGap, groupGap]
          column,     \* [length, size, gap, fit], the input of a square column
          probe,      \* the input of the labels, the composed bars or the candle
          barStatus, barLoaded, barTimer, barHover, barSteps

barInputs == <<barFacet, axisOf, barMode, column, probe>>
barLife == <<barStatus, barLoaded, barTimer>>
barVars == <<barFacet, rows, axisOf, barMode, column, probe, barStatus, barLoaded, barTimer, barHover, barSteps>>

NoValue == -1
NoBar == 0
Largest(S) == CHOOSE x \in S : \A y \in S : x >= y
Smallest(S) == CHOOSE x \in S : \A y \in S : x <= y
HalfUp(a, b) == (2 * a + b) \div (2 * b)

SeriesOf == DOMAIN axisOf
Count == Cardinality(SeriesOf)
N == Len(rows)
Isnumber(i, k) == rows[i][k] # NoValue

RECURSIVE SumTo(_, _)
SumTo(i, k) == IF k = 0 THEN 0 ELSE SumTo(i, k - 1) + IF Isnumber(i, k) THEN rows[i][k] ELSE 0

(***************************************************************************)
(* Value axes: one scale per axis id, from zero to a rounded 110% of the    *)
(* largest value of the axis.                                               *)
(***************************************************************************)
nice(tenths) == (tenths + 9) \div 10
DomainTop(values) == LET max == Largest(values \union {0}) IN nice(11 * IF max = 0 THEN 100 ELSE max)
ValuesOn(keys) == {rows[i][k] : i \in DOMAIN rows, k \in keys} \ {NoValue}

groupLinesByYAxisId(axis) == {k \in SeriesOf : axisOf[k] = axis}
buildYScalesForLines(axis) == DomainTop(ValuesOn(groupLinesByYAxisId(axis)))

\* The largest sum of a row, or the largest value: the axis of a horizontal
\* chart.
maxValue == IF barMode.stacked THEN {SumTo(i, Count) : i \in DOMAIN rows} ELSE ValuesOn(SeriesOf)
valueScale == DomainTop(maxValue)
topOf(k) == IF barMode.horizontal THEN valueScale ELSE buildYScalesForLines(axisOf[k])

\* Pixels and values in the unit of series k's axis.
BarPixels(k, px) == px * topOf(k)
RoundUp(k, v) == v * (IF barMode.horizontal THEN PlotLength ELSE PlotHeight)

(***************************************************************************)
(* Bands.  Widths are in units of 1 / ((10 n + padding) series) pixels.     *)
(***************************************************************************)
Denominator == 10 * N + BarPadding
AlongBar(px) == px * Denominator * Count
barScale(i) == Count * PlotLength * (BarPadding + 10 * (i - 1))
bandWidth == Count * PlotLength * (10 - BarPadding)
effectiveGroupGap(gap) == IF Count > 1 THEN gap ELSE 0
barWidth(gap) == PlotLength * (10 - BarPadding) - effectiveGroupGap(gap) * Denominator * (Count - 1)
barLeft(i, k, gap) == barScale(i) + (k - 1) * (barWidth(gap) + AlongBar(effectiveGroupGap(gap)))

\* Which band the pointer is over.
bandIndex(pos) == Largest({1, Smallest({N, 1 + (pos * N) \div (PlotLength * Denominator * Count)})})

\* The stretch of the value axis a bar covers: <<foot, top>>.
stackGapOffset(k) == BarPixels(k, (k - 1) * barMode.stackGap)
verticalStacked(i, k) ==
    LET offset == SumTo(i, k - 1)
        foot   == RoundUp(k, offset) + stackGapOffset(k) + IF k < Count THEN BarPixels(k, barMode.stackGap) ELSE 0
        top    == RoundUp(k, offset + rows[i][k]) + stackGapOffset(k)
    IN  <<Smallest({foot, top}), top>>
horizontalStacked(i, k) ==
    LET left  == RoundUp(k, SumTo(i, k - 1))
        width == RoundUp(k, rows[i][k]) - left
        gap   == IF k < Count THEN BarPixels(k, barMode.stackGap) ELSE 0
        from  == left + stackGapOffset(k)
    IN  <<from, from + IF gap > 0 THEN Largest({0, width - gap}) ELSE width>>
Bar(i, k) ==
    IF ~barMode.stacked THEN <<0, RoundUp(k, rows[i][k])>>
    ELSE IF barMode.horizontal THEN horizontalStacked(i, k) ELSE verticalStacked(i, k)

\* Where the hover handler puts the dot of series k: across and along the
\* value axis.  It counts only the series that have a value in the row, and
\* takes the gap between grouped bars to be four pixels.
dotAcross(i, k) ==
    IF barMode.stacked THEN 2 * barScale(i) + bandWidth
    ELSE 2 * barLeft(i, k, 4) + barWidth(4)
seriesIdx(i, k) == Cardinality({j \in 1 .. k - 1 : Isnumber(i, j)})
dotEnd(i, k) ==
    IF ~barMode.stacked THEN RoundUp(k, rows[i][k])
    ELSE RoundUp(k, SumTo(i, k)) + IF barMode.horizontal THEN 0 ELSE BarPixels(k, seriesIdx(i, k) * barMode.stackGap)

(***************************************************************************)
(* Square columns: positions from the top of the column, times the number   *)
(* of gaps.                                                                 *)
(***************************************************************************)
squareCount(c) ==
    IF c.length <= 0 \/ c.size <= 0 THEN 0
    ELSE IF c.fit THEN Largest({1, (c.length + c.gap) \div (c.size + c.gap)})
                  ELSE Largest({1, HalfUp(c.length, c.size + c.gap)})
gapsIn(c) == Largest({1, squareCount(c) - 1})
columnHeight(c) ==
    IF squareCount(c) = 0 THEN 0 ELSE IF c.fit THEN c.length
    ELSE squareCount(c) * c.size + (squareCount(c) - 1) * c.gap
squareStep(c) ==
    gapsIn(c) * c.size +
        (IF ~c.fit THEN gapsIn(c) * c.gap
         ELSE IF squareCount(c) > 1 THEN Largest({0, c.length - squareCount(c) * c.size}) ELSE 0)
computeSquareColumn(c) ==
    [i \in 1 .. squareCount(c) |-> gapsIn(c) * (columnHeight(c) - c.size) - (i - 1) * squareStep(c)]

\* The centre of the topmost square above the baseline, doubled.
topSquareCenterY(c) == IF squareCount(c) = 0 THEN 0 ELSE 2 * columnHeight(c) - c.size

(***************************************************************************)
(* Labels of the category axis, composed bars and candles.                  *)
(***************************************************************************)
barLabelsToShow(n, maxLabels) ==
    IF n <= maxLabels THEN 0 .. n - 1
    ELSE {i \in 0 .. n - 1 : i % ((n + maxLabels - 1) \div maxLabels) = 0}

\* Opacity, in twentieths, of a label at a distance from the crosshair.
BarXAxisLabel(distance, half) ==
    IF distance < half THEN 0 ELSE IF distance < half + 20 THEN distance - half ELSE 20

\* Width of one bar of a composed chart, in hundredths of a pixel times the
\* number of series: 88% of the slot, shrunk so that the group takes 92%.
computeSeriesBarWidth(slot, series) ==
    LET wide  == 88 * slot * series
        group == 92 * slot - (series - 1) * 400
    IN  IF series > 1 /\ series * 88 * slot + (series - 1) * 400 > 92 * slot
        THEN Largest({400 * series, group, 200 * series}) ELSE Largest({200 * series, wide})

\* Twice the left edge of bar k of the group, from the centre of its slot,
\* in the same unit.
groupWidth(width, series) == series * width + (series - 1) * 400 * series
computeSeriesBarLayout(width, series, k) == 2 * (k - 1) * (width + 400 * series) - groupWidth(width, series)

\* Room left for the reveal beside the first and the last slot, in pixels.
computeSeriesBarRevealClipPadding(width, series) ==
    (groupWidth(width, series) + 200 * series - 1) \div (200 * series)

\* A candle: <<foot, top>> of its body and of its wick, a pixel at least.
candleRange(a, b) == IF a = b THEN <<a - 1, a>> ELSE <<Smallest({a, b}), Largest({a, b})>>
candleBody(open, high, low, close) == candleRange(open, close)
candleWick(open, high, low, close) == candleRange(low, high)

(***************************************************************************)
(* The chart's life: a reveal is restarted by a new status, a new motion    *)
(* setting or a new number of rows, and holds the pointer off.              *)
(***************************************************************************)
RowsOf(s) == [1 .. s -> BarValues \union {NoValue}]
Tables(n) == UNION {[1 .. r -> RowsOf(n)] : r \in 1 .. MaxBarRows}
Modes == [horizontal : BOOLEAN, stacked : BOOLEAN, stackGap : StackGaps, groupGap : GroupGaps]
Columns == [length : 0 .. PlotHeight, size : SquareSizes, gap : SquareGaps, fit : BOOLEAN]
Probes == [labels |-> [n : 1 .. 40, limit : 1 .. 12],
           composed |-> [slot : SlotWidths, series : 1 .. 3],
           candle |-> [open : 1 .. 4, high : 1 .. 4, low : 1 .. 4, close : 1 .. 4]]
OneRow == <<[k \in 1 .. 1 |-> 1]>>

BarInit ==
    /\ barFacet \in {"bars", "squares", "life"} \union DOMAIN Probes
    /\ probe \in (IF barFacet \in DOMAIN Probes THEN Probes[barFacet] ELSE {<<>>})
    /\ barMode \in (IF barFacet = "bars" THEN Modes
                    ELSE {[horizontal |-> FALSE, stacked |-> FALSE, stackGap |-> 0, groupGap |-> 4]})
    /\ IF barFacet = "bars"
       THEN \E n \in 1 .. MaxBarSeries :
                /\ rows \in Tables(n)
                /\ axisOf \in (IF barMode.stacked THEN [1 .. n -> {"left"}] ELSE [1 .. n -> {"left", "right"}])
       ELSE rows = OneRow /\ axisOf = <<"left">>
    /\ column \in (IF barFacet = "squares" THEN Columns
                   ELSE {[length |-> 0, size |-> 1, gap |-> 0, fit |-> FALSE]})
    /\ barStatus \in (IF barFacet = "life" THEN {"loading", "ready"} ELSE {"ready"})
    /\ barLoaded = FALSE /\ barTimer = (barStatus = "ready")
    /\ barHover = NoBar /\ barSteps = 0

\* The reveal effect: while loading the skeleton is held.
barReveal(status) == barLoaded' = FALSE /\ barTimer' = (status = "ready")

Living == barFacet = "life" /\ barSteps < MaxBarSteps /\ barSteps' = barSteps + 1

statusFlip ==
    /\ Living /\ barStatus' = (IF barStatus = "ready" THEN "loading" ELSE "ready")
    /\ barReveal(barStatus') /\ UNCHANGED <<barInputs, rows, barHover>>

signatureChanges == Living /\ barReveal(barStatus) /\ UNCHANGED <<barInputs, rows, barStatus, barHover>>

rowsChange(n) ==
    /\ Living /\ n # N /\ n \in 1 .. MaxBarRows
    /\ rows' = [i \in 1 .. n |-> OneRow[1]]
    /\ barReveal(barStatus) /\ UNCHANGED <<barInputs, barStatus, barHover>>

barTimerFires ==
    /\ barTimer /\ barFacet = "life"
    /\ barLoaded' = TRUE /\ barTimer' = FALSE
    /\ UNCHANGED <<barInputs, rows, barStatus, barHover, barSteps>>

barMove(i) ==
    /\ Living /\ barLoaded
    /\ barHover' = bandIndex(barScale(i))
    /\ UNCHANGED <<barInputs, rows, barLife>>

\* The handlers are only bound while the chart can be interacted with.
barLeave ==
    /\ Living /\ barLoaded /\ barHover # NoBar
    /\ barHover' = NoBar /\ UNCHANGED <<barInputs, rows, barLife>>

BarNext ==
    \/ statusFlip \/ signatureChanges \/ barTimerFires \/ barLeave
    \/ \E n \in 1 .. MaxBarRows : rowsChange(n)
    \/ \E i \in DOMAIN rows : barMove(i)

BarSpec == BarInit /\ [][BarNext]_barVars

(***************************************************************************)
(* Properties.                                                              *)
(***************************************************************************)
\* Type correctness.
BarTypeOK ==
    /\ barHover \in 0 .. MaxBarRows /\ barLoaded \in BOOLEAN /\ barTimer \in BOOLEAN
    /\ \A i \in DOMAIN rows : DOMAIN rows[i] = SeriesOf

Drawn == {<<i, k>> \in (DOMAIN rows) \X SeriesOf : Isnumber(i, k)}

\* The bars of a group fill their band exactly, in order and apart.
GroupFillsBand ==
    \A i \in DOMAIN rows :
        LET g == barMode.groupGap
        IN  /\ barLeft(i, 1, g) = barScale(i)
            /\ barLeft(i, Count, g) + barWidth(g) = barScale(i) + bandWidth
            /\ \A k \in 1 .. Count - 1 : barLeft(i, k, g) + barWidth(g) <= barLeft(i, k + 1, g)

\* The pointer on any pixel of a bar picks that bar's row: the handler
\* divides the plot evenly while the band scale pads its ends.
PointerPicksBar ==
    \A i \in DOMAIN rows : \A pos \in {barScale(i), barScale(i) + bandWidth - 1} : bandIndex(pos) = i

\* Every value fits below the top of the axis its series is drawn against.
AxisHoldsItsSeries == \A d \in Drawn : ~barMode.stacked => rows[d[1]][d[2]] <= topOf(d[2])

\* The tooltip's dot is on the middle of its bar, when the bars are grouped
\* with the four pixels the handler assumes.
DotOnItsBar ==
    ~barMode.stacked /\ barMode.groupGap = 4 =>
        \A d \in Drawn : dotAcross(d[1], d[2]) = 2 * barLeft(d[1], d[2], barMode.groupGap) + barWidth(barMode.groupGap)

\* In a vertical stack each bar lies above the one below it.
StackedBarsApart ==
    barMode.stacked /\ ~barMode.horizontal =>
        \A d, e \in Drawn : d[1] = e[1] /\ d[2] < e[2] => Bar(d[1], d[2])[2] <= Bar(e[1], e[2])[1]

\* In a vertical stack without missing values the dot is at the top of its
\* bar, gaps included.
StackDotOnTop ==
    barMode.stacked /\ ~barMode.horizontal =>
        \A d \in Drawn : (\A k \in SeriesOf : Isnumber(d[1], k)) =>
            dotEnd(d[1], d[2]) = Bar(d[1], d[2])[2]

\* Squares stack without overlap from the foot of the column to its top, and
\* an unfitted column of several squares is at most half a step too long.
SquaresFillColumn ==
    squareCount(column) > 0 /\ column.length >= column.size =>
        LET at == computeSquareColumn(column)
            n  == Len(at)
        IN  /\ at[1] + gapsIn(column) * column.size = gapsIn(column) * columnHeight(column)
            /\ \A i \in 1 .. n : at[i] >= 0
            /\ \A i \in 1 .. n - 1 : at[i + 1] + gapsIn(column) * column.size <= at[i]
            /\ ~column.fit /\ n > 1 => 2 * (columnHeight(column) + column.gap) <= 2 * column.length + column.size + column.gap

\* The dot of a square column is at the centre of its topmost square, when
\* the column has several squares or none was stretched.
DotOnTopSquare ==
    squareCount(column) > 1 \/ (squareCount(column) = 1 /\ ~column.fit) =>
        LET at == computeSquareColumn(column)
        IN  gapsIn(column) * topSquareCenterY(column) =
                gapsIn(column) * (2 * columnHeight(column) - column.size) - 2 * at[Len(at)]

\* However many rows there are, no more labels are shown than asked for.
LabelsWithinLimit ==
    barFacet = "labels" =>
        /\ Cardinality(barLabelsToShow(probe.n, probe.limit)) <= probe.limit
        /\ 0 \in barLabelsToShow(probe.n, probe.limit)

\* A label fades steadily towards the crosshair's ticker, starting at its edge
\* (n stands for the distance, the limit for half the ticker's width).
LabelsFadeSteadily ==
    barFacet = "labels" =>
        LET fade(d) == BarXAxisLabel(d, probe.limit)
        IN  /\ fade(probe.n) <= fade(probe.n + 1)
            /\ fade(probe.n + 1) - fade(probe.n) <= 1
            /\ probe.n <= probe.limit => fade(probe.n) = 0

\* The bars of a composed chart sit symmetrically on their slot's centre, and
\* stay inside the slot when it has room for four pixels a bar.
SeriesBarsCentred ==
    barFacet = "composed" =>
        LET s == probe.series
            w == computeSeriesBarWidth(probe.slot, s)
        IN  /\ computeSeriesBarLayout(w, s, 1) + computeSeriesBarLayout(w, s, s) + 2 * w = 0
            /\ 92 * probe.slot >= 400 * (2 * s - 1) => groupWidth(w, s) <= 100 * probe.slot * s

\* The reveal's clip leaves room for the half of a group that hangs over the
\* plot's edge.
SeriesClipCovers ==
    barFacet = "composed" =>
        LET w == computeSeriesBarWidth(probe.slot, probe.series)
        IN  200 * probe.series * computeSeriesBarRevealClipPadding(w, probe.series) >= groupWidth(w, probe.series)

\* A candle's body lies on its wick, but for the one pixel a flat body gets.
CandleBodyOnWick ==
    barFacet = "candle" =>
        LET ends == {probe.open, probe.close}
            body == candleBody(probe.open, probe.high, probe.low, probe.close)
            wick == candleWick(probe.open, probe.high, probe.low, probe.close)
        IN  probe.low <= Smallest(ends) /\ Largest(ends) <= probe.high =>
                /\ body[1] < body[2] /\ wick[1] < wick[2]
                /\ body[2] <= wick[2] /\ body[1] >= wick[1] - 1

\* At rest the bars are revealed exactly when the chart is ready.
BarsRevealInStatus == ~barTimer /\ barFacet = "life" => barLoaded = (barStatus = "ready")

\* Refuted: a stack stays inside the plot.  The vertical axis is built from
\* single values, not from the sums maxValue computes.
StackInsidePlot ==
    barMode.stacked /\ barMode.stackGap = 0 =>
        \A d \in Drawn : Bar(d[1], d[2])[2] <= BarPixels(d[2], IF barMode.horizontal THEN PlotLength ELSE PlotHeight)

\* Refuted: the dots of a horizontal stack are at the ends of its bars.  The
\* bar subtracts its offset from the value's own position.
HorizontalDotAtEnd ==
    barMode.stacked /\ barMode.horizontal /\ barMode.stackGap = 0 =>
        \A d \in Drawn : dotEnd(d[1], d[2]) = Bar(d[1], d[2])[2]

\* Refuted: with a missing value too.  The handler numbers the series that
\* have a value, the bar all of them.
StackDotAlwaysOnTop ==
    barMode.stacked /\ ~barMode.horizontal =>
        \A d \in Drawn : dotEnd(d[1], d[2]) = Bar(d[1], d[2])[2]

\* Refuted: for any gap between grouped bars.
DotOnItsBarAnyGap ==
    ~barMode.stacked =>
        \A d \in Drawn : dotAcross(d[1], d[2]) = 2 * barLeft(d[1], d[2], barMode.groupGap) + barWidth(barMode.groupGap)

\* Refuted: for a fitted column of one square, which stays at the foot.
DotAlwaysOnTopSquare ==
    squareCount(column) > 0 =>
        LET at == computeSquareColumn(column)
        IN  gapsIn(column) * topSquareCenterY(column) =
                gapsIn(column) * (2 * columnHeight(column) - column.size) - 2 * at[Len(at)]

\* Refuted: the hovered bar exists.  A shorter read keeps the index.
HoveredBarExists == barHover <= N

=============================================================================
