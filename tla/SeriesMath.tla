----------------------------- MODULE SeriesMath -----------------------------
(***************************************************************************)
(* The pure algorithms behind the line, candle and profit charts            *)
(* (charts/decimate-time-series.ts, profit-loss-segments.ts,                *)
(* reference-area-geometry.ts, x-axis.tsx, projection-utils.ts,             *)
(* projection-config.ts).  Each run chooses one algorithm and one input;    *)
(* the invariants compare the outcome with a definition of what it is for.  *)
(* Indices start at 1 here and at 0 in the code.  Fractions are pairs.      *)
(***************************************************************************)
EXTENDS Integers, Sequences, FiniteSets

CONSTANTS MathValues, MaxPointsIn, PointLimits, CandleRows, MaxCandles, SignedValues,
          AreaEnds, AreaSize, TickTimes, TickTargets, LabelSpans, AxisEnds, MaxGapLayouts,
          ProjectionTimes, ProjectionValues, Horizons, DomainEnds

VARIABLES algorithm, input
mathVars == <<algorithm, input>>

Gap == -99
Top(S) == CHOOSE x \in S : \A y \in S : x >= y
Bottom(S) == CHOOSE x \in S : \A y \in S : x <= y
Size(x) == IF x < 0 THEN 0 - x ELSE x
SeqsUpTo(S, n) == UNION {[1 .. k -> S] : k \in 1 .. n}

RECURSIVE Total(_, _)
Total(s, D) == IF D = {} THEN 0 ELSE LET d == Top(D) IN s[d] + Total(s, D \ {d})

(***************************************************************************)
(* Thinning a line: largest triangle per bucket.  sampledAt(k) is the index *)
(* kept in the k-th place.                                                  *)
(***************************************************************************)
bucketEdge(len, limit, i) == (i * (len - 2)) \div (limit - 2) + 1

nextBucket(len, limit, i) ==
    bucketEdge(len, limit, i + 2) .. Bottom({bucketEdge(len, limit, i + 3), len}) - 1

\* Twice the triangle's area, times the number of points it is averaged over.
area(ys, len, limit, i, previous, j) ==
    LET next == nextBucket(len, limit, i)
        c    == IF next = {} THEN 1 ELSE Cardinality(next)
        sumX == IF next = {} THEN len - 1 ELSE Total([x \in next |-> x], next)
        sumY == IF next = {} THEN ys[len] ELSE Total([x \in next |-> ys[x + 1]], next)
        ay   == ys[previous + 1]
    IN  Size((previous * c - sumX) * (ys[j + 1] - ay) - (previous - j) * (sumY - ay * c))

RECURSIVE sampledAt(_, _, _)
sampledAt(ys, limit, k) ==
    LET len   == Len(ys)
        i     == k - 2
        range == bucketEdge(len, limit, i + 1) .. Bottom({bucketEdge(len, limit, i + 2), len - 1}) - 1
        previous == sampledAt(ys, limit, k - 1)
    IN  IF k = 1 THEN 0 ELSE IF k = limit THEN len - 1
        ELSE IF range = {} THEN bucketEdge(len, limit, i + 1)
        ELSE CHOOSE j \in range :
                 /\ \A h \in range : area(ys, len, limit, i, previous, j) >= area(ys, len, limit, i, previous, h)
                 /\ \A h \in range : h < j => area(ys, len, limit, i, previous, h) < area(ys, len, limit, i, previous, j)

decimateTimeSeries(ys, limit) ==
    IF limit >= Len(ys) \/ limit < 3 THEN [k \in 1 .. Len(ys) |-> k - 1]
    ELSE [k \in 1 .. limit |-> sampledAt(ys, limit, k)]

(***************************************************************************)
(* Thinning candles: one per bucket of rows.                                *)
(***************************************************************************)
ohlcBucket(len, limit, i) == (i * len) \div limit + 1 .. Bottom({len, ((i + 1) * len) \div limit})

merged(data, B) ==
    [open |-> data[Bottom(B)].open, close |-> data[Top(B)].close,
     high |-> Top({data[j].high : j \in B}), low |-> Bottom({data[j].low : j \in B})]

decimateOhlcData(data, limit) ==
    LET len == Len(data)
        kept == {i \in 0 .. limit - 1 : ohlcBucket(len, limit, i) # {}}
    IN  IF limit >= len \/ limit < 2 THEN data
        ELSE [k \in 1 .. Cardinality(kept) |->
                 merged(data, ohlcBucket(len, limit, CHOOSE i \in kept : Cardinality({h \in kept : h < i}) = k - 1))]

(***************************************************************************)
(* Runs of one sign; a gap ends a run, and a lone point is not drawn.       *)
(***************************************************************************)
positive(v) == v >= 0

\* Where the run that is current after the i-th point began; 0 for none.
RECURSIVE currentAt(_, _)
currentAt(s, i) ==
    IF i = 0 \/ s[i] = Gap THEN 0
    ELSE LET current == currentAt(s, i - 1)
         IN  IF current = 0 \/ positive(s[current]) # positive(s[i]) THEN i ELSE current

splitProfitLossSegments(s) ==
    {r \in {{i \in 1 .. Len(s) : s[i] # Gap /\ currentAt(s, i) = first} : first \in 1 .. Len(s)} : Cardinality(r) > 1}

(***************************************************************************)
(* A reference area, <<from, to>> on each axis; None when it is not drawn.  *)
(***************************************************************************)
None == [x |-> <<0, 0>>, y |-> <<0, 0>>]
Side(from, to) == LET a == IF from = Gap THEN 0 ELSE from
                      b == IF to = Gap THEN AreaSize ELSE to
                  IN  <<Bottom({a, b}), Top({a, b})>>
Drawable(r) == r.x[1] < r.x[2] /\ r.y[1] < r.y[2]

clampRectToPlot(r) == [k \in {"x", "y"} |-> <<Top({0, r[k][1]}), Bottom({AreaSize, r[k][2]})>>]

isFullyInsidePlot(r) == \A k \in {"x", "y"} : r[k][1] >= 0 /\ r[k][2] <= AreaSize

computeReferenceAreaRect(x1, x2, y1, y2, overflow) ==
    LET r == [x |-> Side(x1, x2), y |-> Side(y1, y2)]
    IN  IF ~Drawable(r) THEN None
        ELSE IF overflow = "visible" THEN r
        ELSE IF overflow = "discard" THEN (IF isFullyInsidePlot(r) THEN r ELSE None)
        ELSE IF Drawable(clampRectToPlot(r)) THEN clampRectToPlot(r) ELSE None

(***************************************************************************)
(* Ticks of the time axis: a layout is a set of row indices.                *)
(***************************************************************************)
Nth(I, k) == CHOOSE x \in I : Cardinality({y \in I : y < x}) = k - 1
GapsOf(I, at) == [k \in 1 .. Cardinality(I) - 1 |-> at[Nth(I, k + 1)] - at[Nth(I, k)]]
RangeOf(f) == {f[x] : x \in DOMAIN f}

indicesForTickCount(n, count) ==
    {1, n} \union {1 + (2 * i * (n - 1) + (count - 1)) \div (2 * (count - 1)) : i \in 0 .. count - 1}

allIndexLayouts(n, count) ==
    LET every == {I \in SUBSET (1 .. n) : Cardinality(I) = count /\ 1 \in I /\ n \in I}
    IN  IF Cardinality(every) > MaxGapLayouts THEN {indicesForTickCount(n, count)} ELSE every

labelOf(t, span) == t \div span
dedupeIndicesByLabel(I, times, span) ==
    {i \in I : \A j \in I : j < i => labelOf(times[j], span) # labelOf(times[i], span)}

\* The score of a layout as <<numerator, denominator>>.
scoreTickLayout(I, times, target) ==
    LET g     == Cardinality(I) - 1
        px    == GapsOf(I, times)
        gaps  == GapsOf(I, [i \in 1 .. Len(times) |-> i])
        span  == times[Top(I)] - times[Bottom(I)]
        least == Bottom({k \in 1 .. g : gaps[k] = Bottom(RangeOf(gaps))})
        skew  == Total([k \in 1 .. g |-> Size(gaps[k] - gaps[g + 1 - k])], 1 .. g)
    IN  <<100 * (Top(RangeOf(px)) - Bottom(RangeOf(px))) * g * g
              + 10 * Size(g + 1 - target) * span * g
              + (IF least > 1 /\ least < g THEN 8 * span * g ELSE 0) + 2 * skew * span,
          100 * span * g>>

Lower(a, b) == a[1] * b[2] < b[1] * a[2]

\* Of the layouts with the lowest score (ties are broken by rules that no
\* property below tells apart).
selectEvenlySpacedIndices(times, target, span) ==
    LET n     == Len(times)
        tried == {indicesForTickCount(n, target)} \union
                 UNION {{dedupeIndicesByLabel(I, times, span) : I \in allIndexLayouts(n, c)} :
                            c \in Top({2, target - 1}) .. Bottom({n, target + 1})}
        able  == {I \in tried : Cardinality(I) >= 2}
    IN  IF n <= target THEN 1 .. n
        ELSE CHOOSE I \in able : \A J \in able : ~Lower(scoreTickLayout(J, times, target), scoreTickLayout(I, times, target))

buildDataAlignedTicks(times, target, span) ==
    dedupeIndicesByLabel(selectEvenlySpacedIndices(times, target, span), times, span)

\* Evenly spaced times from one end of the axis to the other, in units of
\* 1/(count - 1), and the labels they show.
Label(t, unit, span) == t \div (unit * span)
buildDomainTicks(from, to, count) == {from * (count - 1) + i * (to - from) : i \in 0 .. count - 1}

\* At most three more labels past the last row, and one for the axis' end.
appendProjectionTailTicks(labels, last, end, extra, span) ==
    LET n == Bottom({extra, 3})
    IN  labels \union {Label(last * (n + 1) + i * (end - last), n + 1, span) : i \in 1 .. n} \union {labelOf(end, span)}

domainExtendsPastData(times, end) == end > times[Len(times)]

\* The labels under a chart whose axis runs to end.
labelsToShow(times, target, span, tickMode, end, brushed) ==
    LET n        == Len(times)
        past     == tickMode = "data" /\ domainExtendsPastData(times, end)
        dataTicks == {labelOf(times[i], span) : i \in buildDataAlignedTicks(times, target, span)}
        domainTicks == {Label(t, Top({2, target}) - 1, span) : t \in buildDomainTicks(times[1], end, Top({2, target}))}
    IN  IF tickMode = "domain" \/ (past /\ ~brushed) THEN domainTicks
        ELSE IF past THEN appendProjectionTailTicks(dataTicks, times[n], end,
                              Top({1, target - Cardinality(dataTicks) + 1}), span)
        ELSE dataTicks

(***************************************************************************)
(* Projections.                                                             *)
(***************************************************************************)
resolveStartIndex(n, start) == IF start = Gap THEN n ELSE Bottom({Top({1, start}), n})

\* <<numerator, denominator>> of the step between rows.
resolveIntervalMs(s, at) ==
    IF at > 1 /\ s[at].t > s[at - 1].t THEN <<s[at].t - s[at - 1].t, 1>>
    ELSE IF Len(s) > 1 /\ s[Len(s)].t > s[1].t THEN <<s[Len(s)].t - s[1].t, Len(s) - 1>>
    ELSE <<24, 1>>

History(s, at) == {i \in 1 .. at : s[i].y # Gap}

linearRegressionSlope(s, H) ==
    LET n    == Cardinality(H)
        T    == Total([i \in H |-> s[i].t], H)
        den  == n * Total([i \in H |-> s[i].t * s[i].t], H) - T * T
    IN  IF n < 2 \/ den = 0 THEN <<0, 1>>
        ELSE <<n * Total([i \in H |-> s[i].t * s[i].y], H) - T * Total([i \in H |-> s[i].y], H), den>>

lastSegmentSlope(s, H) ==
    LET last == Top(H)
        prev == Top(H \ {last})
    IN  IF s[last].t = s[prev].t THEN <<0, 1>> ELSE <<s[last].y - s[prev].y, s[last].t - s[prev].t>>

autoSlope(s, H, method) ==
    IF method = "lastSegment" /\ Cardinality(H) >= 2 THEN lastSegmentSlope(s, H) ELSE linearRegressionSlope(s, H)

\* The path is its two ends: the anchor, and how far the horizon lies from it
\* in time and in value; empty when the anchor has no value.
buildProjectionPath(s, start, mode, method, horizon, target) ==
    LET at   == resolveStartIndex(Len(s), start)
        step == resolveIntervalMs(s, at)
        m    == autoSlope(s, History(s, at), method)
    IN  IF s[at].y = Gap THEN <<>>
        ELSE <<[t |-> s[at].t, y |-> s[at].y],
               [t |-> <<step[1] * horizon, step[2]>>,
                y |-> IF mode = "target" THEN <<target - s[at].y, 1>>
                      ELSE <<m[1] * step[1] * horizon, m[2] * step[2]>>]>>

\* The value axis with a projection on it, in twentieths.
mergeProjectionYDomain(d, e) ==
    LET lo  == Bottom({d[1], e[1]})
        hi  == Top({d[2], e[2]})
        pad == IF hi = lo THEN 20 ELSE hi - lo
    IN  IF lo >= 0 /\ d[1] >= 0 THEN <<0, IF hi <= 0 THEN 2000 ELSE 22 * hi>>
        ELSE <<20 * lo - pad, 20 * hi + pad>>

(***************************************************************************)
(* Inputs.                                                                  *)
(***************************************************************************)
Points == [t : ProjectionTimes, y : ProjectionValues \union {Gap}]
InputsOf ==
    [decimate |-> [ys : SeqsUpTo(MathValues, MaxPointsIn), limit : PointLimits],
     ohlc |-> [data : SeqsUpTo(CandleRows, MaxCandles), limit : {2, 3}],
     profit |-> [ys : SeqsUpTo(SignedValues \union {Gap}, MaxPointsIn)],
     area |-> [x1 : AreaEnds, x2 : AreaEnds, y1 : AreaEnds, y2 : {Gap, 1, 5}, overflow : {"hidden", "visible", "discard"}],
     ticks |-> [shown : SUBSET TickTimes \ {{}}, target : TickTargets, span : LabelSpans,
               tickMode : {"data", "domain"}, end : AxisEnds, brushed : BOOLEAN],
     projection |-> [data : {s \in SeqsUpTo(Points, 3) : \A i \in 1 .. Len(s) - 1 : s[i].t <= s[i + 1].t},
                     start : {Gap, 1, 2, 9}, mode : {"auto", "target"},
                     method : {"linearRegression", "lastSegment"}, horizon : Horizons],
     domain |-> [d : {<<a, b>> \in DomainEnds \X DomainEnds : a <= b},
                 e : {<<a, b>> \in DomainEnds \X DomainEnds : a <= b}]]

NoInput == [nothing |-> TRUE]
Given(name) == algorithm = name /\ input # NoInput
MathInit == algorithm \in DOMAIN InputsOf /\ input = NoInput

\* A page hands the chart its data.
newInput == input = NoInput /\ input' \in InputsOf[algorithm] /\ UNCHANGED algorithm
MathNext == newInput
MathSpec == MathInit /\ [][MathNext]_mathVars

(***************************************************************************)
(* Properties.                                                              *)
(***************************************************************************)
\* A thinned line keeps its ends, has as many points as were asked for, and
\* never runs backwards.
ThinnedKeepsEnds ==
    Given("decimate") =>
        LET kept == decimateTimeSeries(input.ys, input.limit)
        IN  /\ kept[1] = 0 /\ kept[Len(kept)] = Len(input.ys) - 1
            /\ input.limit >= 3 => Len(kept) = Bottom({input.limit, Len(input.ys)})
            /\ \A k \in 1 .. Len(kept) - 1 : kept[k] <= kept[k + 1]

\* Thinned candles keep the extremes: the highest high and the lowest low of
\* the rows, the first open and the last close.
ThinnedKeepsExtremes ==
    Given("ohlc") =>
        LET kept == decimateOhlcData(input.data, input.limit)
        IN  /\ Top({r.high : r \in RangeOf(kept)}) = Top({r.high : r \in RangeOf(input.data)})
            /\ Bottom({r.low : r \in RangeOf(kept)}) = Bottom({r.low : r \in RangeOf(input.data)})
            /\ kept[1].open = input.data[1].open
            /\ kept[Len(kept)].close = input.data[Len(input.data)].close

\* Two neighbouring points are drawn in one run exactly when both have a value
\* of the same sign; no point is in two runs.
RunsJoinNeighbours ==
    Given("profit") =>
        LET runs == splitProfitLossSegments(input.ys)
            s    == input.ys
        IN  /\ \A i \in 1 .. Len(s) - 1 :
                  (\E r \in runs : {i, i + 1} \subseteq r)
                      <=> (s[i] # Gap /\ s[i + 1] # Gap /\ positive(s[i]) = positive(s[i + 1]))
            /\ \A r, q \in runs : r # q => r \intersect q = {}
            /\ \A r \in runs : \A i, j \in r, k \in 1 .. Len(s) : i <= k /\ k <= j => s[k] # Gap

\* A hidden overflow shows exactly the part of the area inside the plot, and a
\* discarded one nothing that reaches out of it.
AreaIsClipped ==
    Given("area") =>
        LET rect(o) == computeReferenceAreaRect(input.x1, input.x2, input.y1, input.y2, o)
            r == rect(input.overflow)
            in(q, x, y) == q.x[1] <= x /\ x < q.x[2] /\ q.y[1] <= y /\ y < q.y[2]
        IN  /\ input.overflow = "hidden" =>
                  \A x, y \in -3 .. AreaSize + 3 :
                      in(r, x, y) <=> (in(rect("visible"), x, y) /\ x \in 0 .. AreaSize - 1 /\ y \in 0 .. AreaSize - 1)
            /\ input.overflow = "discard" /\ r # None => r = rect("hidden")

\* With a label of its own for every row, the ticks include the first and the
\* last row and are at most one more or fewer than asked for.
TicksSpanData ==
    Given("ticks") /\ input.span = 1 =>
        LET times == [i \in 1 .. Cardinality(input.shown) |-> Nth(input.shown, i)]
            ticks == buildDataAlignedTicks(times, input.target, input.span)
        IN  /\ {1, Len(times)} \subseteq ticks
            /\ Cardinality(ticks) <= input.target + 1
            /\ Cardinality(ticks) >= Bottom({Len(times), Top({2, input.target - 1})})

\* On evenly spaced rows that the asked-for ticks divide evenly, the chosen
\* ticks are evenly spaced.
TicksAreEven ==
    Given("ticks") /\ input.span = 1 /\ Cardinality(input.shown) > input.target =>
        LET times == [i \in 1 .. Cardinality(input.shown) |-> Nth(input.shown, i)]
            spread(I) == Top(RangeOf(GapsOf(I, times))) - Bottom(RangeOf(GapsOf(I, times)))
        IN  (Len(times) - 1) % (input.target - 1) = 0 /\ spread(1 .. Len(times)) = 0 =>
                spread(selectEvenlySpacedIndices(times, input.target, input.span)) = 0

\* An axis that runs on past the last row (for a projection) shows the label of
\* its end, whichever way its ticks are made.
TailIsLabelled ==
    Given("ticks") =>
        LET times == [i \in 1 .. Cardinality(input.shown) |-> Nth(input.shown, i)]
        IN  input.end >= times[Len(times)] /\ (input.tickMode = "domain" \/ domainExtendsPastData(times, input.end)) =>
                labelOf(input.end, input.span) \in labelsToShow(times, input.target, input.span, input.tickMode, input.end, input.brushed)

\* On rows of one line the regression and the last segment project the same
\* path, and every path leaves its anchor forwards in time.
ProjectionContinuesLine ==
    Given("projection") =>
        LET s       == input.data
            at      == resolveStartIndex(Len(s), input.start)
            H       == History(s, at)
            line(i, j, k) == (s[j].y - s[i].y) * (s[k].t - s[i].t) = (s[k].y - s[i].y) * (s[j].t - s[i].t)
            path    == buildProjectionPath(s, input.start, input.mode, input.method, input.horizon, 0)
            a       == linearRegressionSlope(s, H)
            b       == lastSegmentSlope(s, H)
        IN  /\ path # <<>> => path[1].t = s[at].t /\ path[2].t[1] > 0 /\ path[2].t[2] > 0
            /\ Cardinality(H) >= 2 /\ (\A i, j \in H : i # j => s[i].t # s[j].t) /\ (\A i, j, k \in H : line(i, j, k)) =>
                  a[1] * b[2] = b[1] * a[2]

\* The value axis holds what it held and the projection.
AxisHoldsProjection ==
    Given("domain") =>
        LET r == mergeProjectionYDomain(input.d, input.e)
        IN  /\ r[1] < r[2]
            /\ r[1] <= 20 * Bottom({input.d[1], input.e[1]}) /\ 20 * Top({input.d[2], input.e[2]}) <= r[2]

\* Refuted: a thinned line has no point twice.  Each bucket is taken one too
\* far: the rows after the first are never kept and the last is kept twice.
ThinnedPointsDistinct ==
    Given("decimate") =>
        LET kept == decimateTimeSeries(input.ys, input.limit)
        IN  \A k \in 1 .. Len(kept) - 1 : kept[k] < kept[k + 1]

\* Refuted: the last row has a tick even when labels repeat.
LastRowHasTick ==
    Given("ticks") =>
        LET times == [i \in 1 .. Cardinality(input.shown) |-> Nth(input.shown, i)]
        IN  Len(times) \in buildDataAlignedTicks(times, input.target, input.span)
=============================================================================
