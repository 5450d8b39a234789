------------------------------ MODULE LiveLine ------------------------------
(***************************************************************************)
(* The live price chart of packages/ui: live-line-chart.tsx (the animation *)
(* loop, the sliding window and its two virtual points, the hover          *)
(* tooltip), live-line.tsx (the live tip and its momentum) and             *)
(* live-y-axis.tsx (the tick step with its hysteresis).                    *)
(*                                                                         *)
(* Time is counted in ticks of the browser's clock and a pixel is one tick *)
(* wide.  The lerp speed is 1/2: every value is a multiple of 2^MaxTicks,  *)
(* so MaxTicks animation frames are exact in the integers.  A series key   *)
(* other than the chart's own ("value") is carried by some points only.    *)
(***************************************************************************)
EXTENDS Integers, Sequences, FiniteSets

CONSTANTS
    Levels,       \* the prices a sample may carry, multiples of 2^MaxTicks
    Pad,          \* the pad of a flat range, and the unit of any pad
    Window,       \* windowMs, in clock ticks
    Unit,         \* xTickUnitMs
    Lead,         \* leadingMs = nowOffsetUnits * xTickUnitMs
    MaxSamples,   \* samples the page hands over
    MaxTicks,     \* animation frames
    AxisHeight,   \* innerHeight of the axis
    MinGap        \* wanted pixels between two labels

VARIABLES
    data,     \* the data prop: [time, value, other]
    price,    \* the value prop
    paused,
    now,      \* Date.now()
    anim,     \* animRef.current
    frame,    \* the committed frame
    cursor,   \* cursorXRef.current
    hover,    \* tooltipData
    ticked,   \* a tick has run since the last change of props or cursor
    yaxis     \* [range, interval]: the range labelled and intervalRef.current

liveVars == <<data, price, paused, now, anim, frame, cursor, hover, ticked, yaxis>>

NoX == -1
Missing == -1
NoHover == [x |-> NoX, val |-> <<0, 1>>]
Keys == {"value", "other"}

SetMin(S) == CHOOSE x \in S : \A y \in S : x <= y
SetMax(S) == CHOOSE x \in S : \A y \in S : x >= y

-----------------------------------------------------------------------------
(* The range and the animation frame                                       *)

numericValues(p) == {p.value} \cup ({p.other} \ {Missing})

(* An empty chart shows 0..100; otherwise the data and the current value   *)
(* with a pad, or a fixed pad around a flat series.                        *)
computeTargetRange(d, v) ==
    LET vals == {v} \cup UNION {numericValues(d[i]) : i \in DOMAIN d}
        lo == SetMin(vals)
        hi == SetMax(vals)
        pad == IF hi = lo THEN Pad ELSE (hi - lo) \div Pad
    IN  IF d = <<>> THEN [yMin |-> 0, yMax |-> SetMax(Levels) + Pad]
        ELSE [yMin |-> lo - pad, yMax |-> hi + pad]

lerp(from, to) == (from + to) \div 2

(* A range grows at once and shrinks by steps; a paused chart keeps its    *)
(* clock but not its values.                                               *)
nextAnimFrame(prev, target, v, stopped, clock) ==
    [now |-> IF stopped THEN prev.now ELSE clock,
     yMin |-> IF target.yMin < prev.yMin THEN target.yMin ELSE lerp(prev.yMin, target.yMin),
     yMax |-> IF target.yMax > prev.yMax THEN target.yMax ELSE lerp(prev.yMax, target.yMax),
     shown |-> lerp(prev.shown, v)]

-----------------------------------------------------------------------------
(* The drawn records                                                       *)

WindowStart(f) == f.now + Lead - Window

bisectTime(d, t) == Cardinality({i \in DOMAIN d : d[i].time < t})

sliced(d, f) ==
    LET start == bisectTime(d, WindowStart(f))
    IN  SubSeq(d, (IF start > 0 THEN start - 1 ELSE start) + 1, Len(d))

(* The newest value of every series the slice holds.                       *)
carried(s) ==
    [k \in Keys |->
        LET has == {i \in DOMAIN s : s[i][k] # Missing}
        IN  IF has = {} THEN Missing ELSE s[SetMax(has)][k]]

virtualPoint(s, f, date) ==
    [time |-> date, value |-> f.shown, other |-> carried(s).other]

contextData(d, f) ==
    LET s == sliced(d, f)
    IN  s \o <<virtualPoint(s, f, f.now), virtualPoint(s, f, f.now + Unit)>>

(* live-line.tsx: the live tip is the second record from the end, and a    *)
(* series with no number there draws no marker.                            *)
nowPoint(records) == records[Len(records) - 1]
hasLiveMarker(records, k) == nowPoint(records)[k] # Missing

(* Up or down when the last five records move by more than 12% of the      *)
(* range of the last twenty.                                               *)
detectMomentum(records, k) ==
    LET n == Len(records)
        start == IF n > 20 THEN n - 19 ELSE 1
        vals == {records[i][k] : i \in start .. n} \ {Missing}
        first == records[n - 4][k]
        last == records[n][k]
        range == SetMax(vals) - SetMin(vals)
    IN  IF n < 5 \/ vals = {} THEN "flat"
        ELSE IF range = 0 \/ first = Missing \/ last = Missing THEN "flat"
        ELSE IF 100 * (last - first) > 12 * range THEN "up"
        ELSE IF 100 * (first - last) > 12 * range THEN "down"
        ELSE "flat"

-----------------------------------------------------------------------------
(* The hover tooltip                                                       *)

(* A value is a fraction <<numerator, denominator>>.                       *)
Same(v, w) == v[1] * w[2] = w[1] * v[2]
Along(p, q, t) ==
    IF q.time = p.time THEN <<p.value, 1>>
    ELSE <<p.value * (q.time - p.time) + (q.value - p.value) * (t - p.time), q.time - p.time>>

(* The binary search of interpolateAtTime: the invariant points[lo] <= t   *)
(* is kept by every halving.                                               *)
searchTime(points, t) ==
    LET halve[lo \in 1 .. Len(points), hi \in 1 .. Len(points)] ==
            IF hi - lo <= 1 THEN <<lo, hi>>
            ELSE LET mid == (lo - 1 + hi - 1) \div 2 + 1
                 IN  IF points[mid].time <= t THEN halve[mid, hi] ELSE halve[lo, mid]
    IN  halve[1, Len(points)]

interpolateAtTime(points, t) ==
    IF t <= points[1].time THEN <<points[1].value, 1>>
    ELSE IF t >= points[Len(points)].time THEN <<points[Len(points)].value, 1>>
    ELSE LET at == searchTime(points, t)
         IN  Along(points[at[1]], points[at[2]], t)

visible(d, f) ==
    SelectSeq(d, LAMBDA p : p.time >= WindowStart(f))
      \o <<[time |-> f.now, value |-> f.shown, other |-> Missing],
           [time |-> f.now + Unit, value |-> f.shown, other |-> Missing]>>

resolveLiveTooltip(x, f, d) ==
    IF x = NoX THEN NoHover
    ELSE [x |-> x, val |-> interpolateAtTime(visible(d, f), WindowStart(f) + x)]

(* Math.round of the pixel: the tooltip is set again only when its x or    *)
(* its y pixel moved.  Two values a pixel apart are told apart here.       *)
liveTooltipKey(h) == <<h.x, IF h.x = NoX THEN 0 ELSE h.val[1] \div h.val[2]>>

-----------------------------------------------------------------------------
(* The y axis                                                              *)

(* A step is an integer of hundredths; a label step's height in pixels,    *)
(* times the range, is step * AxisHeight.                                  *)
Hundred == 100
divisorSets == {<<20, 25, 20>>, <<20, 20, 25>>, <<25, 20, 20>>}
Fits(step, range, least, most) ==
    LET px == step * AxisHeight
    IN  px * 2 >= least * MinGap * range * Hundred /\ px * 2 <= most * MinGap * range * Hundred

PowerOfTen(r) == IF r <= 1 THEN 1 ELSE IF r <= 10 THEN 10 ELSE IF r <= 100 THEN 100 ELSE 1000

shrink(divs, range) ==
    LET go[span \in 0 .. Hundred * 1000, i \in 0 .. 9] ==
            LET d == divs[(i % 3) + 1]
                less == (span * 10) \div d
            IN  IF i = 9 \/ less * AxisHeight < MinGap * range * Hundred THEN span
                ELSE go[less, i + 1]
    IN  go[PowerOfTen(range) * Hundred, 0]

(* The previous step is kept while its labels stay between half and three  *)
(* times the wanted gap; otherwise the smallest nice step that fits.       *)
pickNiceInterval(range, prev) ==
    IF prev > 0 /\ Fits(prev, range, 1, 6) THEN prev
    ELSE SetMin({shrink(divs, range) : divs \in divisorSets})

(* The axis labels the committed frame's y domain.                         *)
relabelled(f, axis) ==
    [range |-> f.yMax - f.yMin, interval |-> pickNiceInterval(f.yMax - f.yMin, axis.interval)]

-----------------------------------------------------------------------------
(* The actions                                                             *)

LiveInit ==
    /\ \E v \in Levels :
          /\ price = v
          /\ data \in {<<>>, <<[time |-> 0, value |-> v, other |-> Missing]>>}
    /\ now = 1
    /\ paused = FALSE
    /\ anim = [now |-> 1, shown |-> price,
               yMin |-> computeTargetRange(data, price).yMin,
               yMax |-> computeTargetRange(data, price).yMax]
    /\ frame = anim
    /\ cursor = NoX
    /\ hover = NoHover
    /\ ticked = [left |-> MaxTicks, done |-> TRUE]
    /\ yaxis = relabelled(frame, [range |-> 0, interval |-> 0])

(* A trade moves the price: the page appends a sample and passes the new   *)
(* value.  Only some samples carry the other outcome's series.             *)
newSample ==
    /\ Len(data) < MaxSamples
    /\ \E v \in Levels : \E o \in {Missing, SetMax(Levels) - v} :
          /\ price' = v
          /\ data' = Append(data, [time |-> now, value |-> v, other |-> o])
    /\ ticked' = [ticked EXCEPT !.done = FALSE]
    /\ UNCHANGED <<paused, now, anim, frame, cursor, hover, yaxis>>

setPaused ==
    /\ paused' = ~paused
    /\ UNCHANGED <<data, price, now, anim, frame, cursor, hover, ticked, yaxis>>

(* One requestAnimationFrame: the clock has moved on by dt, the frame is   *)
(* committed only when 32 ms have passed since the last commit.            *)
tick(dt, commitFrame) ==
    LET next == nextAnimFrame(anim, computeTargetRange(data, price), price, paused, now + dt)
        tip == resolveLiveTooltip(cursor, next, data)
    IN  /\ ticked.left > 0
        /\ now' = now + dt
        /\ anim' = next
        /\ frame' = IF commitFrame THEN next ELSE frame
        /\ hover' = IF liveTooltipKey(tip) # liveTooltipKey(hover) THEN tip ELSE hover
        /\ ticked' = [left |-> ticked.left - 1, done |-> TRUE]
        /\ yaxis' = IF commitFrame THEN relabelled(next, yaxis) ELSE yaxis
        /\ UNCHANGED <<data, price, paused, cursor>>

(* A pointer outside the plot is no pointer.                               *)
liveMouseMove(x) ==
    /\ cursor' = IF x \in 0 .. Window THEN x ELSE NoX
    /\ ticked' = [ticked EXCEPT !.done = FALSE]
    /\ UNCHANGED <<data, price, paused, now, anim, frame, hover, yaxis>>

liveMouseLeave ==
    /\ cursor # NoX
    /\ cursor' = NoX
    /\ hover' = NoHover
    /\ UNCHANGED <<data, price, paused, now, anim, frame, ticked, yaxis>>

LiveNext ==
    \/ newSample \/ setPaused \/ liveMouseLeave
    \/ \E c \in BOOLEAN : tick(2, c)
    \/ \E x \in {-2, 1, Window - 1} : liveMouseMove(x)

LiveSpec == LiveInit /\ [][LiveNext]_liveVars

-----------------------------------------------------------------------------
(* Properties                                                              *)

LiveTypeOK ==
    /\ paused \in BOOLEAN
    /\ cursor \in {NoX} \cup (0 .. Window)
    /\ Len(data) <= MaxSamples
    /\ frame.now <= anim.now /\ anim.now <= now
    /\ yaxis.interval \in Nat
    /\ \A k \in Keys : detectMomentum(contextData(data, frame), k) \in {"up", "down", "flat"}

(* After a tick the animated y range holds every sample of every series    *)
(* and the easing live value: nextAnimFrame widens at once and narrows     *)
(* gradually, so nothing is drawn outside the plot.                        *)
RangeHoldsLine ==
    ticked.done =>
        \A v \in {anim.shown} \cup UNION {numericValues(data[i]) : i \in DOMAIN data} :
            data # <<>> => v \in anim.yMin .. anim.yMax

(* A series that any drawn sample carries has a live tip, at that series'  *)
(* newest value: the virtual points inherit every key (contextData's       *)
(* comment), so no line dives to zero or loses its marker.                 *)
EverySeriesHasTip ==
    LET s == sliced(data, frame)
    IN  \A k \in Keys : (\E i \in DOMAIN s : s[i][k] # Missing)
            => /\ hasLiveMarker(contextData(data, frame), k)
               /\ k = "other" => \E i \in DOMAIN s :
                     /\ s[i][k] = nowPoint(contextData(data, frame))[k]
                     /\ \A j \in (i + 1) .. Len(s) : s[j][k] = Missing

(* A chart with history from before its window draws its line from the     *)
(* left edge on: the first record is not inside the window.                *)
LineEntersFromLeft ==
    (\E i \in DOMAIN data : data[i].time < WindowStart(frame))
        => contextData(data, frame)[1].time < WindowStart(frame)

(* Where the pointer is right of the first visible sample, the value the   *)
(* tooltip is resolved to is the drawn line's value there, for a chart     *)
(* whose clock has passed every sample.                                    *)
DrawnAt(records, t) ==
    {Along(records[i], records[i + 1], t) :
        i \in {j \in 1 .. Len(records) - 1 : records[j].time <= t /\ t <= records[j + 1].time}}

TooltipOnLine ==
    (cursor # NoX /\ \A i \in DOMAIN data : data[i].time < anim.now) =>
        LET t == WindowStart(anim) + cursor
        IN  (t >= visible(data, anim)[1].time /\ t <= anim.now + Unit) =>
                \E v \in DrawnAt(contextData(data, anim), t) :
                    Same(v, resolveLiveTooltip(cursor, anim, data).val)

(* The labels of the y axis stay between half and three times the wanted   *)
(* gap apart, however the range moves and whatever step was kept.          *)
LabelGapBounded == yaxis.interval > 0 => Fits(yaxis.interval, yaxis.range, 1, 6)

(* As TooltipOnLine without its left bound.  Refuted: the tooltip drops    *)
(* the sample before the window that the drawn line starts from, so left   *)
(* of the first visible sample it reports that sample's value flat.        *)
TooltipOnWholeLine ==
    (cursor # NoX /\ \A i \in DOMAIN data : data[i].time < anim.now) =>
        LET t == WindowStart(anim) + cursor
            line == DrawnAt(contextData(data, anim), t)
        IN  line # {} => \E v \in line : Same(v, resolveLiveTooltip(cursor, anim, data).val)

(* The records are in time order.  Refuted: a sample newer than the        *)
(* committed frame, or any sample on a paused chart, is drawn before the   *)
(* virtual "now" point that lies to its left.                              *)
RecordsInOrder ==
    LET r == contextData(data, frame)
    IN  \A i \in 1 .. Len(r) - 1 : r[i].time <= r[i + 1].time
=============================================================================
