----------------------------- MODULE MarkHover ------------------------------
(***************************************************************************)
(* The charts made of marks rather than lines: which mark is lit, shown    *)
(* and told while the pointer moves, on the pie, ring, radar, sankey and   *)
(* choropleth charts and on the sunburst. They share no state.             *)
(***************************************************************************)
EXTENDS FiniteSets, Integers, Sequences, FiniteSetsExt

-----------------------------------------------------------------------------
(***************************************************************************)
(* The charts whose marks are hovered one by one (pie, ring, radar, funnel, *)
(* sankey, choropleth), and the donut centre that counts up by itself.      *)
(*                                                                          *)
(* Each chart keeps the index of the hovered mark.  A mark's element sets   *)
(* it on mouse enter and clears it on mouse leave, and every other mark is  *)
(* drawn faded meanwhile.  The browser sends no leave to an element that is *)
(* taken out of the document, and marks are taken out while the pointer is  *)
(* on them: the data shrinks, the geometry is being scrubbed, the chart     *)
(* gets too small to draw, or a choropleth feature is drawn again in        *)
(* another layer.  "told" is whether the element now under the pointer has  *)
(* had its enter; "strayed" remembers that a leave never came.              *)
(*                                                                          *)
(* The chart is chosen in the initial state.  Colours, paths, springs and   *)
(* labels are left out.                                                     *)
(***************************************************************************)

CONSTANTS MarkCharts,    \* the charts looked at
          MaxMarks,      \* bound on the marks of a chart
          MaxMarkMoves,  \* bound on what happens to a chart
          CentreValues   \* the numbers the donut centre may be given

VARIABLES markChart,  \* the chart on the screen
          marks,      \* data.length
          pointer,    \* where the pointer is: out, bare, or a mark
          told,       \* the element under the pointer has had its enter
          over,       \* the chart's hover state: mark, link and tooltip
          strayed,    \* a hovered mark went away without a leave
          scrubbing,  \* geometryScrubbing
          tiny,       \* the box is smaller than 10 pixels
          reveal,     \* the entrance: its epoch, its timer and isLoaded
          centre,     \* the centre that counts up
          markMoves   \* how much has happened

markVars == <<markChart, marks, pointer, told, over, strayed, scrubbing, tiny,
              reveal, centre, markMoves>>

Pick(k, i) == <<k, i>>

Nowhere == {Pick("out", 0), Pick("bare", 0)}

NoPick == Pick("none", 0)

Unhovered == [node |-> 0, link |-> 0, tip |-> NoPick]

\* A sankey of n nodes here has a link from each node to the next one.
Links(n) == IF markChart = "sankey" THEN 1..(n - 1) ELSE {}

\* What the pointer can be put on: nothing is listening while a pie or a ring
\* is being scrubbed, or while the box is too small for the chart to be drawn.
Hittable(n, scrub, small) ==
  IF scrub \/ small THEN {}
  ELSE {Pick("mark", i) : i \in 1..n} \cup {Pick("link", k) : k \in Links(n)}

-----------------------------------------------------------------------------
(* The marks' handlers.                                                     *)

\* setHoveredIndex of the charts that keep nothing but an index.
setHoveredIndex(h, i) == [h EXCEPT !.node = i]

SankeyNodeEnter(h, i) == [h EXCEPT !.node = i, !.tip = Pick("mark", i)]

SankeyNodeLeave(h) == [h EXCEPT !.node = 0, !.tip = NoPick]

SankeyLinkEnter(h, k) == [h EXCEPT !.link = k, !.tip = Pick("link", k)]

SankeyLinkLeave(h) == [h EXCEPT !.link = 0, !.tip = NoPick]

handleFeatureEnter(h, i) == [h EXCEPT !.node = i, !.tip = Pick("mark", i)]

handleFeatureLeave(h) == [h EXCEPT !.node = 0, !.tip = NoPick]

enter(h, at) ==
  CASE at \in Nowhere            -> h
    [] markChart = "sankey"      -> IF at[1] = "link" THEN SankeyLinkEnter(h, at[2])
                                    ELSE SankeyNodeEnter(h, at[2])
    [] markChart = "choropleth"  -> handleFeatureEnter(h, at[2])
    [] OTHER                     -> setHoveredIndex(h, at[2])

leave(h, at) ==
  CASE at \in Nowhere            -> h
    [] markChart = "sankey"      -> IF at[1] = "link" THEN SankeyLinkLeave(h)
                                    ELSE SankeyNodeLeave(h)
    [] markChart = "choropleth"  -> handleFeatureLeave(h)
    [] OTHER                     -> setHoveredIndex(h, 0)

\* The leave handlers on the whole svg: only these two charts have one.
SankeySvgLeave(h) == Unhovered

ChoroplethSvgLeave(h) == Unhovered

svgLeave(h, at) ==
  CASE at # Pick("out", 0)       -> h
    [] markChart = "sankey"      -> SankeySvgLeave(h)
    [] markChart = "choropleth"  -> ChoroplethSvgLeave(h)
    [] OTHER                     -> h

\* Does hovering replace the element hovered?  A loaded choropleth draws the
\* hovered feature in another layer than the others.
Redrawn(before, after) ==
  /\ markChart = "choropleth"
  /\ reveal.loaded \/ reveal.complete
  /\ before.node # after.node

-----------------------------------------------------------------------------
(* What is drawn.                                                           *)

PieSlice(i) == [lit |-> over.node = i, faded |-> over.node # 0 /\ over.node # i]

\* The rings outside the hovered one are pushed out a little.
Ring(i) ==
  [lit    |-> over.node = i,
   faded  |-> over.node # 0 /\ over.node # i,
   pushed |-> over.node # 0 /\ over.node < i]

RadarArea(i) == [lit |-> over.node = i, faded |-> over.node # 0 /\ over.node # i]

FunnelStage(i) == [lit |-> over.node = i, faded |-> over.node # 0 /\ over.node # i]

anyHovered == over.node # 0 \/ over.link # 0

isNodeConnected(i) ==
  IF over.node # 0
  THEN over.node = i \/ \E k \in Links(marks) : {k, k + 1} = {over.node, i}
  ELSE over.link \in Links(marks) /\ i \in {over.link, over.link + 1}

SankeyNode(i) == [lit |-> isNodeConnected(i), faded |-> anyHovered /\ ~isNodeConnected(i)]

SankeyLink(k) ==
  LET isHighlighted == over.link = k \/ over.node \in {k, k + 1}
  IN  [lit |-> isHighlighted, faded |-> anyHovered /\ ~isHighlighted]

\* StaticFeatureLayer dims the features that are not hovered.
StaticFeatureLayer(i) == [lit |-> over.node = i, faded |-> over.node # 0 /\ over.node # i]

\* The entering layer dims none, and hands over once its fade-in is complete.
EnterFeatureLayer(i) ==
  IF reveal.complete THEN StaticFeatureLayer(i)
  ELSE [lit |-> over.node = i, faded |-> FALSE]

drawnMark(i) ==
  CASE markChart = "pie"        -> PieSlice(i)
    [] markChart = "ring"       -> Ring(i)
    [] markChart = "radar"      -> RadarArea(i)
    [] markChart = "funnel"     -> FunnelStage(i)
    [] markChart = "sankey"     -> SankeyNode(i)
    [] markChart = "choropleth" -> IF reveal.loaded THEN StaticFeatureLayer(i)
                                   ELSE EnterFeatureLayer(i)

\* What the middle of a donut says: 0 for the total, or the mark it tells of.
PieCenter == IF scrubbing \/ over.node \notin 1..marks THEN 0 ELSE over.node

RingCenter == IF over.node \notin 1..marks THEN 0 ELSE over.node

\* The tooltips look the mark up in the present data, and are away without it.
SankeyTooltip ==
  IF over.tip \in Hittable(marks, FALSE, FALSE) THEN over.tip ELSE NoPick

ChoroplethTooltip ==
  IF over.tip[1] = "mark" /\ over.tip[2] \in 1..marks THEN over.tip ELSE NoPick

drawnTip ==
  CASE markChart = "sankey"     -> SankeyTooltip
    [] markChart = "choropleth" -> ChoroplethTooltip
    [] OTHER                    -> NoPick

-----------------------------------------------------------------------------
HoverInit ==
  /\ markChart \in MarkCharts
  /\ marks \in 1..MaxMarks
  /\ pointer = Pick("out", 0)
  /\ told = TRUE
  /\ over = Unhovered
  /\ strayed = FALSE
  /\ scrubbing = FALSE
  /\ tiny = FALSE
  /\ reveal = [epoch |-> 1, timer |-> 1, loaded |-> FALSE, complete |-> FALSE, by |-> 0]
  /\ centre \in [value : CentreValues, flow : {0}, frames : {2}, entered : {FALSE},
                 dipped : {FALSE}]
  /\ markMoves = 0

Happens == markMoves < MaxMarkMoves /\ markMoves' = markMoves + 1

Charting == markChart # "shell"

Overwritten(at) ==
  \/ at = Pick("out", 0) /\ markChart \in {"sankey", "choropleth"}
  \/ at \notin Nowhere /\ markChart # "sankey"

\* The marks at "there" can be pointed at from now on, and of those only "kept"
\* have the element they had.  Nobody tells the others that the pointer left.
swept(there, kept) ==
  /\ pointer' = IF pointer \in Nowhere \cup there THEN pointer ELSE Pick("bare", 0)
  /\ told' = (told /\ pointer \in Nowhere \cup kept)
  /\ strayed' = (strayed \/ pointer \notin Nowhere \cup kept)

\* The pointer moves.  The browser sends a leave to the mark it was on, if that
\* element is still there to be told, then an enter to the mark it is on now,
\* and the svg a leave when the pointer has left the chart.
pointerMoves ==
  /\ Charting
  /\ \E at \in (Nowhere \cup Hittable(marks, scrubbing, tiny)) \ {pointer} :
       LET left == IF told THEN leave(over, pointer) ELSE over
           now  == svgLeave(enter(left, at), at)
           new  == at \notin Nowhere /\ Redrawn(over, now)
       IN  /\ pointer' = at
           /\ over' = now
           /\ told' = ~new
           /\ strayed' = (new \/ (strayed /\ ~Overwritten(at)))
  /\ Happens
  /\ UNCHANGED <<markChart, marks, scrubbing, tiny, reveal, centre>>

\* The browser finds out, without the pointer moving, what is under it now.
browserTells ==
  /\ Charting
  /\ ~told
  /\ told' = TRUE
  /\ over' = enter(over, pointer)
  /\ strayed' = (strayed /\ ~Overwritten(pointer))
  /\ UNCHANGED <<markChart, marks, pointer, scrubbing, tiny, reveal, centre, markMoves>>

\* The data changes.  A sankey link's key holds its width, so its element is
\* replaced; the other marks keep their element as long as their index exists.
dataChanges ==
  /\ Charting
  /\ \E n \in (1..MaxMarks) \ {marks} :
       LET there == Hittable(n, scrubbing, tiny)
       IN  /\ marks' = n
           /\ swept(there, {m \in there : m[1] = "mark"})
  /\ Happens
  /\ UNCHANGED <<markChart, over, scrubbing, tiny, reveal, centre>>

-----------------------------------------------------------------------------
(* The entrance.                                                            *)

\* An entrance starts: the timer of the one before is cleared by the cleanup.
entrance == [epoch |-> reveal.epoch + 1, timer |-> reveal.epoch + 1,
             loaded |-> FALSE, complete |-> reveal.complete, by |-> 0]

\* A pie's or a ring's effect returns at once while the geometry is scrubbed.
PieReveal == IF scrubbing THEN [reveal EXCEPT !.timer = 0] ELSE entrance

RingReveal == IF scrubbing THEN [reveal EXCEPT !.timer = 0] ELSE entrance

SankeyReveal == entrance

ChoroplethReveal == entrance

Revealing == {"pie", "ring", "sankey", "choropleth"}

replayed ==
  CASE markChart = "pie"        -> PieReveal
    [] markChart = "ring"       -> RingReveal
    [] markChart = "sankey"     -> SankeyReveal
    [] markChart = "choropleth" -> ChoroplethReveal

\* The layer a choropleth draws its features in goes with isLoaded.
layerSwap(was, is) ==
  IF markChart = "choropleth" /\ was # is
  THEN swept(Hittable(marks, scrubbing, tiny), {})
  ELSE UNCHANGED <<pointer, told, strayed>>

\* The entrance is asked for again (a new signature, duration or transition).
replay ==
  /\ markChart \in Revealing
  /\ ~ (tiny /\ markChart # "choropleth")
  /\ reveal' = replayed
  /\ layerSwap(reveal.loaded, replayed.loaded)
  /\ Happens
  /\ UNCHANGED <<markChart, marks, over, scrubbing, tiny, centre>>

\* The timer of the entrance goes off.
timerFires ==
  /\ markChart \in Revealing
  /\ reveal.timer # 0
  /\ reveal' = [reveal EXCEPT !.timer = 0, !.loaded = TRUE, !.complete = FALSE,
                             !.by = reveal.timer]
  /\ layerSwap(reveal.loaded, TRUE)
  /\ UNCHANGED <<markChart, marks, over, scrubbing, tiny, centre, markMoves>>

\* The fade-in of the entering features is over: they are drawn again, still.
enterCompletes ==
  /\ markChart = "choropleth"
  /\ ~reveal.loaded
  /\ ~reveal.complete
  /\ ~tiny
  /\ reveal' = [reveal EXCEPT !.complete = TRUE]
  /\ swept(Hittable(marks, scrubbing, tiny), {})
  /\ UNCHANGED <<markChart, marks, over, scrubbing, tiny, centre, markMoves>>

\* Scrubbing takes the listening slices or rings out, and puts back new ones;
\* it is in the dependencies of the entrance's effect.
scrubStarts ==
  /\ markChart \in {"pie", "ring"}
  /\ ~scrubbing
  /\ ~tiny
  /\ scrubbing' = TRUE
  /\ reveal' = [reveal EXCEPT !.timer = 0]
  /\ swept({}, {})
  /\ Happens
  /\ UNCHANGED <<markChart, marks, over, tiny, centre>>

scrubEnds ==
  /\ markChart \in {"pie", "ring"}
  /\ scrubbing
  /\ scrubbing' = FALSE
  /\ reveal' = entrance
  /\ Happens
  /\ UNCHANGED <<markChart, marks, pointer, told, over, strayed, tiny, centre>>

\* The box gets smaller than 10 pixels.  The inner component of a pie, a ring, a
\* sankey or a choropleth draws nothing, and the hover state below it is lost;
\* a radar keeps its hover state above the early return.  A funnel keeps the
\* last size it could measure.
boxShrinks ==
  /\ markChart \in Revealing \cup {"radar"}
  /\ ~tiny
  /\ ~scrubbing
  /\ tiny' = TRUE
  /\ over' = IF markChart = "radar" THEN over ELSE Unhovered
  /\ pointer' = IF pointer \in Nowhere THEN pointer ELSE Pick("bare", 0)
  /\ told' = TRUE
  /\ strayed' = (markChart = "radar" /\ (strayed \/ pointer \notin Nowhere))
  /\ reveal' = CASE markChart = "radar"      -> reveal
                 [] markChart = "choropleth" -> [reveal EXCEPT !.complete = FALSE]
                 [] OTHER -> [reveal EXCEPT !.timer = 0, !.loaded = FALSE, !.by = 0]
  /\ Happens
  /\ UNCHANGED <<markChart, marks, scrubbing, centre>>

boxGrows ==
  /\ tiny
  /\ tiny' = FALSE
  /\ reveal' = IF markChart \in {"radar", "choropleth"} THEN reveal ELSE entrance
  /\ Happens
  /\ UNCHANGED <<markChart, marks, pointer, told, over, strayed, scrubbing, centre>>

-----------------------------------------------------------------------------
(* PieCenterShell: a donut centre without a donut.                          *)

\* The effect of a new value.  The cleanup of the one before has cancelled both
\* frames and has put introStartedRef back, so every value starts from 0.
PieCenterShell(v) ==
  [value |-> v, flow |-> 0, frames |-> 2, entered |-> centre.entered,
   dipped |-> centre.dipped \/ (centre.entered /\ centre.flow # 0)]

shellValue ==
  /\ markChart = "shell"
  /\ \E v \in CentreValues \ {centre.value} : centre' = PieCenterShell(v)
  /\ Happens
  /\ UNCHANGED <<markChart, marks, pointer, told, over, strayed, scrubbing, tiny, reveal>>

\* The outer frame asks for the inner one, and the inner one shows the value.
shellFrame ==
  /\ markChart = "shell"
  /\ centre.frames > 0
  /\ centre' = IF centre.frames = 2 THEN [centre EXCEPT !.frames = 1]
               ELSE [centre EXCEPT !.frames = 0, !.flow = centre.value, !.entered = TRUE]
  /\ UNCHANGED <<markChart, marks, pointer, told, over, strayed, scrubbing, tiny,
                 reveal, markMoves>>

HoverNext ==
  \/ pointerMoves
  \/ browserTells
  \/ dataChanges
  \/ replay
  \/ timerFires
  \/ enterCompletes
  \/ scrubStarts
  \/ scrubEnds
  \/ boxShrinks
  \/ boxGrows
  \/ shellValue
  \/ shellFrame

HoverSpec == HoverInit /\ [][HoverNext]_markVars

-----------------------------------------------------------------------------
HoverTypeOK ==
  /\ markChart \in MarkCharts
  /\ marks \in 1..MaxMarks
  /\ pointer \in Nowhere \cup Hittable(marks, scrubbing, tiny)
  /\ told \in BOOLEAN
  /\ over.node \in 0..MaxMarks
  /\ over.link \in 0..MaxMarks
  /\ over.tip \in {NoPick} \cup Hittable(MaxMarks, FALSE, FALSE)
  /\ reveal.timer \in 0..reveal.epoch
  /\ centre.frames \in 0..2

\* The enter and leave handlers of the marks keep the chart's hover state on the
\* mark the pointer is on, and on none when it is on none, whatever the order
\* the pointer visits marks and links in, the data changing and the entrance
\* being replayed meanwhile; the exception is a mark that was taken away.
HoverFollowsPointer ==
  told /\ ~strayed => over = enter(Unhovered, pointer)

\* A sankey and a choropleth listen for the pointer leaving the whole svg: with
\* the pointer outside, nothing is hovered and no tooltip is open, even after
\* the hovered mark was taken away.
OutsideNothingHovered ==
  /\ markChart \in {"sankey", "choropleth"}
  /\ pointer = Pick("out", 0)
  => over = Unhovered

\* What a sankey or a choropleth tooltip tells of is drawn, and is not faded.
TooltipMarkIsLit ==
  drawnTip # NoPick =>
    IF drawnTip[1] = "link" THEN SankeyLink(drawnTip[2]).lit
    ELSE drawnMark(drawnTip[2]).lit

\* SankeyLink and SankeyNode decide separately what a hovered node or link
\* lights: a lit link always has both its ends lit.
LitLinkHasLitEnds ==
  markChart = "sankey" /\ ~strayed =>
    \A k \in Links(marks) :
      SankeyLink(k).lit => SankeyNode(k).lit /\ SankeyNode(k + 1).lit

\* A chart fades its marks only around one that stays lit; the exception is a
\* hovered mark that was taken away.
FadedAroundOne ==
  Charting /\ ~strayed /\ ~tiny =>
    \/ \A i \in 1..marks : ~drawnMark(i).faded
    \/ \E i \in 1..marks : drawnMark(i).lit

\* A chart is loaded by the timer of its last entrance, never by the timer of one
\* that was replaced.
LoadedByLastEntrance == reveal.loaded => reveal.by = reveal.epoch

\* Refuted: a ring, unlike a pie, goes on telling the hovered ring while scrubbed.
RingTellsTotalWhileScrubbed == markChart = "ring" /\ scrubbing => RingCenter = 0

\* Refuted: with the pointer outside, nothing is hovered in any chart.
OutsideNothingHoveredAnywhere == pointer = Pick("out", 0) => over = Unhovered

\* Refuted: after its entrance the donut centre goes from value to value.
CentreNeverDips == ~centre.dipped

-----------------------------------------------------------------------------
(***************************************************************************)
(* The sunburst chart: the arcs of a tree, the rings drawn for the node in  *)
(* focus, the growth of the hovered path, and the zoom from focus to focus. *)
(*                                                                          *)
(* A node is the sequence of child numbers that leads to it from the root,  *)
(* so "id starts with the other id" is "has it as a prefix"; arcs are       *)
(* numbered in the order layoutNode pushes them.  Angles are parts of a     *)
(* Turn, lengths hundredths of a pixel.  The trees of an instance have      *)
(* values that divide the Turn.                                             *)
(***************************************************************************)

CONSTANTS SunTrees,    \* a sequence of trees: leaf values by node
          SunRoots,    \* the name of each tree's root
          Turn,        \* a full turn
          SunSizes,    \* the sizes the chart may have
          HoverPop,    \* hoverPop
          MaxSunMoves  \* bound on what the user and the data do

VARIABLES sunTree,    \* which tree is shown
          sunSize,    \* size
          focusId,    \* the focus asked for: a root name and a node
          prevFocusId,
          zoomT,      \* 0, 50 or 100 hundredths of the zoom
          zoomRun,    \* the node a running zoom ends on, or none
          hoveredArc, \* hoveredArcIndex, 0 for none
          growth,     \* what each node has grown, and where that is going
          crossed,    \* an arc was entered that the focus does not show
          sunMoves

sunVars == <<sunTree, sunSize, focusId, prevFocusId, zoomT, zoomRun, hoveredArc,
             growth, crossed, sunMoves>>

NoNode == <<-1>>

-----------------------------------------------------------------------------
(* buildArcs                                                                *)

Up(p) == SubSeq(p, 1, Len(p) - 1)

Depth(p) == Len(p)

\* An id starts with another id and the separator, or is that id.
Below(p, q) == Len(p) >= Len(q) /\ SubSeq(p, 1, Len(q)) = q

KidsIn(tree, p) == {q \in DOMAIN tree : Len(q) = Len(p) + 1 /\ Up(q) = p}

sumValues(tree) ==
  LET sum[p \in DOMAIN tree] ==
        IF KidsIn(tree, p) = {} THEN tree[p]
        ELSE MapThenSumSet(LAMBDA q : sum[q], KidsIn(tree, p))
  IN  [p \in DOMAIN tree |-> sum[p]]

childSpan(value, total, span) == IF total = 0 THEN 0 ELSE (value * span) \div total

\* Each child gets the part of its parent's arc that its value is of the
\* parent's, one after the other in the order of the data.
layoutNode(tree, sum) ==
  LET arc[p \in DOMAIN tree] ==
        IF p = <<>> THEN [a0 |-> 0, a1 |-> Turn]
        ELSE LET around  == arc[Up(p)]
                 Span(q) == childSpan(sum[q], sum[Up(p)], around.a1 - around.a0)
                 start   == around.a0
                   + MapThenSumSet(Span, {q \in KidsIn(tree, Up(p)) : q[Len(q)] < p[Len(p)]})
             IN  [a0 |-> start, a1 |-> start + Span(p)]
  IN  [p \in DOMAIN tree |-> arc[p]]

Earlier(p, q) ==
  \/ Below(q, p) /\ p # q
  \/ \E i \in 1..Min({Len(p), Len(q)}) :
       p[i] < q[i] /\ \A j \in 1..(i - 1) : p[j] = q[j]

\* Everything laid out once per tree: sums, arcs, and the numbers of the arcs.
buildArcs ==
  [t \in DOMAIN SunTrees |->
     LET tree == SunTrees[t]
         sum  == sumValues(tree)
     IN  [sum      |-> sum,
          arc      |-> layoutNode(tree, sum),
          kids     |-> [p \in DOMAIN tree |-> KidsIn(tree, p)],
          index    |-> [p \in DOMAIN tree |->
                          IF p = <<>> THEN 0
                          ELSE Cardinality({q \in DOMAIN tree \ {<<>>} : Earlier(q, p)}) + 1],
          maxDepth |-> Max({Depth(p) : p \in DOMAIN tree})]]

Nodes == DOMAIN SunTrees[sunTree]

Kids(p) == buildArcs[sunTree].kids[p]

maxDepth == buildArcs[sunTree].maxDepth

valueOf(p) == buildArcs[sunTree].sum[p]

arcOf(p) == buildArcs[sunTree].arc[p]

arcIndex(p) == buildArcs[sunTree].index[p]

\* arcs[index], or none when the data has no such arc.
arcAt(i) ==
  IF \E p \in Nodes \ {<<>>} : arcIndex(p) = i
  THEN CHOOSE p \in Nodes \ {<<>>} : arcIndex(p) = i
  ELSE NoNode

\* The names an arc is announced with: those of the root and of the arc itself.
trail(p) == <<<<>>, p>>

-----------------------------------------------------------------------------
(* The rings of a focus                                                     *)

ringOptions(focusDepth, deepest, radius) ==
  LET one == radius \div deepest
      centerR == (one * Max({45, 65 - 8 * (focusDepth - 1)})) \div 100
  IN  IF focusDepth = 0 THEN [centerR |-> 0, ringWidth |-> one]
      ELSE [centerR |-> centerR,
            ringWidth |-> (radius - centerR) \div Max({1, deepest - focusDepth})]

ringsOf(f, radius) == ringOptions(Depth(f), maxDepth, radius)

Shown(p, f) == Depth(p) > Depth(f) /\ Below(p, f)

\* An arc mapped to the part of the turn it is of the focus, in its ring.
arcInFocus(arc, around, rel, ring) ==
  LET span == around.a1 - around.a0
      mapAngle(a) == IF span = 0 THEN 0 ELSE ((a - around.a0) * Turn) \div span
  IN  [a0 |-> mapAngle(arc.a0), a1 |-> mapAngle(arc.a1),
       innerR |-> ring.centerR + (rel - 1) * ring.ringWidth,
       outerR |-> ring.centerR + rel * ring.ringWidth]

geometryFor(p, f, radius) ==
  arcInFocus(arcOf(p), arcOf(f), Depth(p) - Depth(f), ringsOf(f, radius))

\* The shorter way round, for angles counted twice.
lerpAngle(from, to, t) ==
  LET delta == (to - from) % (2 * Turn)
      short == IF delta > Turn THEN delta - 2 * Turn ELSE delta
  IN  from + (short * t) \div 100

\* Twice the middle and the whole span keep the halves whole numbers.
lerpGeometry(from, to, t) ==
  LET mid  == lerpAngle(from.a0 + from.a1, to.a0 + to.a1, t)
      wide == (from.a1 - from.a0) + (((to.a1 - to.a0) - (from.a1 - from.a0)) * t) \div 100
  IN  [a0 |-> (mid - wide) \div 2, a1 |-> (mid + wide) \div 2,
       innerR |-> from.innerR + ((to.innerR - from.innerR) * t) \div 100,
       outerR |-> from.outerR + ((to.outerR - from.outerR) * t) \div 100]

pointGeometry(g) ==
  LET pin == Max({0, Min({(((g.innerR + g.outerR) \div 2) * 12) \div 100, g.innerR})})
  IN  [a0 |-> (g.a0 + g.a1) \div 2, a1 |-> (g.a0 + g.a1) \div 2, innerR |-> pin, outerR |-> pin]

NoArc == [a0 |-> 0, a1 |-> 0, innerR |-> 0, outerR |-> 0]

\* Arcs that both focuses show move; the others shrink to or grow from a point.
morph(leaves, comes, from, to, t) ==
  CASE leaves /\ comes  -> lerpGeometry(from, to, t)
    [] leaves /\ ~comes -> lerpGeometry(from, pointGeometry(from), t)
    [] ~leaves /\ comes -> lerpGeometry(pointGeometry(to), to, t)
    [] OTHER            -> NoArc

transitionGeometry(p, f, g, radius, t) ==
  morph(Shown(p, f), Shown(p, g), geometryFor(p, f, radius), geometryFor(p, g, radius), t)

\* An arc thinner than half a pixel, or of no width, is not drawn.
arcPathFromRadii(g) == g.outerR - g.innerR >= 50 /\ g.a1 > g.a0

-----------------------------------------------------------------------------
(* The growth of the hovered path                                           *)

hoverGrowForPathSegment(ringWidth, pathLength) ==
  Min({HoverPop, ringWidth \div 10, (ringWidth * 28) \div (100 * pathLength)})

grownThickness(ringWidth) == ringWidth + hoverGrowForPathSegment(ringWidth, 1)

maxHoverSegmentThickness(radius) ==
  grownThickness(ringOptions(1, maxDepth, radius).ringWidth)

\* What hovering h makes each node grow by while f is in focus.
growAlong(h, f, ringWidth, thickest) ==
  LET each  == hoverGrowForPathSegment(ringWidth, Max({1, Depth(h) - Depth(f)}))
      thick == [p \in Nodes |-> IF Shown(p, f) THEN ringWidth ELSE thickest]
  IN  [p \in Nodes |->
         IF Below(h, p) /\ Depth(p) > Depth(f)
         THEN IF thick[p] >= thickest THEN 0 ELSE Min({each, thickest - thick[p]})
         ELSE 0]

buildHoverGrowTargets(h, f, radius) ==
  growAlong(h, f, ringsOf(f, radius).ringWidth, maxHoverSegmentThickness(radius))

\* The room left around the rings for the growth, in whole pixels.
defaultSunburstGrowPadding(size, deepest) ==
  LET pathLength == Max({1, deepest - 1})
      each == hoverGrowForPathSegment((size \div 2) \div deepest, pathLength)
  IN  ((each * pathLength + each + 99) \div 100) * 100

sunRadius == Max({800, sunSize \div 2 - defaultSunburstGrowPadding(sunSize, maxDepth)})

ancestorGrowOffset(p, grown) ==
  MapThenSumSet(LAMBDA q : grown[q], {q \in Nodes : Below(p, q) /\ q # p})

applyHoverGrow(g, p, grown, thickest) ==
  LET push  == ancestorGrowOffset(p, grown)
      wide  == g.outerR - g.innerR
      inner == g.innerR + push
  IN  IF wide >= thickest THEN [g EXCEPT !.innerR = @ + push, !.outerR = @ + push]
      ELSE [g EXCEPT !.innerR = inner,
                     !.outerR = inner + Min({thickest, wide + grown[p]})]

-----------------------------------------------------------------------------
(* The chart                                                                *)

Ungrown == [p \in Nodes |-> 0]

RootId == [root |-> SunRoots[sunTree], node |-> <<>>]

\* focusById.get(id): the ids start with the name of the root.
focusById(id) ==
  IF id.root = SunRoots[sunTree] /\ id.node \in Nodes THEN id.node ELSE NoNode

NoZoom == [root |-> "", node |-> <<>>]

focus == IF focusById(focusId) # NoNode THEN focusById(focusId) ELSE <<>>

prevFocus == IF focusById(prevFocusId) # NoNode THEN focusById(prevFocusId) ELSE focus

\* A segment as it is drawn.
SunburstSegment(p) ==
  applyHoverGrow(transitionGeometry(p, prevFocus, focus, sunRadius, zoomT), p, growth.now,
                 maxHoverSegmentThickness(sunRadius))

drawnSegments ==
  {p \in Nodes \ {<<>>} :
     arcPathFromRadii(transitionGeometry(p, prevFocus, focus, sunRadius, zoomT))}

isRelated(p) ==
  LET h == arcAt(hoveredArc)
  IN  hoveredArc = 0 \/ h = NoNode \/ Below(p, h) \/ Below(h, p)

\* The nodes from the root to the one in focus.
useSunburstBreadcrumbItems == [i \in 1..(Len(focus) + 1) |-> SubSeq(focus, 1, i - 1)]

SunburstHint ==
  CASE hoveredArc # 0 /\ arcAt(hoveredArc) # NoNode -> trail(arcAt(hoveredArc))
    [] Depth(focus) = 0                             -> "zoom in"
    [] OTHER                                        -> "zoom out"

SunInit ==
  /\ sunTree = 1
  /\ sunSize \in SunSizes
  /\ focusId = RootId
  /\ prevFocusId = RootId
  /\ zoomT = 100
  /\ zoomRun = NoZoom
  /\ hoveredArc = 0
  /\ growth = [now |-> Ungrown, next |-> Ungrown]
  /\ crossed = FALSE
  /\ sunMoves = 0

SunMove == sunMoves < MaxSunMoves /\ sunMoves' = sunMoves + 1

\* The effect that starts the growth runs whenever the hovered arc, the focus or
\* the data has changed, and goes from what has grown to these.
growTargets ==
  IF hoveredArc # 0 /\ arcAt(hoveredArc) # NoNode
  THEN buildHoverGrowTargets(arcAt(hoveredArc), focus, sunRadius)
  ELSE Ungrown

\* The zoom to a node.  It forgets the hovered arc and its growth, stops the
\* zoom that may be running, and jumps when motion is to be reduced.
zoomTo(p) ==
  /\ [root |-> SunRoots[sunTree], node |-> p] # focusId
  /\ hoveredArc' = 0
  /\ crossed' = FALSE
  /\ prevFocusId' = focusId
  /\ focusId' = [root |-> SunRoots[sunTree], node |-> p]
  /\ \/ zoomT' = 0 /\ zoomRun' = focusId'
     \/ zoomT' = 100 /\ zoomRun' = NoZoom
  /\ growth' = [now |-> Ungrown, next |-> Ungrown]
  /\ SunMove
  /\ UNCHANGED <<sunTree, sunSize>>

segmentClick == \E p \in drawnSegments : Kids(p) # {} /\ zoomTo(p)

\* The circle in the middle zooms out; it is not drawn where it has no radius.
SunburstCenter ==
  /\ ringsOf(focus, sunRadius).centerR * zoomT
       + ringsOf(prevFocus, sunRadius).centerR * (100 - zoomT) > 10000
  /\ Depth(focus) > 0
  /\ zoomTo(Up(focus))

crumbClick ==
  \E i \in DOMAIN useSunburstBreadcrumbItems : zoomTo(useSunburstBreadcrumbItems[i])

\* A frame of the zoom, and its end.
zoomFrame ==
  /\ zoomRun # NoZoom
  /\ \/ zoomT = 0 /\ zoomT' = 50 /\ UNCHANGED <<prevFocusId, zoomRun>>
     \/ zoomT' = 100 /\ prevFocusId' = zoomRun /\ zoomRun' = NoZoom
  /\ UNCHANGED <<sunTree, sunSize, focusId, hoveredArc, crossed, sunMoves>>
  /\ growth' = [growth EXCEPT !.next = growTargets']

\* The pointer enters a segment.  Segments hear of no leave.
segmentEnter ==
  /\ \E p \in drawnSegments :
       /\ arcIndex(p) # hoveredArc
       /\ hoveredArc' = arcIndex(p)
       /\ crossed' = ~Shown(p, focus)
  /\ SunMove
  /\ UNCHANGED <<sunTree, sunSize, focusId, prevFocusId, zoomT, zoomRun>>
  /\ growth' = [growth EXCEPT !.next = growTargets']

sunburstLeave ==
  /\ hoveredArc # 0
  /\ hoveredArc' = 0
  /\ crossed' = FALSE
  /\ SunMove
  /\ UNCHANGED <<sunTree, sunSize, focusId, prevFocusId, zoomT, zoomRun>>
  /\ growth' = [growth EXCEPT !.next = growTargets']

\* The growth reaches its end.
growEnds ==
  /\ growth.now # growth.next
  /\ growth' = [growth EXCEPT !.now = growth.next]
  /\ UNCHANGED <<sunTree, sunSize, focusId, prevFocusId, zoomT, zoomRun, hoveredArc,
                 crossed, sunMoves>>

\* Other data.  A new root puts the focus back on it; a zoom that is running is
\* not stopped.  The hovered index stays, on whatever arc has it now.
newTree ==
  /\ sunTree' \in DOMAIN SunTrees \ {sunTree}
  /\ IF SunRoots[sunTree'] = SunRoots[sunTree]
     THEN UNCHANGED <<focusId, prevFocusId, zoomT>>
     ELSE focusId' = RootId' /\ prevFocusId' = RootId' /\ zoomT' = 100
  /\ crossed' = (hoveredArc # 0)
  /\ UNCHANGED <<sunSize, zoomRun, hoveredArc>>
  /\ growth' = [now  |-> [p \in Nodes' |->
                            IF SunRoots[sunTree'] = SunRoots[sunTree] /\ p \in Nodes
                            THEN growth.now[p] ELSE 0],
                next |-> growTargets']
  /\ SunMove

SunNext ==
  \/ segmentClick
  \/ SunburstCenter
  \/ crumbClick
  \/ zoomFrame
  \/ segmentEnter
  \/ sunburstLeave
  \/ growEnds
  \/ newTree

SunSpec == SunInit /\ [][SunNext]_sunVars

-----------------------------------------------------------------------------
SunTypeOK ==
  /\ sunTree \in DOMAIN SunTrees
  /\ focus \in Nodes
  /\ prevFocus \in Nodes
  /\ zoomT \in {0, 50, 100}
  /\ DOMAIN growth.now = Nodes
  /\ \A p \in Nodes : growth.now[p] \in 0..HoverPop /\ growth.next[p] \in 0..HoverPop

ZoomAtRest == zoomRun = NoZoom

GrowthAtRest == growth.now = growth.next

\* layoutNode leaves no gap and no overlap: a node's children share its whole arc
\* among them, in order, down to the leaves; worthless children get nothing.
ArcsTile ==
  \A p \in {q \in Nodes : Kids(q) # {} /\ valueOf(q) > 0} :
    LET at(i) == arcOf(Append(p, i))
        n     == Cardinality(Kids(p))
    IN  /\ at(1).a0 = arcOf(p).a0
        /\ at(n).a1 = arcOf(p).a1
        /\ \A i \in 1..(n - 1) : at(i).a1 = at(i + 1).a0

\* Whatever is in focus, its rings lie one around the other from the centre to
\* the rim, and the arcs of the first ring go all the way round.
RingsNest ==
  LET geo(p) == geometryFor(p, focus, sunRadius)
      shown  == {p \in Nodes : Shown(p, focus)}
  IN  /\ \A p \in shown :
           /\ geo(p).innerR = IF Up(p) = focus THEN ringsOf(focus, sunRadius).centerR
                              ELSE geo(Up(p)).outerR
           /\ geo(p).outerR <= sunRadius
      /\ Kids(focus) # {} /\ valueOf(focus) > 0 =>
           MapThenSumSet(LAMBDA p : geo(p).a1 - geo(p).a0, Kids(focus)) = Turn

\* When the growth of a hovered path is over, the rings still meet: an arc starts
\* where the arc it belongs to ends, on the path and beside it.
GrownRingsMeet ==
  ZoomAtRest /\ GrowthAtRest =>
    \A p \in Nodes :
      Shown(p, focus) /\ Shown(Up(p), focus) =>
        SunburstSegment(p).innerR = SunburstSegment(Up(p)).outerR

\* The room defaultSunburstGrowPadding leaves is enough for the growth of any
\* hovered arc of any focus.
GrownFitsBox ==
  ZoomAtRest /\ GrowthAtRest =>
    \A p \in drawnSegments : SunburstSegment(p).outerR <= sunSize \div 2

\* When no zoom is running, the segments drawn are those of the node in focus,
\* where its geometry puts them, however zooms were interrupted and data swapped.
RestShowsFocus ==
  ZoomAtRest =>
    \A p \in drawnSegments :
      LET g == transitionGeometry(p, prevFocus, focus, sunRadius, zoomT)
          f == geometryFor(p, focus, sunRadius)
      IN  /\ Shown(p, focus)
          /\ (g.a0 - f.a0) % Turn = 0
          /\ g.a1 - g.a0 = f.a1 - f.a0
          /\ <<g.innerR, g.outerR>> = <<f.innerR, f.outerR>>

\* Once a zoom is over, the hovered arc is one the focus shows: zoomTo forgets the
\* arc hovered before.  The exception is an arc entered on its way out.
HoveredIsShown ==
  ZoomAtRest /\ hoveredArc # 0 /\ ~crossed => Shown(arcAt(hoveredArc), focus)

\* Refuted: the same without the exception.
HoveredIsAlwaysShown ==
  ZoomAtRest /\ hoveredArc # 0 /\ arcAt(hoveredArc) # NoNode => Shown(arcAt(hoveredArc), focus)

\* Refuted: the hint names every node from the root to the hovered arc.
HintIsWholePath ==
  hoveredArc # 0 /\ arcAt(hoveredArc) # NoNode =>
    Len(SunburstHint) = Depth(arcAt(hoveredArc)) + 1

=============================================================================
