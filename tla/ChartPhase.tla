----------------------------- MODULE ChartPhase -----------------------------
(***************************************************************************)
(* The lifecycle of a time-series chart of packages/ui: LineChart and      *)
(* AreaChart over TimeSeriesChartInner, whose phases are driven by         *)
(* useChartPhaseOrchestrator and answered by the loading pulse or sweep,   *)
(* the reveal clip, the y-domain tween and the animated series path.       *)
(*                                                                         *)
(* The chart is one record.  A handler or a timer changes its state; the   *)
(* next commit renders that state and runs the effects whose dependencies  *)
(* changed, in the order the hooks are called.  `due' remembers that the   *)
(* status effect asked for a phase no render has shown yet, and `crossed'  *)
(* that something else wrote the phase in that window.  A datum version    *)
(* stands for its rows and for the y-domain they give; 0 is the skeleton.  *)
(***************************************************************************)
EXTENDS Naturals

CONSTANTS MaxData,      \* versions of the data prop
          MaxFlips,     \* changes of the status prop
          MaxSigns      \* changes of revealSignature

VARIABLES setup,        \* the props fixed for the chart's life
          chart

chartVars == <<setup, chart>>

Skeleton == 0
NoTween == MaxData + 1
Halfway == MaxData + 1      \* a y-domain between two versions' domains
Statuses == {"loading", "ready"}
Phases == {"loading", "exiting", "gridTweenReady", "revealing", "ready",
           "exitingReady", "gridTweenLoading"}

Setups == [anim : BOOLEAN,      \* animationDuration > 0
           ytime : BOOLEAN,     \* yDomainTweenDuration > 0
           tweens : BOOLEAN,    \* yDomainTween, motion allowed, above the threshold
           preview : BOOLEAN,   \* StaticChartPreview: no enter reveal, no clip
           pulse : BOOLEAN,     \* a series draws the pulse or the sweep
           rows : 1..2]         \* rows of every datum version

resolveRestingChartPhase(status) == IF status = "loading" THEN "loading" ELSE "ready"

isChartInteractionPhase(phase) == phase = "ready"

useClipReveal(c) == ~setup.preview /\ setup.rows > 1 /\ setup.anim

ChartInit ==
  /\ setup \in Setups
  /\ \E s \in Statuses :
       chart = [status |-> s, data |-> 1, sign |-> 0,
                phase |-> resolveRestingChartPhase(s),
                phaseRef |-> resolveRestingChartPhase(s),
                plot |-> IF s = "loading" THEN Skeleton ELSE 1,
                shown |-> IF s = "loading" THEN Skeleton ELSE 1,
                isLoaded |-> s = "ready", timer |-> FALSE,
                domain |-> IF s = "loading" THEN Skeleton ELSE 1,
                scale |-> IF s = "loading" THEN Skeleton ELSE 1,
                tween |-> NoTween, path |-> "target", pathRuns |-> FALSE,
                pathSign |-> IF s = "loading" THEN Skeleton ELSE 1,
                due |-> FALSE, crossed |-> FALSE, mounted |-> FALSE, flips |-> 0,
                was |-> [status |-> s, sign |-> 0, data |-> 1,
                         phase |-> resolveRestingChartPhase(s),
                         scale |-> Skeleton, shown |-> Skeleton]]

setChartPhase(c, p) ==
  [c EXCEPT !.phase = p, !.crossed = @ \/ (c.due /\ p # c.phase)]

(***************************************************************************)
(* Effects of the orchestrator, in call order.                             *)
(***************************************************************************)

statusEffect(c) ==
  LET to == CASE c.status = "ready" /\ setup.anim -> "exiting"
              [] c.status = "ready" /\ ~setup.anim ->
                   IF setup.ytime THEN "gridTweenReady" ELSE "revealing"
              [] c.status = "loading" /\ setup.anim -> "exitingReady"
              [] OTHER -> IF setup.ytime THEN "gridTweenLoading" ELSE "loading"
      plot == CASE to = "revealing" -> c.data
                [] to = "loading" -> Skeleton
                [] OTHER -> c.plot
  IN  IF c.status = c.was.status
        THEN c
        ELSE [c EXCEPT !.phase = to, !.plot = plot, !.isLoaded = FALSE, !.due = TRUE]

enterEffect(c) ==
  IF /\ ~c.mounted \/ c.status # c.was.status \/ c.sign # c.was.sign
     /\ ~setup.preview /\ c.status = "ready" /\ c.phaseRef = "ready"
    THEN [setChartPhase(c, "revealing") EXCEPT !.isLoaded = FALSE]
    ELSE c

plotEffect(c) ==
  CASE c.phaseRef = "loading" -> IF c.status = "loading" THEN [c EXCEPT !.plot = Skeleton] ELSE c
    [] c.phaseRef = "exiting" -> [c EXCEPT !.plot = Skeleton]
    [] OTHER -> [c EXCEPT !.plot = c.data]

revealEffect(c) ==
  IF c.phaseRef = c.was.phase /\ c.mounted THEN c
  ELSE IF c.phaseRef # "revealing" THEN [c EXCEPT !.timer = FALSE]
  ELSE IF setup.anim THEN [c EXCEPT !.timer = TRUE]
  ELSE [setChartPhase(c, "ready") EXCEPT !.isLoaded = TRUE, !.timer = FALSE]

notifyLoadingPulseComplete(c) ==
  IF c.phaseRef = "exiting" THEN setChartPhase(c, "gridTweenReady") ELSE c

notifyRevealConcealComplete(c) ==
  IF c.phaseRef = "exitingReady" THEN setChartPhase(c, "gridTweenLoading") ELSE c

notifyYDomainTweenComplete(c) ==
  CASE c.phaseRef = "gridTweenLoading" -> setChartPhase(c, "loading")
    [] c.phaseRef = "gridTweenReady" -> setChartPhase(c, "revealing")
    [] OTHER -> c

(***************************************************************************)
(* The y-domain hook.                                                      *)
(***************************************************************************)

resolveAnimatedYDestinationDomains(c) ==
  IF c.phaseRef \in {"loading", "exiting", "gridTweenLoading"} THEN Skeleton ELSE c.data

snapDomains(c, to) == [c EXCEPT !.domain = to, !.tween = NoTween]

\* Mutant: an equal domain is nothing to settle.
tweenDomainsSilent(c, to) ==
  IF c.domain = to THEN c
  ELSE IF ~setup.tweens THEN notifyYDomainTweenComplete(snapDomains(c, to))
  ELSE [c EXCEPT !.tween = to]

tweenDomains(c, to) ==
  IF c.domain = to \/ ~setup.tweens
    THEN notifyYDomainTweenComplete(snapDomains(c, to))
    ELSE [c EXCEPT !.tween = to]

phaseDomainEffect(c) ==
  IF c.phaseRef = c.was.phase THEN c
  ELSE IF c.phaseRef \in {"gridTweenLoading", "gridTweenReady"}
    THEN tweenDomains([c EXCEPT !.tween = NoTween], resolveAnimatedYDestinationDomains(c))
    ELSE snapDomains(c, resolveAnimatedYDestinationDomains(c))

targetDomainEffect(c) ==
  IF c.phaseRef \notin {"ready", "revealing"} \/ c.data = c.was.data THEN c
  ELSE IF setup.tweens /\ c.phaseRef = "ready"
    THEN tweenDomains([c EXCEPT !.tween = NoTween], c.data)
    ELSE snapDomains(c, c.data)

(***************************************************************************)
(* The animated series path: every change of its dependencies stops the    *)
(* running animation, and only a new signature starts another.             *)
(***************************************************************************)

pathEffect(c) ==
  IF c.shown = c.was.shown /\ c.scale = c.was.scale /\ c.phaseRef = c.was.phase
    THEN c
  ELSE IF ~(c.phaseRef = "ready" /\ setup.ytime)
    THEN [c EXCEPT !.pathRuns = FALSE, !.path = "target", !.pathSign = c.shown]
  ELSE [c EXCEPT !.pathRuns = c.pathSign # c.shown, !.pathSign = c.shown]

Rendered(c) == [c EXCEPT !.phaseRef = c.phase, !.shown = c.plot,
                          !.scale = c.domain, !.due = FALSE]

Committed(c) ==
  [c EXCEPT !.mounted = TRUE,
            !.was = [status |-> c.status, sign |-> c.sign, data |-> c.data,
                     phase |-> c.phaseRef, scale |-> c.scale, shown |-> c.shown]]

Dirty(c) ==
  \/ ~c.mounted \/ c.phase # c.phaseRef \/ c.plot # c.shown
  \/ c.status # c.was.status \/ c.sign # c.was.sign \/ c.data # c.was.data
  \/ c.domain # c.scale

commit ==
  /\ Dirty(chart)
  /\ LET orchestrated == revealEffect(plotEffect(enterEffect(statusEffect(Rendered(chart)))))
     IN  chart' = Committed(pathEffect(targetDomainEffect(phaseDomainEffect(orchestrated))))
  /\ UNCHANGED setup

(***************************************************************************)
(* Props and callbacks.                                                    *)
(***************************************************************************)

setStatus ==
  /\ chart.flips < MaxFlips
  /\ \E s \in Statuses \ {chart.status} :
       chart' = [chart EXCEPT !.status = s, !.flips = @ + 1]
  /\ UNCHANGED setup

setData ==
  /\ chart.data < MaxData
  /\ chart' = [chart EXCEPT !.data = @ + 1]
  /\ UNCHANGED setup

setRevealSignature ==
  /\ chart.sign < MaxSigns
  /\ chart' = [chart EXCEPT !.sign = @ + 1]
  /\ UNCHANGED setup

revealTimerFires ==
  /\ chart.timer
  /\ chart' = [setChartPhase(chart, "ready") EXCEPT !.isLoaded = TRUE, !.timer = FALSE]
  /\ UNCHANGED setup

\* The pulse shown while loading loops; the one shown while exiting ends once.
resolveLineLoadingPulseMode(phase) ==
  CASE phase = "loading" -> "loop" [] phase = "exiting" -> "exit" [] OTHER -> "none"

PulseRuns(c) == setup.pulse /\ resolveLineLoadingPulseMode(c.phaseRef) = "exit"

pulseEnds ==
  /\ PulseRuns(chart)
  /\ chart' = notifyLoadingPulseComplete(chart)
  /\ UNCHANGED setup

ClipConceals(c) == useClipReveal(c) /\ c.phaseRef = "exitingReady"

concealEnds ==
  /\ ClipConceals(chart)
  /\ chart' = notifyRevealConcealComplete(chart)
  /\ UNCHANGED setup

tweenFrame ==
  /\ chart.tween # NoTween /\ chart.domain # Halfway
  /\ chart' = [chart EXCEPT !.domain = Halfway]
  /\ UNCHANGED setup

tweenEnds ==
  /\ chart.tween # NoTween
  /\ chart' = notifyYDomainTweenComplete(snapDomains(chart, chart.tween))
  /\ UNCHANGED setup

pathFrame ==
  /\ chart.pathRuns /\ chart.path = "target"
  /\ chart' = [chart EXCEPT !.path = "between"]
  /\ UNCHANGED setup

pathEnds ==
  /\ chart.pathRuns
  /\ chart' = [chart EXCEPT !.path = "target", !.pathRuns = FALSE]
  /\ UNCHANGED setup

ChartNext ==
  \/ commit \/ setStatus \/ setData \/ setRevealSignature \/ revealTimerFires
  \/ pulseEnds \/ concealEnds \/ tweenFrame \/ tweenEnds \/ pathFrame \/ pathEnds

(***************************************************************************)
(* What the marks draw in a phase.                                         *)
(***************************************************************************)

canInteract(c) == c.isLoaded /\ isChartInteractionPhase(c.phaseRef)

showSeriesStroke(phase) == phase \in {"revealing", "ready", "exitingReady"}

showSeriesContent(phase) == showSeriesStroke(phase)

showLoadingPulse(phase) == setup.pulse /\ resolveLineLoadingPulseMode(phase) # "none"

showLoadingLabel(phase) == phase \in {"loading", "exiting", "gridTweenReady"}

isLoadingGridChromePhase(phase) == phase \in {"loading", "exiting", "gridTweenLoading"}

shimmerActive(phase) == phase = "loading"

(***************************************************************************)
(* Properties.                                                             *)
(***************************************************************************)

PhaseTypeOK ==
  /\ setup \in Setups
  /\ {chart.phase, chart.phaseRef} \subseteq Phases
  /\ {chart.plot, chart.shown} \subseteq 0..MaxData
  /\ {chart.domain, chart.scale, chart.tween} \subseteq 0..MaxData + 1

AtRest ==
  /\ ~Dirty(chart) /\ ~chart.timer /\ chart.tween = NoTween /\ ~chart.pathRuns
  /\ ~PulseRuns(chart) /\ ~ClipConceals(chart)

\* Where the lifecycle has nothing left to wait for: no series draws the exit
\* pulse, or no clip is mounted to conceal the series.
StopsShort ==
  \/ chart.phase = "exiting" /\ ~setup.pulse
  \/ chart.phase = "exitingReady" /\ ~useClipReveal(chart)

\* However status, data and signature changed meanwhile, a chart nothing moves
\* any more is in the resting phase of its status: the pulse, the clip, the
\* tween and the timer hand each phase on (use-chart-phase-orchestrator.ts).
\* The two exceptions are the ones StopsShort names and a phase written over
\* the one the status effect had just asked for.
SettlesInStatus ==
  AtRest /\ ~StopsShort /\ ~chart.crossed =>
    chart.phase = resolveRestingChartPhase(chart.status)

\* A chart that answers the pointer draws the data it was last given, on the
\* y-domain of those data, once the tween that leads there has ended.
InteractsWithData ==
  canInteract(chart) /\ AtRest => chart.shown = chart.data /\ chart.scale = chart.data

\* Outside the render a change is still being committed in, a drawn series is
\* the data and never the skeleton the loading phases plot (plotEffect).
DrawnSeriesIsData ==
  showSeriesStroke(chart.phaseRef) /\ ~Dirty(chart) => chart.shown # Skeleton

\* What the lifecycle is for, without the exceptions.  Refuted: a chart of one
\* row, a static preview or a chart whose series draw no pulse never leaves the
\* exit phase, and a reveal that ends in the same commit as a status change
\* leaves the chart `ready' under status `loading'.
AlwaysSettles ==
  AtRest => chart.phase = resolveRestingChartPhase(chart.status)

\* A chart at rest draws its series at the data's points.  Refuted: every frame
\* of the y-domain tween replaces yScale, which stops the path animation begun
\* by the same data change (use-animated-series-path.ts cleanup), and its
\* signature being unchanged nothing starts it again: the line stays between.
PathFollowsData ==
  AtRest => chart.path = "target"

ChartSpec == ChartInit /\ [][ChartNext]_chartVars
=============================================================================
