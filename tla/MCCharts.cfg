SPECIFICATION ChartsSpec
CONSTANTS
  MaxData = 2
  MaxFlips = 2
  MaxSigns = 1
  Series <- SeriesDef
  Width = 4
  BoxWidth = 1
  BoxOffset = 1
  MaxGestures = 4
  Levels = {0, 64}
  Pad = 8
  Window = 4
  Unit = 2
  Lead = 2
  MaxSamples = 2
  MaxTicks = 2
  AxisHeight = 100
  MinGap = 24
  MarkCharts = {"pie", "ring", "radar", "funnel", "sankey", "choropleth", "shell"}
  MaxMarks = 3
  MaxMarkMoves = 4
  CentreValues = {1, 2}
  SunTrees <- SunTreesDef
  SunRoots <- SunRootsDef
  Turn = 720
  SunSizes = {52000, 20000}
  HoverPop = 800
  MaxSunMoves = 3
  HeatDays <- HeatDaysDef
  HeatSpans = {"year", "half", "weeks"}
  FirstDay = 4
  SummerDays <- SummerDaysDef
  FewWeeks = 5
  WeekStarts = {0, 1}
  SepSpacings = {0, 6}
  SepEvery = 4
  PlotWidth = 500
  BrushWeeks = 4
  MaxLate = 1
  HeatCells = {1, 2}
  LevelOf <- LevelOfDef
  HeatLevels = {0, 1}
  ShowDelays = {TRUE, FALSE}
  HideDelays = {TRUE, FALSE}
  MaxCellSteps = 4
  GaugeCounts = {1, 2, 3, 7}
  GaugeSpacings = {0, 25, 100}
  GaugeValues = {0, 33, 50, 100}
  TrackLengths = {1, 9}
  Corners = {0, 3}
  Channels = {0, 10, 255}
  FunnelValues = {1, 2, 4}
  MaxStages = 3
  FunnelGaps = {0, 4}
  FunnelSizes <- FunnelSizesDef
  LayerCounts = {1, 2, 3, 5}
  RingSizes = {10, 16, 100, 160, 400, 548}
  RingCounts = {1, 2, 4}
  MaxScrubs = 2
  BarValues = {2, 9}
  MaxBarRows = 2
  MaxBarSeries = 3
  StackGaps = {0, 1}
  GroupGaps = {2, 4}
  PlotLength = 100
  PlotHeight = 20
  BarPadding = 2
  SquareSizes = {0, 2, 5}
  SquareGaps = {0, 3}
  SlotWidths = {1, 5, 12, 40}
  MaxBarSteps = 5
  MathValues = {0, 1, 3}
  MaxPointsIn = 6
  PointLimits = {2, 3, 4, 5}
  CandleRows <- CandleRowsDef
  MaxCandles = 5
  SignedValues <- SignedDef
  AreaEnds <- AreaEndsDef
  AreaSize = 4
  TickTimes = {0, 1, 2, 3, 4, 6}
  TickTargets = {2, 3, 4}
  LabelSpans = {1, 3}
  AxisEnds = {8, 11}
  MaxGapLayouts = 6
  ProjectionTimes = {0, 1, 2, 4}
  ProjectionValues = {0, 1, 3}
  Horizons = {1, 3}
  DomainEnds <- DomainEndsDef
INVARIANTS
  ChartsFollowInput
  ChartsLaidOut
CHECK_DEADLOCK FALSE
