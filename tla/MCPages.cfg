SPECIFICATION PagesSpec
CONSTANTS
  Tabs = {t1, t2}
  Calls = {c1}
  MaxTokens = 3
  MaxTicks = 1
  MaxExpiries = 1
  MaxUnclear = 1
  MaxLoads = 1
  MaxSends = 2
  Emails = {ann, bob}
  Protected = {ann}
  MaxAsks = 3
  WebPaths <- WebPathsDef
  AdminPaths <- AdminPathsDef
  MaxHops = 4
  MaxUpsets = 1
  MaxDoorMoves = 4
  Users = {ann, bob}
  MaxWrites = 1
  MaxFetches = 4
  MaxLogins = 1
  MaxLostFrames = 1
  MaxNotices = 2
  PageRows = 1
  MaxMisses = 1
  MaxRefusals = 1
  MaxText = 3
  SlugLimit = 2
  MinSlug = 1
  OutcomeNames = {0, 1, 3}
  MaxOutcomes = 3
  MaxInputs = 3
  SearchTexts = {"", "x", "i1", "i2", "i3"}
  OtherPages = {"/portfolio"}
  PaletteItems = {"i1", "i2", "i3"}
  MaxRecent = 2
  MaxVisits = 4
  MaxGestures = 5
  Devices = {1, 2, 3}
  MaxChanges = 3
  PageNames = {"portfolio", "positions", "orders", "transactions", "wallet", "liquidity", "referrals", "mine", "home", "account", "devices"}
  Ledgers = {"transactions", "trades"}
  MaxRereads = 2
  Disputes = {1, 2}
  MaxBegun = 2
  MaxAttempts = 2
  Subjects = {1, 2, 3}
  PageRowsA = 2
  MaxOthers = 1
  MaxOps = 2
  Holding <- HoldingDef
  FullPage = 2
  MaxSteps = 3
  MaxReadFails = 1
  TextDigits = {0, 1, 9}
  MaxWhole = 1
  MaxFraction = 2
  Base = 10
  Ceiling = 5
INVARIANTS
  SessionSurvives
  SignInBelongs
  
  ActionsAsConfirmed
CHECK_DEADLOCK FALSE
