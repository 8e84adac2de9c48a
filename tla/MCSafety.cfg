\* The signal path: one symbol and two strategies, so that the shared key has
\* two writers; the lives keep the order of the settings, 300 s, 900 s and a
\* sweep every 60 s.  The alerter: alerts of two symbols and their warnings,
\* with one fault anywhere; the windows are nested as the real ones are.  The
\* structure: six bars of five shapes with a pivot in every window of three, more
\* than the engine remembers, and one restart.  The backtest: three bars of
\* warm-up and three that trade, the last of them in another session; the bar
\* before it is the one at 15:30.
\* Walk-forward: six outcomes, three on either side of the split.
CONSTANTS
  Symbols = {infy}
  NStrategies = 2
  SignalTtl = 1
  CooldownTtl = 2
  SweepPeriod = 1
  AlertSymbols = {s1, s2}
  RateLimit = 2
  BurstLimit = 1
  AlertCooldown = 1
  RateTtl = 2
  BurstTtl = 1
  WarningTtl = 1
  RetryMax = 2
  MaxFaults = 1
  Shapes <- MCShapes
  Left = 1
  Right = 1
  KeptBars = 4
  SeedBars = 3
  GapTouches = 2
  Band = 1
  RetestTtl = 2
  VolumeBars = 2
  MaxBars = 6
  MaxRestarts = 1
  ReplayShapes <- MCReplayShapes
  ReplayBars = 6
  WarmupBars = 3
  SessionBars = 5
  AtClose = {5}
  Configs <- MCConfigs
  Scores <- MCScores
  Lines = {39}
  MinQuality = 5
  MinEdge = 1
  Lookback = 2
  Buffer = 1
  MaxStop = 14
  Ratios <- MCRatios
  Slip = 1
  Fee = 1
  Outcomes <- MCOutcomes
  Profiles <- MCProfiles
  LiveSettings <- MCLiveSettings
  MinTrain = 2
  MinTest = 2
  TrainPercent = 50
  Embargo = 2
  Target = 500
  Proposers = {p}
  MaxRows = 6
  MaxDeploys = 1
  MaxAnswers = 1
SPECIFICATION MCSpec
SYMMETRY Symmetry
CHECK_DEADLOCK FALSE
INVARIANTS
  SignalSafe
  AlertSafe
  HourBounded
  StructureStands
  ReplaySafe
  WalkSafe
PROPERTIES
  AlertPace
