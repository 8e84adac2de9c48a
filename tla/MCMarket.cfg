\* Bars of two units over two and a half bars, with three ticks in batches of
\* two and one fault; three articles, one of which never gets a score, with
\* batches of two; three sweeps of one symbol and one failure.  Sectors: six
\* features of three symbols, enough to come to rest, ranked after every second,
\* and a restart or a failing write.  Verdict: five families, three of them under
\* one weight and one that only argues for a rise.
CONSTANTS
  BarLength = 2
  Grace = 1
  BatchMax = 2
  MaxTicks = 3
  MaxClock = 5
  MaxBarFaults = 1
  Articles = {1, 2, 3}
  BadArticles = {1}
  SentimentBatch = 2
  MaxNewsFaults = 2
  Evidence <- MCEvidence
  MaxShadowSweeps = 3
  MaxShadowFaults = 1
  hdfc = hdfc
  icici = icici
  tcs = tcs
  Members = {hdfc, icici, tcs}
  NSectors = 2
  SectorOf <- MCSectorOf
  Readings <- MCReadings
  IndexReadings <- MCIndexReadings
  RankEvery = 2
  MaxUpdates = 6
  MaxSectorFaults = 1
  Read = {"structure", "zone", "ict", "sentiment", "volume"}
  Contexts <- MCContexts
SPECIFICATION MCSpec
CHECK_DEADLOCK FALSE
INVARIANTS
  BarsSafe
  ShadowSafe
  SectorSafe
  VerdictSafe
PROPERTIES
  NewsSafe
  BetterIsNeverWorse
  WorkIsDone
