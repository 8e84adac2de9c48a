\* Writes: three messages fill one batch and begin another, crashes anywhere,
\* an INSERT that fails, position warnings on the stream.  Outcomes: a day of
\* two minutes and two of grace, signals that live three, a query that returns
\* one row at a time of the two signals, and one failure.  Trades: a long and a
\* short one with two targets, over three minutes and three price moves.  Runs:
\* two visitors with three searches between them, of up to three profiles of which
\* two are kept, two statements that fail and a crash.
CONSTANTS
  MaxMsgs = 3
  ReadSize = 2
  WriteSize = 2
  StreamMaxLen = 3
  MaxCrashes = 2
  MaxDbFaults = 1
  Poison = TRUE
  SignalTTL = 3
  Lookback = 4
  FetchLimit = 1
  Close = 2
  CloseGrace = 2
  RecapTime = 3
  MaxSignals = 2
  MaxTouches = 2
  MaxDayFaults = 1
  Prices = {0, 1, 2, 3}
  Plans <- MCPlans
  LifecycleTTL = 2
  MaxMinutes = 3
  MaxMoves = 3
  Visitors = {v1, v2}
  Tables <- MCTables
  KeptProfiles = 2
  MaxSearches = 3
  MaxRunFaults = 2
  MaxApiCrashes = 1
SPECIFICATION MCSpec
CHECK_DEADLOCK FALSE
INVARIANTS
  CheckpointedIsArchived
  BufferSafe
  OutcomeSafe
  TradeSafe
  RunSafe
PROPERTIES
  SignalsAreArchived
  AllIsDecided
