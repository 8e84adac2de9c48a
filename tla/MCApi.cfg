\* One symbol over five sweeps, with rows that are given up after one and a
\* tier cache that lives for two; a journal of two rows, three trades of which
\* one may be the scanner's and the second has no levels if it is the api's,
\* one rewrite and one failure; a position, three windows that poll, and one
\* call that fails.
CONSTANTS
  RadarSymbols = {s1}
  RadarStale = 1
  TierTTL = 2
  MaxSweeps = 5
  MaxRadarFaults = 1
  SignalIds = {"s1"}
  JournalRows = 2
  Openings = {"WATCH"}
  Bare = {2}
  MaxTrades = 3
  MaxRewrites = 1
  MaxJournalFaults = 1
  Positions = {p1}
  Windows = {w1, w2, w3}
  MaxBrokerFaults = 1
SPECIFICATION MCSpec
CHECK_DEADLOCK FALSE
INVARIANTS
  JournalSafe
  WarningSafe
PROPERTIES
  RadarSafe
  RowResolves
  OpenRowResolves
  BrokenIsTold
