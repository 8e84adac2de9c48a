\* One symbol and no failure: does a symbol never have two pending rows?
CONSTANTS
  RadarSymbols = {s1}
  RadarStale = 1
  TierTTL = 2
  MaxSweeps = 5
  MaxRadarFaults = 0
SPECIFICATION RadarSpec
CHECK_DEADLOCK FALSE
INVARIANT OneOpenRow
