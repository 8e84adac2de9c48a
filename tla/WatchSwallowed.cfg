\* Both directions of one symbol: a candidate that the gate stops leaves an
\* episode that keeps silent.
CONSTANTS
  Directions = {"bullish", "bearish"}
  MaxPrice = 3
  StopBuffer = 1
  WatchTtl = 2
  EpisodeCooldown = 1
SPECIFICATION EpisodeSpec
INVARIANT MarkedMeansAnnounced
