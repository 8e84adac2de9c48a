\* The signal path: one symbol and two strategies, so that the shared key has
\* two writers; the lives keep the order of the settings, 300 s, 900 s and a
\* sweep every 60 s.  The episodes: both directions of one symbol.  The
\* pre-breakout state: two bars start it, three end it, and the state's own
\* limit is shorter than the life of its key.
CONSTANTS
  Symbols = {infy}
  NStrategies = 2
  SignalTtl = 2
  CooldownTtl = 5
  SweepPeriod = 1
  Directions = {"bullish", "bearish"}
  MaxPrice = 3
  StopBuffer = 1
  WatchTtl = 2
  EpisodeCooldown = 1
  CompressTicks = 2
  ReversalTicks = 3
  MaxState = 2
  StateTtl = 4
SPECIFICATION MCSpec
INVARIANTS
  SetupSafe
PROPERTIES
  EpisodeSafe
  NoStateForever
  ActiveMembersExpire
