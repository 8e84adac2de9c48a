\* Three messages: one batch of two and the beginning of another, with two
\* crashes or lost replies.  Two raw ticks more than the normalizer's ring of
\* two holds, a second token, three failures of the feed, two browsers and two
\* updates, so that one can come while the other is sent.
CONSTANTS
  MaxMsgs = 3
  BatchSize = 2
  StreamMaxLen = 2
  MaxFaults = 2
  CatchErrors = TRUE
  Detached = TRUE
  RingSize = 2
  TierInterval = 2
  MaxStamp = 3
  MaxRaw = 5
  MaxNormFaults = 1
  AuthBackoff = 6
  MaxBackoff = 3
  MaxTokens = 2
  MaxFeedFaults = 3
  Ids = {b1, b2}
  MaxUpdates = 2
SPECIFICATION MCSpec
CHECK_DEADLOCK FALSE
INVARIANTS
  StreamSafe
  IngestSafe
  GateSafe
PROPERTIES
  InOrderAtMostOnce
  StreamProgress
  NormSafe
  MarksAreExact
  TokenBringsFeed
  TicksReachScreens
