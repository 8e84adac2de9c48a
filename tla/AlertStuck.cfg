\* The rate limit when the alerter dies once.
SPECIFICATION AlertSpec
CONSTANTS
  AlertSymbols = {s1}
  RateLimit = 1
  BurstLimit = 1
  AlertCooldown = 1
  RateTtl = 3
  BurstTtl = 1
  WarningTtl = 1
  RetryMax = 2
  MaxFaults = 1
PROPERTY
  RateLimitLifts
