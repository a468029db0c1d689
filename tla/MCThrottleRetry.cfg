\* The doc of Decision: Retry-After outlasts the oldest event.
CONSTANTS
  Buckets = {"verify", "dispatch"}
  Spellings = {"Ann", "ann", "bob"}
  Keys = {"ann", "bob"}
  TicksPerSecond = 2
  MaxTracked = 2
  MaxTime = 5
  Limit <- MCLimit
  Window <- MCWindow
  Normalised <- MCNormalised
SPECIFICATION Spec
INVARIANT RetryAfterOutlastsOldest
