\* Three requests at once, the standalone customer origin configured.
CONSTANTS
  Requests = {1, 2, 3}
  CorsConfigured = TRUE
  KindsOfRequests <- MCKinds
SPECIFICATION FairSpec
CHECK_DEADLOCK FALSE
INVARIANTS TypeOK MetricsExplained NoDoubleCount NobodyCutOff
PROPERTIES RequestsEnd StreamsReclaimed DrainCompletes
