\* The same requests; the property is what is said of the streams at shutdown.
CONSTANTS
  Requests = {1, 2, 3}
  CorsConfigured = TRUE
  KindsOfRequests <- MCKinds
SPECIFICATION Spec
CHECK_DEADLOCK FALSE
INVARIANT StreamsDrain
