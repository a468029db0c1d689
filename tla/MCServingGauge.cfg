\* The same requests; the property is the HELP text of the gauge.
CONSTANTS
  Requests = {1, 2, 3}
  CorsConfigured = TRUE
  KindsOfRequests <- MCKinds
SPECIFICATION Spec
CHECK_DEADLOCK FALSE
INVARIANT ActiveIsExecuting
