\* One number, two keys: the codes it is sent.
CONSTANTS
  Buckets = {"OtpDispatchPerIdentifier", "OtpDispatchPerClient", "OtpVerifyPerIdentifier", "MfaVerifyPerClient", "PasswordPerIdentifier"}
  Spellings = {"+1 2", "+12", "Ann", "ann", "junk", "c1"}
  Keys = {"+1 2", "+12", "ann", "junk", "c1"}
  TicksPerSecond = 1
  MaxTracked = 3
  MaxTime = 3
  Patience = 1
  Handlers = {h1, h2}
  NoPost = NoPost
  NoDestination = NoDestination
  Destinations = {"phone", "mailbox"}
  Posts <- MCPosts
  Limit <- MCLimit
  Window <- MCWindow
  Normalised <- MCNormalised
  Destination <- MCDestination
SPECIFICATION LSpec
INVARIANT NumberWithinBudget
