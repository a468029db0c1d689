\* Two forms, two attempts at once, one fault, two accounts, three sessions.
CONSTANTS
  Forms = {"f1", "f2"}
  Handlers = {"h1", "h2"}
  Accounts = {"ann", "bob"}
  NoAccount = NoAccount
  Sessions = {"s1", "s2", "s3"}
  NoSession = NoSession
  FirstSessions = {"s1"}
  Orgs = {"o1"}
  Contents = {"c1", "c2"}
  ValidContents = {"c1", "c2"}
  Configured = {"keys", "node", "functions"}
  Stamps = {1, 2}
  MaxFaults = 1
  MaxMoves = 1
  AccountOf <- MCAccountOf
  FormsOfHandlers <- MCFormsOfHandlers
  KindsOfForms <- MCKinds
SPECIFICATION FairSpec
CHECK_DEADLOCK FALSE
INVARIANTS TypeOK OneEffectPerForm EffectByFormOwner SuccessIsTrue SecretRecoverable
PROPERTY SecretEventuallyShown
