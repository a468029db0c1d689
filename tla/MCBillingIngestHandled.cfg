\* The ledger entity doc: a conflicting INSERT was already handled.
CONSTANTS
  Deliveries = {d1, d2}
  Replicas = {r1}
  Providers = {"stripe", "paypal"}
  CertBased = {"paypal"}
  Configured = {"stripe", "paypal"}
  Pooled = {r1}
  Payloads = {"b1", "b2"}
  Digests = {"h1", "h2"}
  MaxFaults = 1
  Events <- MCEvents
  Sha256 <- MCSha256
SPECIFICATION FairSpec
PROPERTY ConflictMeansAlreadyHandled
