\* Two deliveries of any two events, one replica without a pool; faults stop after two.
CONSTANTS
  Deliveries = {d1, d2}
  Replicas = {r1, r2}
  Providers = {"stripe", "paypal"}
  CertBased = {"paypal"}
  Configured = {"stripe", "paypal"}
  Pooled = {r1}
  Payloads = {"b1", "b2"}
  Digests = {"h1", "h2"}
  MaxFaults = 2
  Events <- MCEvents
  Sha256 <- MCSha256
SPECIFICATION FairSpec
INVARIANTS TypeOK AckedIsStored RecordedAtMostOnce ConflictIsGenuine
PROPERTIES ImplementsLedger DeliveriesSettle
