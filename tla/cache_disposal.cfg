\* Two processes that run the job, one cached message, one reader; two troubles.
CONSTANTS
  NoRun = NoRun
  Run = {p1, p2}
  Ttl = 2
  MaxDelay = 1
  Locator = {m1}
  Reader = {r1}
  MaxTtl = 2
  MaxTroubles = 2
SPECIFICATION DisposalSpec
INVARIANTS
  OneLiveLease
  LogExplainsRow
PROPERTIES
  SweepDisposesOnlyExpired
  ExpiredTextIsDisposed
