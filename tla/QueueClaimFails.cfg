\* A claim that fails with items of two origins in the batch.
SPECIFICATION Spec
CONSTANTS
  Workers = {w1}
  Readings = {r1, r2}
  Linkable = {r1, r2}
  Slots = {c1, c2}
  NoCopy = NoCopy
  MaxRetries = 1
  QueueLimit = 2
  BatchSize = 2
  Concurrency = 1
  ClaimLimit = 2
  ReclaimIsTimely = TRUE
  StatementsMayFail = TRUE
  ErrorsAreDefinite = TRUE
  FundingMayDry = FALSE
  MaxCrashes = 0
  MaxSends = 2
PROPERTY FailedClaimReturnsBatch
