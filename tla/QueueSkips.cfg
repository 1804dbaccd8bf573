\* A tick that comes before the item's INSERT.
SPECIFICATION Spec
CONSTANTS
  Workers = {w1}
  Readings = {r1}
  Linkable = {r1}
  Slots = {c1}
  NoCopy = NoCopy
  MaxRetries = 1
  QueueLimit = 2
  BatchSize = 2
  Concurrency = 1
  ClaimLimit = 2
  ReclaimIsTimely = TRUE
  StatementsMayFail = FALSE
  ErrorsAreDefinite = TRUE
  FundingMayDry = FALSE
  MaxCrashes = 0
  MaxSends = 2
PROPERTY SkippedOnlyWhenClaimedOrGone
