\* Nothing fails: one process, two items of a batch in flight at a time.
SPECIFICATION Spec
CONSTANTS
  Workers = {w1}
  Readings = {r1}
  Linkable = {r1}
  Slots = {c1, c2}
  NoCopy = NoCopy
  MaxRetries = 1
  QueueLimit = 2
  BatchSize = 2
  Concurrency = 2
  ClaimLimit = 2
  ReclaimIsTimely = TRUE
  StatementsMayFail = FALSE
  ErrorsAreDefinite = TRUE
  FundingMayDry = FALSE
  MaxCrashes = 0
  MaxSends = 2
INVARIANT NeverSentTwice
