\* One process that writes one item at a time, nothing fails without saying so; no symmetry.
SPECIFICATION FairSpec
CONSTANTS
  Workers = {w1}
  Readings = {r1}
  Linkable = {r1}
  Slots = {c1, c2}
  NoCopy = NoCopy
  MaxRetries = 1
  QueueLimit = 2
  BatchSize = 2
  Concurrency = 1
  ClaimLimit = 2
  ReclaimIsTimely = TRUE
  StatementsMayFail = FALSE
  ErrorsAreDefinite = TRUE
  FundingMayDry = TRUE
  MaxCrashes = 0
  MaxSends = 2
INVARIANT SentOnce
PROPERTY ClaimedIsSettled
