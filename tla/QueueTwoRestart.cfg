\* Two processes, one exit and restart at any moment, lost statements, unclear errors.
SPECIFICATION Spec
CONSTANTS
  Workers = {w1, w2}
  Readings = {r1}
  Linkable = {r1}
  Slots = {c1, c2}
  NoCopy = NoCopy
  MaxRetries = 1
  QueueLimit = 2
  BatchSize = 2
  Concurrency = 2
  ClaimLimit = 2
  ReclaimIsTimely = FALSE
  StatementsMayFail = TRUE
  ErrorsAreDefinite = FALSE
  FundingMayDry = FALSE
  MaxCrashes = 1
  MaxSends = 1
SYMMETRY Interchangeable
INVARIANTS TypeOK FirstHandExclusive ParkedOnlyAfterAllRetries
PROPERTIES LeavesTableOnlyWhenDone QueueLedgerSpec
