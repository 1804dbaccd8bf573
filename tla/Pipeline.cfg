\* Four stations in pages of two, one of which cannot be asked; two callers of a provider; two
\* sockets and two readings; two wallets at the gate; three outputs, the last one from outside;
\* three transactions of which one is sent twice, one tracked at a time; one confirmed by every
\* writer of its status; two broadcasts; two writes and two wallets; two uses of the spend source; two
\* workers with two connections, their own or a pooler's; two callers of a listing; a wallet of two
\* outputs, two more to come.
SPECIFICATION PipelineSpec
CONSTANTS
  StationCount = 4
  PageSize = 2
  Unplaced = {2}
  Fetches = {1, 2}
  Retries = 1
  PerSecond = 1
  PerDay = 2
  MaxVersion = 2
  SocketCount = 2
  ReadingCount = 2
  GateWallets = 2
  OutputCount = 3
  Funding = {3}
  PageLimit = 1
  PagesPerCycle = 2
  Txids = {1, 2, 3, 4}
  Resent = {1}
  Untracked = Untracked
  MaxTracked = 1
  MaxChecks = 2
  CheckConcurrency = 2
  Txs = {t1}
  Times = {1, 2}
  CycleBatch = 1
  Calls = {1, 2}
  Picks = {1, 2}
  WalletCount = 2
  Busy = {1}
  Funds <- HandfulOfFunds
  Uses = {1, 2}
  FailureThreshold = 3
  ShadowReads = TRUE
  Schedulers = {1, 2}
  Connections = {1, 2}
  BatchesPerPass = 2
  MaxHolds = 2
  Askers = {1, 2}
  Holdings = {1, 2, 3, 4}
  AtStart = {1, 2}
  LockBatch = 2
  UpsertBatch = 2
  SweepLimit = 1
INVARIANTS PipelineTypeOK NeverForgotten TrackerBounded OnlyMinedIsConfirmed FallbackIsEarned
  NotModifiedWasParsed SecondPassNeedsLostLock ListingIsRecent RecoveryMends
PROPERTIES TrackingEnds ConfirmedReadingIsFinal PrimaryReturns FundsAreFound OverlayReturns
  EveryStationAsked FetchEnds StreamComesBack ListedIsTaken PausedOnEvidence PauseEnds
  FundingIsAdmitted RetentionGoesOn
