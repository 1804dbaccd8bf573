\* Locks are reaped while their owner still works and submissions overlap; the
\* transactions of the database succeed and the network forgets nothing.
SPECIFICATION Spec
CONSTANTS
  Coins = {c1, c2, c3}
  Funded = {c1}
  Processes = {p1, p2}
  Tasks = {t1, t2}
  None = None
  LocksOutlastWork = FALSE
  AnswersMayBeLost = TRUE
  UpdatesMayFail = FALSE
  SubmitsMayFail = TRUE
  SubmitsOverlap = TRUE
  NetworkForgets = FALSE
  MaxCrashes = 1
SYMMETRY Interchangeable
PROPERTY LedgerSpec
CHECK_DEADLOCK FALSE
