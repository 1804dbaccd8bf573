\* Answers are definite and submissions arrive; transactions of the database may fail.
SPECIFICATION Spec
CONSTANTS
  Coins = {c1, c2, c3, c4, c5}
  Funded = {c1, c2}
  Processes = {p1, p2}
  Tasks = {t1, t2}
  None = None
  LocksOutlastWork = TRUE
  AnswersMayBeLost = FALSE
  UpdatesMayFail = TRUE
  SubmitsMayFail = FALSE
  SubmitsOverlap = FALSE
  NetworkForgets = FALSE
  MaxCrashes = 0
SYMMETRY Interchangeable
INVARIANTS
  NeverOffersSpent
  NothingStranded
CHECK_DEADLOCK FALSE
