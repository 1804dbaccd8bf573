\* Everything goes wrong: errors, lost answers, a restart, a forgetful network; and no lock
\* lasts for ever. No symmetry.
SPECIFICATION FairSpec
CONSTANTS
  Coins = {c1, c2, c3}
  Funded = {c1}
  Processes = {p1, p2}
  Tasks = {t1, t2}
  None = None
  LocksOutlastWork = TRUE
  AnswersMayBeLost = TRUE
  UpdatesMayFail = TRUE
  SubmitsMayFail = TRUE
  SubmitsOverlap = FALSE
  NetworkForgets = TRUE
  MaxCrashes = 1
INVARIANTS
  TypeOK
  Exclusive
  NeverCountedTwice
PROPERTY LocksEnd
CHECK_DEADLOCK FALSE
