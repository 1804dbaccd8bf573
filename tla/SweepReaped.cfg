\* Two sweeping processes and writers; locks are reaped under their owner, every fault.
SPECIFICATION Spec
CONSTANTS
  Coins = {c1, c2, c3, c4}
  Funded = {c1, c2}
  Dust = {c1, c2, c4}
  Processes = {p1, p2}
  Others = Others
  None = None
  BatchSize = 2
  LocksOutlastWork = FALSE
  UpdatesMayFail = TRUE
SYMMETRY Interchangeable
INVARIANTS TypeOK CountedOnce
PROPERTIES ForeignLocksKept LedgerSpec
CHECK_DEADLOCK FALSE
