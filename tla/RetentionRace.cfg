\* Two workers with two connections, their sessions their own or a pooler's.
SPECIFICATION RetentionSpec
CONSTANTS
  Schedulers = {1, 2}
  Connections = {1, 2}
  BatchesPerPass = 2
  MaxHolds = 2
INVARIANT OnePassAnInterval
