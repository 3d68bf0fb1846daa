SPECIFICATION OperationsSpec
CONSTANTS
  Requests = {r1, r2}
  MaxRequests = 2
  MaxNow = 4
  Limit = 1
  WindowSeconds = 2
  FLAG_CACHE_TTL = 2
  MaxSets = 1
  MaxOutages = 1
  MaxFailures = 1
  MaxStarts = 2
  STALE = 2
  LastTag = 3
  MAX_HISTORY = 3
  Attempts = 2
  Commanders = {c1, c2}
  MaxCommands = 5
  MaxTogether = 2
  MaxFaults = 1
  Invocations <- MCInvocations
SYMMETRY MCSymmetry
CHECK_DEADLOCK FALSE
INVARIANTS HealthyMeansScheduled StopsCleanly NoLockout SchemaLeadsCode RecordDescribesTheBox
PROPERTIES SwitchIsSeen RollbackWalksBack
