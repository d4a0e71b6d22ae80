SPECIFICATION Spec
CONSTANTS
  Requests = {a, b}
  ObservedSlot <- AllAtZero
  Policies <- EveryPolicy
  InitialPolicy <- Open
  Startups = {0}
  Validity = 1
  MaxEntries = 3
  MaxRecords = 2
  MaxHeight = 3
  ReplaceFaults = TRUE
  OperatorRequeues = FALSE
  QueueDepth = 2
  Inflight = 2
  SnapshotAge = 4
  RateWindow = 4
  Admissions = 3
SYMMETRY RequestsAreAlike
INVARIANTS SentIsJournaled OutcomesAreTrue QueueReopens SignedIsHeld
