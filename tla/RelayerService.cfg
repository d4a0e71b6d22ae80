SPECIFICATION FairSpec
CONSTANTS
  Requests = {a}
  ObservedSlot <- AllAtZero
  Policies <- OpenAndPaused
  InitialPolicy <- Open
  Startups = {0}
  Validity = 2
  MaxEntries = 1
  MaxRecords = 1
  MaxHeight = 4
  ReplaceFaults = FALSE
  OperatorRequeues = TRUE
  QueueDepth = 1
  Inflight = 1
  SnapshotAge = 1
  RateWindow = 2
  Admissions = 2
PROPERTIES OutcomesAreDurable SignedIsReconciled
