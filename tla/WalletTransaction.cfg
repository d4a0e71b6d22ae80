CONSTANTS
  Chain <- MCChain
  Lanes <- MCLanes
  InitialNotes <- MCInitialNotes
  None = None
  NoNote <- MCNoNote
  Sightings <- MCSightings
  Faults = {"store", "io", "crash", "power", "restore"}
  MaxFaults = 2
  MaxRecords = 3
  MaxGeneration = 3
  MaxSeals = 2
SPECIFICATION FairSpec
INVARIANTS LaneHistoryComplete
PROPERTIES StagedRollsForward ImplementsLedger
CHECK_DEADLOCK FALSE
