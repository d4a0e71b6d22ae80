SPECIFICATION FairSpec
CONSTANTS
  None = None
  Cursors = {"wallet", "witness"}
  Journals = {"execution"}
  Faults = {"io", "crash", "power"}
  MaxFaults = 2
  MaxVersion = 1
  MaxGeneration = 2
INVARIANTS
  NoUpdateLost
  OneOwner
PROPERTIES
  HandoffNeverRegresses
  RollsForward
CHECK_DEADLOCK FALSE
