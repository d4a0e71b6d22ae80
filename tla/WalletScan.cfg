\* The V1 wallet and witness files over a forking chain.
SPECIFICATION Spec
CONSTANTS
  None = None
  Depth = 2
  Genesis = "g"
  Blocks = {"a1", "a2", "a3", "a4", "b2", "b3", "c1", "c2"}
  Parent <- ChainParent
  Body <- ChainBody
  Mine = {"n1", "n2"}
  NoteBytes = 356
  MaxNotes = 2
  MaxPlanRecords = 3
  MaxImageBytes = 3328
  MaxWitnessBlocks = 3
  MaxWitnessAppends = 4
  MaxJournalBytes = 1900
  MaxFaults = 3
INVARIANTS
  StoresFollowBranch
  RefusedOnlyForRoom
  RestartRecovers
CHECK_DEADLOCK FALSE
