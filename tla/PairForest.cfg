CONSTANTS
  s1 = s1
  s2 = s2
  Serials = {s1, s2}
  ValueLimit = 4
  Lanes = {1, 2}
  PairCapacity = 4
  PageCapacity = 3
  TokenMax = 4
  CheckpointMax = 2
  OutputLane <- OneLaneEach
  DepositLane <- ByValue
  ForeignRoots <- OneForeignRoot
  OutputChoices <- OutputLists
  Donations = {1}
SPECIFICATION Spec
INVARIANTS CheckpointsCoherent NoteNeverStranded
PROPERTIES ImplementsLedger
CHECK_DEADLOCK FALSE
