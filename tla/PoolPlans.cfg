CONSTANTS
  Serials = {s1, s2}
  ValueLimit = 2
  LeafCapacity = 3
  PageCapacity = 3
  TokenMax = 2
  SlotMax = 1
  Releases = {r1}
  Proofs = {p1}
  Payers = {a1}
  ForgedRoots = {}
  OutputChoices <- WholeNotes
  Donations = {}
  ReceiptLimit = 1
  PlanLimit = 2
SPECIFICATION Spec
SYMMETRY SerialsAreAlike
INVARIANTS EveryRootRetained DepositNeverBlocked NoteNeverStranded
PROPERTIES DeadPlansNeverSettle PauseStopsSpending
CHECK_DEADLOCK FALSE
