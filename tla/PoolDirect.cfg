CONSTANTS
  Serials = {s1, s2, s3}
  ValueLimit = 3
  LeafCapacity = 4
  PageCapacity = 2
  TokenMax = 4
  SlotMax = 0
  Releases = {r1}
  Proofs = {p1}
  Payers = {a1}
  ForgedRoots <- OneForgedLeaf
  OutputChoices <- OutputLists
  Donations = {1}
  ReceiptLimit = 0
  PlanLimit = 0
SPECIFICATION Spec
SYMMETRY SerialsAreAlike
INVARIANTS Solvent
PROPERTIES ImplementsLedger
CHECK_DEADLOCK FALSE
