SPECIFICATION Spec
CONSTANTS
  Keys = {"proof", "pool"}
  Users = {"u", "v"}
  Spaces = {1}
  PoolSpace = 1
  Chunks = {"x", "y", "z"}
  Proofs <- RivalProofs
  Requests <- TwoRequests
  Domains = {"main"}
  FirstBump = {"n2"}
  Tags = {60, 65, 67, 73}
  Funds <- UnequalFunds
  Gifts = {1, 2}
  MaxGifts = 1
  Starts <- TwoStarts
  MaxSequence = 2
  MaxInstructions = 2
  Zero = "0"
INVARIANTS AccountsAreSound VerifiedReceiptsAreTrue SpendsAreSerial
PROPERTIES AccountsAdvance
CHECK_DEADLOCK FALSE
