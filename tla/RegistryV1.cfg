SPECIFICATION Spec
CONSTANTS
  Family = "V1"
  Profiles = {"spend"}
  Releases = {"r1", "r2"}
  StatementVersions = {1, 2}
  Programs = {"verifier"}
  RegistryProgram = "registry"
  Hashes = {"h1"}
  Authorities = {"gov"}
  ZeroAuthority = "zero"
  PolicyBindings = {"policy"}
  Delays = {0, 1}
  U64Max = 5
  Policy <- MutablePolicy
INVARIANTS
  RetirementKeepsAVerifier
  ActivationDelayHeld
  AppliedAtMostOnce
PROPERTIES
  SelectionNeverLost
CHECK_DEADLOCK FALSE
