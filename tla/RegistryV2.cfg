SPECIFICATION Spec
CONSTANTS
  Family = "V2"
  Profiles = {"spend"}
  Releases = {"r1"}
  StatementVersions = {1}
  Programs = {"verifier"}
  RegistryProgram = "registry"
  Hashes = {"h1", "h2"}
  Authorities = {"gov"}
  ZeroAuthority = "zero"
  PolicyBindings = {"policy", "other"}
  Delays = {1}
  U64Max = 4
  Policy <- ImmutablePolicy
INVARIANTS
  SelectedCodeIsAttested
CHECK_DEADLOCK FALSE
