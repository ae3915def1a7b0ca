CONSTANTS
  Hosts <- MCHosts
  LiteralOf <- MCLiteralOf
  Configs <- MCConfigs
  Operators <- MCOperators
  Types = {"json", "html"}
SPECIFICATION Spec
INVARIANTS
  ReachesOnlyPermitted
  HopsBounded
  RefusedMeansUnsent
  ValidatedConfigDispatches
CHECK_DEADLOCK FALSE
