SPECIFICATION Spec
CONSTANTS
  Volumes = {v1, v2}
  ClassConfigs <- SomeClasses
  ClaimConfigs <- SomeClaims
  Numerals <- SomeNumerals
  Images <- SomeImages
  MatchExpressions <- OneRule
  PullSecret = ""
  ServerNamespace = "openebs"
  MaxEdits = 1
INVARIANTS TypeOK PVReachesOwnServer SettingsAsRead OneGroupMechanism
INVARIANT DeploymentsComplete
CHECK_DEADLOCK FALSE
