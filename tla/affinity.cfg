SPECIFICATION Spec
CONSTANTS
  Words <- SomeWords
  Volumes = {v1}
  Nodes = {n1, n2}
  Labelings <- SomeLabelings
  Settings <- SomeSettings
  MaxChanges = 1
  MaxRestarts = 1
INVARIANT TypeOK
INVARIANT RulesAsMeant
PROPERTY PlacedByRules
PROPERTY EventuallyPlaced
CHECK_DEADLOCK FALSE
