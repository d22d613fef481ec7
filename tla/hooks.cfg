SPECIFICATION Spec
CONSTANTS
  Entries <- AnEntry
  Finalizers <- AFinalizer
  Foreign <- TheForeign
  Protected <- ClaimAndPV
  HookFiles <- AllFiles
  StaleInformer = TRUE
  GCEnabled = TRUE
  MaxFaults = 2
INVARIANTS TypeOK PublishedHooked
PROPERTIES ForeignEntriesKept
CHECK_DEADLOCK FALSE
