SPECIFICATION FairSpec
CONSTANTS
  Entries <- AnEntry
  Finalizers <- AFinalizer
  Foreign <- TheForeign
  Protected <- ClaimAndPV
  HookFiles <- LiveFiles
  StaleInformer = FALSE
  GCEnabled = FALSE
  MaxFaults = 2
PROPERTIES DeletedVolumeGoes
CHECK_DEADLOCK FALSE
