SPECIFICATION FairSpec
CONSTANTS
  Entries <- AnEntry
  Finalizers <- AFinalizer
  Foreign <- TheForeign
  Protected <- ClaimAndPV
  HookFiles <- TutorialFile
  StaleInformer = FALSE
  GCEnabled = TRUE
  MaxFaults = 1
PROPERTIES StaleResourcesDestroyed
CHECK_DEADLOCK FALSE
