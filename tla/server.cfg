SPECIFICATION FairSpec
CONSTANTS
  Files = {f1, f2}
  MaxFaults = 2
  MaxErrors = 2
INVARIANTS TypeOK OwnersBeforeExport RejectedNeverExported
PROPERTIES EventuallyExported
CHECK_DEADLOCK FALSE
