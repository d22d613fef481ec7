SPECIFICATION Spec
CONSTANTS
  Files = {f1, f2}
  MaxFaults = 1
  MaxErrors = 0
INVARIANTS PermissionsBeforeExport
CHECK_DEADLOCK FALSE
