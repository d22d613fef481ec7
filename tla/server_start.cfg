SPECIFICATION Spec
CONSTANTS
  Files = {f1, f2}
  MaxFaults = 1
  MaxErrors = 0
INVARIANTS StartedUp
CHECK_DEADLOCK FALSE
