CONSTANTS
  N = 3
  Expired <- MCExpired
  Stuck <- MCStuck
  Touched <- MCTouched
  Batch = 1
  MaxHooks = 1
  MaxWrites = 2
  MaxCrashes = 1
SPECIFICATION Spec
PROPERTIES RequestsEnd
CHECK_DEADLOCK FALSE
