CONSTANTS
  N = 3
  Expired <- MCExpired
  Stuck <- MCStuck
  Touched <- MCTouched
  Batch = 2
  MaxHooks = 1
  MaxWrites = 3
  MaxCrashes = 1
SPECIFICATION Spec
INVARIANTS GoneClean
PROPERTIES DeletionStands RequestsEnd RetentionEnds
CHECK_DEADLOCK FALSE
