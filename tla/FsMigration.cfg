CONSTANTS
  f = f
  idx = idx
  l = l
  m1 = m1
  m2 = m2
  Files <- MCFiles
  Links <- MCLinks
  Index = idx
  Migrators <- MCTwo
  AtOnce = 2
  Conflicts = TRUE
  MaxCrashes = 2
SPECIFICATION Spec
INVARIANTS PersistedLast
PROPERTIES NothingLost NothingOverwritten Migrates
CHECK_DEADLOCK FALSE
