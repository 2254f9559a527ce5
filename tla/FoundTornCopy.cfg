CONSTANTS
  f = f
  idx = idx
  l = l
  m1 = m1
  m2 = m2
  Files <- MCFiles
  Links <- MCLinks
  Index = idx
  Migrators <- MCTwo
  AtOnce = 1
  Conflicts = FALSE
  MaxCrashes = 1
SPECIFICATION Spec
PROPERTIES ResumesNaturally
CHECK_DEADLOCK FALSE
