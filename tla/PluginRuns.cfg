CONSTANTS
  a = a
  b = b
  u1 = u1
  u2 = u2
  Plugins <- MCPlugins
  Users <- MCUsers
  MaxAsks = 2
  ScheduleTries = 2
  ConsumeTries = 2
  LateRequests = FALSE
  MaxCrashes = 1
SPECIFICATION Spec
INVARIANTS RequestsPersist RequestsQueued
PROPERTIES RequestsRun
CHECK_DEADLOCK FALSE
