CONSTANTS
  a = a
  b = b
  u1 = u1
  u2 = u2
  Plugins <- MCPlugins
  Users <- MCUsers
  MaxAsks = 2
  ScheduleTries = 2
  ConsumeTries = 2
  LateRequests = TRUE
  MaxCrashes = 0
SPECIFICATION Spec
INVARIANTS RequestsPersist
CHECK_DEADLOCK FALSE
