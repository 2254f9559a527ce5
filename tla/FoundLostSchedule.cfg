CONSTANTS
  Period = 2
  TemplateKeeps = 3
  RunsKeep = 3
  MaxNow = 6
  MaxRuns = 0
  MaxCrashes = 0
SPECIFICATION Spec
INVARIANTS ScheduleStays
CHECK_DEADLOCK FALSE
