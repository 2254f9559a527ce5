CONSTANTS
  Period = 2
  TemplateKeeps = 0
  RunsKeep = 3
  MaxNow = 6
  MaxRuns = 1
  MaxCrashes = 1
SPECIFICATION Spec
PROPERTIES OncePerSlot Repeats
CHECK_DEADLOCK FALSE
