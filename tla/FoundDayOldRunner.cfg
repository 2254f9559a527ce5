CONSTANTS
  N = 3
  Daemons <- MCDaemons
  Pids <- MCPids
  Nobody = Nobody
  Stranger = Stranger
  MaxCrashes = 0
  MaxRestarts = 0
  AgesAt <- MCWorking
SPECIFICATION Spec
INVARIANTS OneRunnerWorks
CHECK_DEADLOCK FALSE
