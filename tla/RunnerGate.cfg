CONSTANTS
  N = 3
  Daemons <- MCDaemons
  Pids <- MCPids
  Nobody = Nobody
  Stranger = Stranger
  MaxCrashes = 1
  MaxRestarts = 1
  AgesAt <- MCStandby
SPECIFICATION Spec
INVARIANTS TypeOK OneRunnerWorks WorkerOnRecord
PROPERTIES SparesStrangers Elects TakesTurns
CHECK_DEADLOCK FALSE
