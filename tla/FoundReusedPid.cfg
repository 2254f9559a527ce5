CONSTANTS
  N = 3
  Daemons <- MCDaemons
  Pids <- MCPids
  Nobody = Nobody
  Stranger = Stranger
  MaxCrashes = 0
  MaxRestarts = 0
  AgesAt <- MCStandby
SPECIFICATION Spec
PROPERTIES SparesWhoComesLater
CHECK_DEADLOCK FALSE
