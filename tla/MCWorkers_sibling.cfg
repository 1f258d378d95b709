SPECIFICATION Spec
CONSTANTS
  iWantedWorkers = 2
  UintRange = 8
  IPCMax = 1
  MaxClients = 0
  MaxSignals = 1
  MaxFaults = 0
PROPERTY OnlyMasterKills
CHECK_DEADLOCK FALSE
