SPECIFICATION Spec
CONSTANTS
  iWantedWorkers = 1
  UintRange = 8
  IPCMax = 1
  MaxClients = 0
  MaxSignals = 0
  MaxFaults = 0
PROPERTY WorkerInitReturns
CHECK_DEADLOCK FALSE
