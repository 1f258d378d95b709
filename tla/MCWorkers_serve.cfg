SPECIFICATION Spec
CONSTANTS
  iWantedWorkers = 3
  UintRange = 8
  IPCMax = 1
  MaxClients = 4
  MaxSignals = 2
  MaxFaults = 1
INVARIANTS TypeOK CleanExit RouteHasEntry MeetingPointStays RoundRobin ClientsAccounted
PROPERTIES ImplementsRouting StartupEnds ExitEnds 
CHECK_DEADLOCK FALSE
