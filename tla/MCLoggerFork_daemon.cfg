SPECIFICATION ForkSpec
CONSTANTS
  Main = Main
  Producers = {}
  Writer = Writer
  NoThread = NoThread
  QueueSizes = {2}
  MaxQueueSize = 2
  BulkWrites = {0}
  LogLevels = {2}
  FlushLoops = 1
  MaxMsgs = 16
  Deamonize = {TRUE}
  iWantedWorkers = 2
  ServeMsgs = 1
PROPERTY DaemonLogs
CHECK_DEADLOCK FALSE
