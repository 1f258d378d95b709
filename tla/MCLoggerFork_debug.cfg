SPECIFICATION ForkSpec
CONSTANTS
  Main = Main
  Producers = {}
  Writer = Writer
  NoThread = NoThread
  QueueSizes = {2}
  MaxQueueSize = 2
  BulkWrites = {0}
  LogLevels = {3}
  FlushLoops = 1
  MaxMsgs = 16
  Deamonize = {FALSE}
  iWantedWorkers = 2
  ServeMsgs = 1
PROPERTY ServerServes
CHECK_DEADLOCK FALSE
