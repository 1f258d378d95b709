SPECIFICATION FairSpec
CONSTANTS
  Main = Main
  Producers = {p1}
  Writer = Writer
  NoThread = NoThread
  QueueSizes = {1}
  MaxQueueSize = 1
  BulkWrites = {0}
  LogLevels = {3}
  FlushLoops = 1
  MaxMsgs = 2
PROPERTIES QueuedIsWritten DestroyReturns ImplementsFairService
