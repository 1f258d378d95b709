SPECIFICATION FairSpec
CONSTANTS
  Main = Main
  Producers = {}
  Writer = Writer
  NoThread = NoThread
  QueueSizes = {3}
  MaxQueueSize = 3
  BulkWrites = {1}
  LogLevels = {0}
  FlushLoops = 1
  MaxMsgs = 3
PROPERTY FlushIsServed
