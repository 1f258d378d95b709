SPECIFICATION Spec
CONSTANTS
  Main = Main
  Producers = {p1}
  Writer = Writer
  NoThread = NoThread
  QueueSizes = {0}
  MaxQueueSize = 0
  BulkWrites = {0, 1}
  LogLevels = {0, 3}
  FlushLoops = 1
  MaxMsgs = 2
INVARIANTS TypeOK CountMatchesQueue WriterFindsEntry NothingLost
  ZeroCountMeansWritten QueueOverrunBounded WriterGoneAtRest
  DestroyDropsOnlyAfterTimeout
PROPERTY ImplementsService
