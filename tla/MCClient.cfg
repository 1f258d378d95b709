SPECIFICATION Spec
CONSTANTS
  Names <- MCNames
  NoName = ""
  IndexName = "index.html"
  Lower <- MCLower
  Ext <- MCExt
  Disk <- MCDisk
  Clients = {c1, c2}
  Limit = 5
  MaxFaults = 1
INVARIANTS TypeOK NoStaleEvent OwnsDescriptor DescriptorsAccounted AnswerFollowsRequest
PROPERTIES ImplementsRouting ClientReleased SigintEnds
CHECK_DEADLOCK FALSE
