SPECIFICATION Spec
CONSTANTS
  Names <- MCNames
  NoName = ""
  IndexName = "index.html"
  Lower <- MCLower
  Ext <- MCExt
  Disk <- MCDisk
  Clients = {c1}
  Limit = 5
  MaxFaults = 0
INVARIANT DeregisterEndsConnection
CHECK_DEADLOCK FALSE
