SPECIFICATION Spec
CONSTANTS
  Names <- MCNames
  Texts <- MCTexts
  Sections = {"General", "logging"}
  Keys = {"port", "portrange", "logfile"}
  Lower <- MCLower
  Prefix <- MCPrefix
  Strtol <- MCStrtol
  MaxPairs = 2
  MaxStrings = 4
INVARIANTS TypeOK  StringsOwned PortIsWanted
