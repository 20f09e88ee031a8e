SPECIFICATION LFairSpec
CONSTANTS
  NCommands = 2
  Handler = {h1}
  Orders = {"PAUSE"}
  Emergency = TRUE
  Button = {"IDLE"}
  Upsets = {"crash", "refuse", "throw"}
  Impatient = TRUE
  None = None
INVARIANT
  LTypeOK
PROPERTIES
  CommandsGetThrough
