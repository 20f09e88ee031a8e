SPECIFICATION LSpec
CONSTANTS
  NCommands = 1
  Handler = {h1, h2}
  Orders = {"PAUSE", "RESUME", "TAKEOVER", "STOP"}
  Emergency = TRUE
  Button = {}
  Upsets = {"crash", "refuse", "throw"}
  Impatient = TRUE
  None = None
INVARIANT
  AcknowledgedWasCarriedOut
