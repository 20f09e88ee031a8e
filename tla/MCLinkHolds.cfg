SPECIFICATION LSpec
CONSTANTS
  NCommands = 3
  Handler = {h1, h2}
  Orders = {"PAUSE", "RESUME", "STOP"}
  Emergency = FALSE
  Button = {}
  Upsets = {"crash", "refuse", "throw"}
  Impatient = TRUE
  None = None
SYMMETRY HandlerSymmetry
INVARIANTS
  AcknowledgedWasCarriedOut
  CommandHolds
PROPERTY
  CarriedOutInOrder
