SPECIFICATION WFairSpec
CONSTANTS
  NNodes = 3
  Deps <- MCDeps
  Request = {r1, r2}
  Restarts = TRUE
  MaxVersion = 7
  OneOfThem = TRUE
  Parent = 0
INVARIANTS
  WTypeOK
  NodesInOrder
  NodesAreTrue
  ParentIsTrue
PROPERTIES
  NodesStay
  FlowSettles
\* Nobody takes up a launch that a restart interrupted, and of a run whose parent was
\* cancelled before its launch had queued it the desktop never learns.
CHECK_DEADLOCK FALSE
