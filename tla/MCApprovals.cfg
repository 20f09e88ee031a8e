SPECIFICATION ASpec
CONSTANTS
  Task = {t1}
  Request = {r1, r2}
  Workflow = {"refund", "delete", "reply", "captcha"}
  Risk <- MCRisk
  Approval = {a1, a2}
  ApprovalTTL = 0
  MaxTime = 1
  MaxVersion = 6
  None = None
SYMMETRY RequestSymmetry
INVARIANTS
  ATypeOK
  OnlyCleared
  PendingIsTrue
  WaitingIsAsked
  DispatchedThroughTask
PROPERTIES
  ClearanceSpec
\* The clock is bounded, and a cancelled task has nothing left to do.
CHECK_DEADLOCK FALSE
