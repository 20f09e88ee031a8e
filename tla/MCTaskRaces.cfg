SPECIFICATION XSpec
CONSTANTS
  Device = {d1, d2}
  NJobs = 1
  NSteps = 2
  Lease = {l1, l2}
  CanRun <- MCCanRun
  EvidenceStep = {}
  LeaseTTL = 0
  MaxLag = 0
  Nobody = Nobody
  Verdicts = {"SUCCEEDED", "RETRYABLE", "HUMAN_TAKEOVER", "FAILED"}
  StopRoutes = {"api", "tool"}
  Restarts = TRUE
SYMMETRY PhoneSymmetry
INVARIANTS
  XTypeOK
  ReportedEndIsReal
  HumanHolds
  VersionCountsEvents
  StopIsThorough
