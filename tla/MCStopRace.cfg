SPECIFICATION XSpec
CONSTANTS
  Device = {d1}
  NJobs = 1
  NSteps = 1
  Lease = {l1, l2}
  CanRun <- MCCanRun
  EvidenceStep = {}
  LeaseTTL = 0
  MaxLag = 0
  Nobody = Nobody
  Verdicts = {"SUCCEEDED"}
  StopRoutes = {"api"}
  Restarts = FALSE
PROPERTY
  StopReachesAll
