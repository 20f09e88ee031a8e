SPECIFICATION PFairSpec
CONSTANTS
  Device = {d1}
  NJobs = 1
  NSteps = 2
  Lease = {l1, l2}
  CanRun <- MCCanRun
  EvidenceStep = {}
  LeaseTTL = 0
  MaxLag = 0
  Nobody = Nobody
  Handler = {h1, h2}
  Verdicts = {"SUCCEEDED", "FAILED"}
  CaptureStep = {}
  Impatient = FALSE
  Others = {}
  MaxMishaps = 2
PROPERTY
  JobsGetDone
