SPECIFICATION PFairSpec
CONSTANTS
  Device = {d1}
  NJobs = 1
  NSteps = 2
  Lease = {l1, l2}
  CanRun <- MCCanRun
  EvidenceStep = {}
  LeaseTTL = 0
  MaxLag = 0
  Nobody = Nobody
  Handler = {h1}
  Verdicts = {"SUCCEEDED"}
  CaptureStep = {}
  Impatient = FALSE
  Others = {}
  MaxMishaps = 0
PROPERTY
  ResultsArrive
