SPECIFICATION PSpec
CONSTANTS
  Device = {d1, d2}
  NJobs = 1
  NSteps = 2
  Lease = {l1, l2}
  CanRun <- MCCanRun
  EvidenceStep = {2}
  LeaseTTL = 0
  MaxLag = 0
  Nobody = Nobody
  Handler = {h1, h2}
  Verdicts = {"SUCCEEDED", "RETRYABLE", "FAILED"}
  CaptureStep = {2}
  Impatient = TRUE
  Others = {"time", "operator", "pruning"}
  MaxMishaps = 1
SYMMETRY WorkerSymmetry
INVARIANTS
  PTypeOK
  DoneIsRecorded
  StepsInOrder
PROPERTY
  EvidenceBacksResults
