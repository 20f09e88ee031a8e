SPECIFICATION Spec
CONSTANTS
  d1 = d1
  d2 = d2
  Device = {d1, d2}
  NJobs = 2
  NSteps = 2
  Lease = {l1, l2}
  CanRun <- MCCanRun
  EvidenceStep = {2}
  LeaseTTL = 1
  MaxLag = 1
  Nobody = Nobody
SYMMETRY LeaseSymmetry
INVARIANTS
  TypeOK
  OneHolder
  LeasedIffHeld
  VerdictsMatch
  EvidenceFromHolder
PROPERTIES
  TerminalStays
  BoardSpec
