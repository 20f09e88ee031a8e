SPECIFICATION ISpec
CONSTANTS
  Code = {k1, k2}
  Call = {c1, c2}
  MaxRotations = 1
  MaxBeats = 2
  None = None
  Event = {e1, e2, e3}
  e1 = e1
  e2 = e2
  e3 = e3
  i1 = i1
  i3 = i3
  Task = {i1, i3}
  IdentityOf <- MCIdentityOf
  Known = {i1}
  Capacity = 1
SYMMETRY IntakeSymmetry
INVARIANTS
  ITypeOK
  CodesPairOnce
  NewsIsNew
  AcknowledgedIsStored
  RoutedTogether
PROPERTY
  RecordsStand
\* Both codes may be spent and the phone locked out or its heartbeats counted out.
CHECK_DEADLOCK FALSE
