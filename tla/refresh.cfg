SPECIFICATION Spec

CONSTANTS
  p1 = p1
  p2 = p2
  k1 = k1
  k2 = k2
  v1 = v1
  v2 = v2
  None = None
  NoPlan = NoPlan
  Pollers = {p1, p2}
  Via <- OneOfEach
  Keys = {k1}
  Versions = {v1}
  Initially <- AllFirst
  NGroups = 2
  MaxCount = 1
  Widths = {0, 1, 2}
  SelfFits <- UpToOne
  Pooled = TRUE
  PoolFits <- UpToOne
  Edits = {"manual"}
  MaxEpoch = 2

INVARIANTS
  TypeOK
  PlanIsCurrent

PROPERTIES
  UpdateIsComplete
  UpdateSettlesGroups
