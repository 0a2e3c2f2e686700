SPECIFICATION Spec

CONSTANTS
  m1 = m1
  m2 = m2
  m3 = m3
  None = None
  Refused = Refused
  Spaces = {"holding"}
  Members = {m1, m2, m3}
  Classes <- AtRest
  MaxDepth = 2
  Layouts <- Start
  Manual = {m3}
  Targets <- Handed
  Pools = {{m1, m2}, {m1, m3}}
  MaxCount = 2

INVARIANTS
  PlansAreSound
  PoolReadsNothingMore
  ExcludedIsNotRead
  RelocationMovesPlan
  PoolMapIsCurrent

PROPERTIES
  RestrictKeepsReadable
