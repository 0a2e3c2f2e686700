SPECIFICATION Spec

CONSTANTS
  sensors = sensors
  circuits = circuits
  water = water
  p1 = p1
  p2 = p2
  Names = {sensors, circuits, water}
  Optional = {circuits, water}
  Polls = {p1, p2}
  NameLists <- Readings
  MaxCalls = 2
  MaxErrors = 2

INVARIANTS
  DeadLinkIsTold
  UpdatesAreTold
  CompleteMeansRefreshed

SYMMETRY Callers
CHECK_DEADLOCK FALSE
