SPECIFICATION Spec

CONSTANTS
  r1 = r1
  r2 = r2
  u1 = u1
  u2 = u2
  Requests = {r1, r2}
  Owners = {o1, o2}
  Recyclers = {}
  NoTask = NoTask
  Cancellable = {}
  Units = {u1, u2}
  UnitOf <- OneUnitEach
  Clients = {c1, c2, c3, c4}
  NoClient = NoClient
  Backend = "pymodbus"
  Tls = TRUE
  LateHook = TRUE
  Spaced = TRUE
  BaseDelay = FALSE
  DelayUnits = {u1}
  TimeoutUnits = {}
  Timeouts = {}
  BaseTimeout = NoTimeout
  DefaultTimeout = 2
  NoTimeout = NoTimeout

INVARIANTS
  OneRequestOnWire

PROPERTIES
  ClosedStaysDown
  ClosedStartsNoRequest

SYMMETRY ClientSymmetry
