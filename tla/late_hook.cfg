SPECIFICATION Spec

CONSTANTS
  r1 = r1
  r2 = r2
  u1 = u1
  u2 = u2
  Requests = {r1, r2}
  Owners = {o1}
  Recyclers = {}
  NoTask = NoTask
  Cancellable = {r1}
  Units = {u1, u2}
  UnitOf <- OneUnitEach
  Clients = {c1, c2, c3}
  NoClient = NoClient
  Backend = "tmodbus"
  Tls = FALSE
  LateHook = TRUE
  Spaced = FALSE
  BaseDelay = FALSE
  DelayUnits = {}
  TimeoutUnits = {}
  Timeouts = {}
  BaseTimeout = NoTimeout
  DefaultTimeout = 2
  NoTimeout = NoTimeout

PROPERTIES
  TeardownNeverFires

SYMMETRY ClientSymmetry
