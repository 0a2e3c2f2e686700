SPECIFICATION Spec

CONSTANTS
  r1 = r1
  r2 = r2
  u1 = u1
  u2 = u2
  Requests = {r1}
  Owners = {o1, o2}
  Recyclers = {k1, k2}
  NoTask = NoTask
  Cancellable = {r1}
  Units = {u1, u2}
  UnitOf <- OneUnitEach
  Clients = {c1, c2, c3}
  NoClient = NoClient
  Backend = "pymodbus"
  Tls = FALSE
  LateHook = FALSE
  Spaced = FALSE
  BaseDelay = FALSE
  DelayUnits = {}
  TimeoutUnits = {u1, u2}
  Timeouts = {1, 3}
  BaseTimeout = NoTimeout
  DefaultTimeout = 2
  NoTimeout = NoTimeout

INVARIANTS
  CloseLeavesNothing
  ShortTimeoutIsRecycled

PROPERTIES
  OnlyGraceCutsRequest

SYMMETRY ClientSymmetry
