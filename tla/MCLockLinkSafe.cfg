CONSTANTS
  Operation = {o1}
  KeepAlive = None
  Service = {s1}
  Several = {s1}
  Suspender = {p}
  Client = {c1, c2, c3}
  None = None
  Attempts = 2
  MaxToggles = 0
SPECIFICATION Spec
SYMMETRY Symmetry
INVARIANTS TypeOK ConnectedIsBacked
PROPERTIES NothingAfterShutdown
