CONSTANTS
  Operation = {k}
  KeepAlive = k
  Service = {s1}
  Several = {}
  Suspender = {}
  Client = {c1, c2}
  None = None
  Attempts = 1
  MaxToggles = 2
SPECIFICATION FairSpec
PROPERTIES ServicesEnd PersistentReturns
