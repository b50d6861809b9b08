CONSTANTS
  Lock = {l1}
  Slot = {s1}
  Id = {p1, p2}
  MaxTime = 1
  MaxCrashes = 1
  None = None
SPECIFICATION Spec
SYMMETRY Symmetry
INVARIANTS TypeOK ArchivedIsGone PauseStateTrue IssuedPinStays
