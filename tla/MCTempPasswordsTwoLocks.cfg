CONSTANTS
  Lock = {l1, l2}
  Slot = {s1}
  Id = {p1, p2}
  MaxTime = 0
  MaxCrashes = 0
  None = None
SPECIFICATION Spec
SYMMETRY Symmetry
INVARIANTS IssuedIsKnown OneCurrentPerSlot
