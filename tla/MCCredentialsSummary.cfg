CONSTANTS
  Lock = {l1}
  Kind = {"finger"}
  Hw = {h1, h2}
  NoSlot = NoSlot
  Name = {n1, n2}
  Id = {i1, i2}
  CutShort = TRUE
  MaxMember = 1
  MaxLocal = 2
  MaxStops = 1
  None = None
SPECIFICATION Spec
SYMMETRY Symmetry
PROPERTIES GoneBeforeForgotten
