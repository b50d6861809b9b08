CONSTANTS
  Lock = {l1}
  Kind = {"finger"}
  Hw = {h1, h2}
  NoSlot = NoSlot
  Name = {n1, n2}
  Id = {i1, i2}
  CutShort = FALSE
  MaxMember = 1
  MaxLocal = 2
  MaxStops = 1
  None = None
SPECIFICATION Spec
SYMMETRY Symmetry
INVARIANTS TypeOK RecordsAreSound CredentialPauseTrue EnrolledIsRecorded
PROPERTIES GoneBeforeForgotten
