CONSTANTS
  Lock = {l1}
  Slot = {s1}
  Id = {p1, p2}
  MaxTime = 0
  MaxCrashes = 0
  None = None
SPECIFICATION FairSpec
PROPERTIES ExpiredIsArchived
