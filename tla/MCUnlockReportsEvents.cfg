CONSTANTS
  Unlock = {u1, u2}
  Command = {c1, c2}
  User = {}
  Bluetooth = Bluetooth
  None = None
  MatchWindow = 1
  PreMotor = 1
  MotorWindow = 2
  Expiry = 2
  LiveAge = 2
  MaxKeys = 3
  MaxPush = 1
  MaxTime = 4
  MaxRestarts = 0
SPECIFICATION Spec
SYMMETRY Symmetry
INVARIANTS AnnouncedOnceEach NoStaleIdentity OneReportPerCommand FailedStaysOut ConfirmedOnce
