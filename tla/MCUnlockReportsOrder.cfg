CONSTANTS
  Unlock = {u1, u2, u3}
  Command = {}
  User = {}
  Bluetooth = Bluetooth
  None = None
  MatchWindow = 1
  PreMotor = 1
  MotorWindow = 1
  Expiry = 1
  LiveAge = 1
  MaxKeys = 1
  MaxPush = 1
  MaxTime = 3
  MaxRestarts = 0
SPECIFICATION Spec
SYMMETRY Symmetry
INVARIANTS ReportsTypeOK NewestOwnsFields
