CONSTANTS
  Unlock = {u1, u2}
  Command = {}
  User = {f1}
  Bluetooth = Bluetooth
  None = None
  MatchWindow = 1
  PreMotor = 1
  MotorWindow = 2
  Expiry = 2
  LiveAge = 2
  MaxKeys = 3
  MaxPush = 1
  MaxTime = 4
  MaxRestarts = 1
SPECIFICATION Spec
SYMMETRY Symmetry
PROPERTIES SeededStaysQuiet
