SPECIFICATION Spec
CONSTANTS
  lockA = lockA
  lockB = lockB
  flow = flow
  button = button
  Mac <- MCMac
  Task <- MCTask
  Ops <- MCOps
  NoMac = NoMac
  NoTask = NoTask
  MaxGen = 2
  MaxMishaps = 1
SYMMETRY MCSymmetry
INVARIANT KeysTypeOK
PROPERTIES LedgerKept ActivationsSurvive ImportsWereChecked ReloadedIsInUse
